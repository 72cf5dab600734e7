---------------------------- MODULE SessionProofs ---------------------------
(***************************************************************************)
(* Theorems of Session, for any number of connections and requests and any *)
(* size of the receive buffer.                                             *)
(***************************************************************************)
EXTENDS Session, SequenceTheorems, TLAPS

-----------------------------------------------------------------------------
(* The inductive invariant.                                                *)

\* The stream s carries parts of one message, in order and without gaps, and only
\* behind them a FIN or RST.
Whole(s) ==
  /\ \A i \in 1..Len(s) : s[i].kind = "data" =>
       s[i].m = s[1].m /\ s[i].n > 0 /\ s[i].off + s[i].n <= s[1].m.messageLen
  /\ \A i \in 1..Len(s) : i < Len(s) => s[i].kind = "data"
  /\ \A i, j \in 1..Len(s) : i < j /\ s[j].kind = "data" =>
       /\ s[i].off + s[i].n <= s[j].off
       /\ j = i + 1 => s[j].off = s[i].off + s[i].n

AllData(s) == \A i \in 1..Len(s) : s[i].kind = "data"

\* Where the bytes of stream s end, when the reader is at from.
EndAt(s, from) == IF s = <<>> THEN from ELSE s[Len(s)].off + s[Len(s)].n

\* How much of its packet the agent of c has, and how much of its reply the shell.
APos(c) == CASE aPc[c] \in {"lenPoll", "len"} -> SizeofInt - aNeed[c]
             [] aPc[c] \in {"bodyPoll", "body"} -> aBuf[c].messageLen - aNeed[c]
             [] OTHER -> 0
CPos == CASE cPc = "len" -> SizeofInt - cNeed
          [] cPc = "body" -> recvBuf.messageLen - cNeed
          [] OTHER -> 0

Reading(c) == aPc[c] \notin {"close", "done"}
Replying(c) == aPc[c] \in {"sendPoll", "send"} /\ aSent[c] < ToSend(c).messageLen
Busy == cPc \in {"send", "len", "body", "reply"}
Sending == cPc = "send" /\ sent < sendBuf.messageLen
Awaiting == (cPc = "send" /\ sent = sendBuf.messageLen) \/ cPc \in {"len", "body"}
FailCodes == {"INVALID_ARGUMENT", "INVALID_RECORD", "SOCK_SEND_FAILED"}

\* A message the shell may have sent, and one an agent may have sent.
Request(m) == /\ m \in Message /\ m.messageLen >= SizeofHeader
              /\ m.for \in 1..req /\ m.opCode = op[m.for]
Reply(m) == /\ m \in Message /\ m.messageLen \in SizeofReply..RECV_BUF_SIZE
            /\ m.for \in 0..req /\ m.returnCode \notin FailCodes
            /\ m.for # 0 /\ m.returnCode = EDB_OK /\ op[m.for] = OP_INSERT => m.for \in stored

\* The places of the two ends of a connection and of its agent go together.
Ends ==
  /\ Busy => fd # 0
  /\ cPc = "gone" => fd = 0
  /\ \A c \in Conn :
       /\ cEnd[c] \in {"open", "reset"} <=> c = fd
       /\ cEnd[c] = "none" <=> sEnd[c] = "none"
       /\ sEnd[c] \in {"none", "backlog"} <=> aPc[c] = "off"
       /\ sEnd[c] = "closed" <=> aPc[c] = "done"
       /\ c # fd => toCli[c] = <<>>
       /\ sEnd[c] \in {"none", "closed"} => toSrv[c] = <<>>
       /\ cEnd[c] = "open" => AllData(toSrv[c])
       /\ cEnd[c] = "open" /\ sEnd[c] # "closed" => AllData(toCli[c])
       /\ cEnd[c] = "reset" => ~HasData(toSrv[c])

\* The next byte for the agent of c is the next one of the packet it has begun.
SrvSide(c) ==
  Reading(c) =>
    /\ Whole(toSrv[c])
    /\ aPc[c] \in {"lenPoll", "len"} => aNeed[c] \in 0..SizeofInt
    /\ aPc[c] \in {"bodyPoll", "body"} => /\ aNeed[c] \in 0..(aBuf[c].messageLen - SizeofInt)
                                          /\ aBuf[c].messageLen + 1 <= aSize[c]
    /\ APos(c) > 0 => Request(aBuf[c])
    /\ HasData(toSrv[c]) => /\ toSrv[c][1].off = APos(c)
                            /\ Request(toSrv[c][1].m)
                            /\ APos(c) > 0 => toSrv[c][1].m = aBuf[c]

\* The request that is on its way to the agent of c, or being read by it.
Carry(c) == IF ~Reading(c) THEN {}
            ELSE IF HasData(toSrv[c]) THEN {toSrv[c][1].m.for}
            ELSE IF APos(c) > 0 THEN {aBuf[c].for} ELSE {}

\* A request is on its way on one connection only, and not processed yet.
CarriedOnce ==
  \A c \in Conn : \A n \in Carry(c) :
    /\ execs[n] = 0
    /\ Busy /\ c # fd => n # req
    /\ \A d \in Conn : d # c => n \notin Carry(d)

\* What is still to come, and what the shell knows of its current request.
Requests ==
  /\ \A n \in Req : execs[n] <= 1
  /\ \A n \in Req : n > req => execs[n] = 0 /\ result[n] = "none" /\ n \notin answered
  /\ Busy => req > 0 /\ result[req] = "none"
  /\ Busy => Request(sendBuf) /\ sendBuf.for = req /\ sent <= sendBuf.messageLen
  /\ cPc \in {"len", "body"} => sent = sendBuf.messageLen
  /\ cPc \in {"send", "len", "body"} => req \notin answered
  /\ Sending => execs[req] = 0

\* A request that was refused, or that can no longer be sent in full, is never
\* complete at an agent.
Doomed(n) == \/ result[n] \in FailCodes
             \/ n = req /\ Sending /\ cEnd[fd] = "reset"
DoomedIsIncomplete ==
  \A n \in Req : Doomed(n) =>
    /\ execs[n] = 0
    /\ \A c \in Conn : n \in Carry(c) => /\ ~HasData(toSrv[c]) /\ cEnd[c] # "open"
                                         /\ APos(c) < aBuf[c].messageLen

\* While the shell sends, or waits and its request is not processed, everything sent
\* is on its way or read, and no reply is; otherwise nothing is on its way.
Turn ==
  fd # 0 /\ cEnd[fd] = "open" /\ Reading(fd) =>
    IF Sending \/ (Awaiting /\ execs[req] = 0)
    THEN /\ toSrv[fd] # <<>> => toSrv[fd][1].m = sendBuf
         /\ APos(fd) > 0 => aBuf[fd] = sendBuf
         /\ EndAt(toSrv[fd], APos(fd)) = sent
         /\ toCli[fd] = <<>> /\ CPos = 0 /\ ~Replying(fd)
    ELSE /\ toSrv[fd] = <<>> /\ APos(fd) = 0
         /\ ~Awaiting => toCli[fd] = <<>> /\ ~Replying(fd)

\* What the agent of the open connection has sent of its reply is what the shell has
\* read and what is on its way to it.
ReplyInStep ==
  fd # 0 /\ cEnd[fd] = "open" /\ Replying(fd) =>
    /\ aBuf[fd].for = req
    /\ EndAt(toCli[fd], CPos) = aSent[fd]
    /\ toCli[fd] # <<>> => toCli[fd][1].m = ToSend(fd)
    /\ CPos > 0 => recvBuf = ToSend(fd)

\* The message m answers the current request, unless msgBuildReply failed.
Answers(m) == Reply(m) /\ execs[req] # 0 /\ (fd \notin unbuilt => m.for = req)

\* The next byte for the shell is the next one of the reply to its request.
CliSide ==
  fd # 0 =>
    /\ Whole(toCli[fd])
    /\ HasData(toCli[fd]) => /\ cEnd[fd] = "open" /\ Awaiting /\ toSrv[fd] = <<>>
                             /\ toCli[fd][1].off = CPos
                             /\ Answers(toCli[fd][1].m)
                             /\ CPos > 0 => toCli[fd][1].m = recvBuf

Received ==
  /\ cPc = "len" => /\ cNeed \in 0..SizeofInt
                    /\ cNeed = SizeofInt => recvBuf = Zero
                    /\ cNeed < SizeofInt => Answers(recvBuf)
  /\ cPc = "body" => cNeed \in 0..(recvBuf.messageLen - SizeofInt) /\ Answers(recvBuf)
  /\ cPc = "reply" => (req \in answered => recvBuf # Zero) /\ (recvBuf # Zero => Answers(recvBuf))

\* The result buffer of an agent holds a reply that fits it, the one for its packet
\* while it sends, unless msgBuildReply failed.
Replies ==
  \A c \in Conn :
    /\ aReply[c].content # Uninitialised =>
         Reply(aReply[c].content) /\ aReply[c].content.messageLen <= aReply[c].size
    /\ c \notin unbuilt /\ aPc[c] \in {"sendPoll", "send"} =>
         aReply[c].content # Uninitialised /\ aReply[c].content.for = aBuf[c].for

IInv ==
  /\ Ends
  /\ \A c \in Conn : SrvSide(c)
  /\ CarriedOnce
  /\ Requests
  /\ DoomedIsIncomplete
  /\ Turn
  /\ ReplyInStep
  /\ CliSide
  /\ Received
  /\ Replies
  /\ AckIsTrue

-----------------------------------------------------------------------------
(* The streams.                                                            *)

ChunkT == [kind : {"data", "FIN", "RST"}, m : Message, off : Nat, n : Nat]

\* What ::send and ::close append keeps a stream whole.
LEMMA WholeAppend ==
  ASSUME NEW s \in Stream, NEW x \in ChunkT, Whole(s), AllData(s),
         x.kind = "data" => /\ x.n > 0 /\ x.off + x.n <= x.m.messageLen
                            /\ s # <<>> => s[1].m = x.m /\ EndAt(s, 0) = x.off
  PROVE  /\ Append(s, x) \in Stream /\ Append(s, x) # <<>>
         /\ Append(s, x)[1] = IF s = <<>> THEN x ELSE s[1]
         /\ Whole(Append(s, x))
         /\ x.kind = "data" => AllData(Append(s, x)) /\ EndAt(Append(s, x), 0) = x.off + x.n
<1> DEFINE t == Append(s, x)
<1>1. s \in Seq(ChunkT) /\ t \in Seq(ChunkT) /\ Len(s) \in Nat /\ Len(t) = Len(s) + 1
  BY DEF Stream, ChunkT
<1>2. /\ \A i \in 1..Len(s) : t[i] = s[i] /\ s[i] \in ChunkT
      /\ t[Len(s) + 1] = x
  BY <1>1
<1>3. t # <<>> /\ t[1] = IF s = <<>> THEN x ELSE s[1]
  <2>1. CASE s = <<>>
    BY <1>1, <1>2, <2>1
  <2>2. CASE s # <<>>
    BY <1>1, <1>2, <2>2, EmptySeq
  <2> QED
    BY <2>1, <2>2
<1> HIDE DEF t
<1>4. ASSUME NEW i \in 1..Len(t), t[i].kind = "data"
      PROVE  t[i].m = t[1].m /\ t[i].n > 0 /\ t[i].off + t[i].n <= t[1].m.messageLen
  <2>1. CASE i \in 1..Len(s)
    <3>1. s # <<>> /\ t[i] = s[i] /\ t[1] = s[1]
      BY <1>1, <1>2, <1>3, <2>1
    <3> QED
      BY <1>4, <2>1, <3>1 DEF Whole
  <2>2. CASE i = Len(s) + 1
    BY <1>1, <1>2, <1>3, <1>4, <2>2
  <2> QED
    BY <1>1, <2>1, <2>2
<1>5. ASSUME NEW i \in 1..Len(t), i < Len(t)
      PROVE  t[i].kind = "data"
  <2>1. i \in 1..Len(s)
    BY <1>1, <1>5
  <2> QED
    BY <1>2, <2>1 DEF AllData
<1>6. ASSUME NEW i \in 1..Len(t), NEW j \in 1..Len(t), i < j, t[j].kind = "data"
      PROVE  t[i].off + t[i].n <= t[j].off /\ (j = i + 1 => t[j].off = t[i].off + t[i].n)
  <2>1. i \in 1..Len(s) /\ t[i] = s[i] /\ s # <<>>
    BY <1>1, <1>2, <1>6
  <2>2. CASE j \in 1..Len(s)
    BY <1>2, <1>6, <2>1, <2>2 DEF Whole
  <2>3. CASE j = Len(s) + 1
    <3>1. t[j] = x /\ x.off = s[Len(s)].off + s[Len(s)].n
      BY <1>2, <1>6, <2>1, <2>3 DEF EndAt
    <3>2. Len(s) \in 1..Len(s) /\ s[Len(s)].kind = "data"
      BY <1>1, <2>1 DEF AllData
    <3>3. CASE i = Len(s)
      BY <1>1, <1>2, <2>1, <2>3, <3>1, <3>2, <3>3 DEF ChunkT
    <3>4. CASE i # Len(s)
      <4>1. i < Len(s)
        BY <1>1, <2>1, <3>4
      <4>2. s[i].off + s[i].n <= s[Len(s)].off
        BY <2>1, <3>2, <4>1 DEF Whole
      <4>3. j # i + 1
        BY <1>1, <2>3, <4>1
      <4>4. /\ s[i].off \in Nat /\ s[i].n \in Nat
            /\ s[Len(s)].off \in Nat /\ s[Len(s)].n \in Nat
        BY <1>2, <2>1, <3>2 DEF ChunkT
      <4> QED
        BY <2>1, <3>1, <4>2, <4>3, <4>4
    <3> QED
      BY <3>3, <3>4
  <2> QED
    BY <1>1, <2>2, <2>3
<1>7. Whole(t)
  BY <1>4, <1>5, <1>6 DEF Whole
<1>8. ASSUME x.kind = "data" PROVE AllData(t) /\ EndAt(t, 0) = x.off + x.n
  <2>1. t[Len(t)] = x
    BY <1>1, <1>2
  <2>2. Len(t) \in 1..Len(t) /\ \A i \in 1..Len(t) : i = Len(t) \/ i < Len(t)
    BY <1>1
  <2> QED
    BY <1>3, <1>5, <1>8, <2>1, <2>2 DEF AllData, EndAt
<1> QED
  BY <1>1, <1>3, <1>7, <1>8 DEF t, Stream, ChunkT

\* The end of a stream is not before the end of its first part.
LEMMA EndIsBehind ==
  ASSUME NEW s \in Stream, Whole(s), AllData(s), s # <<>>
  PROVE  /\ EndAt(s, 0) \in Nat /\ s[1].off + s[1].n <= EndAt(s, 0)
         /\ s[1].n > 0 /\ s[1] \in ChunkT /\ HasData(s)
<1>1. Len(s) \in Nat /\ Len(s) >= 1
  BY EmptySeq DEF Stream
<1>2. \A i \in 1..Len(s) : s[i] \in ChunkT
  <2>1. s \in Seq(ChunkT)
    BY DEF Stream, ChunkT
  <2> QED
    BY <2>1, ElementOfSeq
<1>3. 1 \in 1..Len(s) /\ Len(s) \in 1..Len(s)
  BY <1>1
<1>4. s[1].n > 0 /\ s[1].kind = "data" /\ s[Len(s)].kind = "data"
  BY <1>3 DEF Whole, AllData
<1>5. /\ s[1].off \in Nat /\ s[1].n \in Nat
      /\ s[Len(s)].off \in Nat /\ s[Len(s)].n \in Nat
  BY <1>2, <1>3 DEF ChunkT
<1>6. s[1].off + s[1].n <= s[Len(s)].off + s[Len(s)].n
  <2>0. \A k \in Nat : k >= 1 => k = 1 \/ 1 < k
    OBVIOUS
  <2>1. CASE Len(s) = 1
    BY <1>5, <2>1
  <2>2. CASE 1 < Len(s)
    <3>1. s[1].off + s[1].n <= s[Len(s)].off
      BY <1>3, <1>4, <2>2 DEF Whole
    <3> QED
      BY <1>5, <3>1
  <2> QED
    BY <1>1, <2>0, <2>1, <2>2
<1> QED
  BY <1>2, <1>3, <1>4, <1>5, <1>6 DEF EndAt, HasData

\* A buffer of zeros is a message, a FIN and an RST can end a stream.
LEMMA ZeroType == Zero \in Message /\ FIN \in ChunkT /\ RST \in ChunkT
<1>1. Zero \in Message
  <2>1. <<>> \in Seq([size : Nat, id : BOOLEAN]) /\ 0 \in 0..MaxReq /\ 0 \in 0..8 /\ EDB_OK \in ReplyCode
    BY BoundAssumption DEF ReplyCode
  <2> QED
    BY <2>1 DEF Zero, Message
<1> QED
  BY <1>1 DEF FIN, RST, ChunkT

\* ::close ends a stream and leaves its parts as they are.
LEMMA WholeHangup ==
  ASSUME NEW s \in Stream, Whole(s), NEW u
  PROVE  /\ Hangup(s, u) \in Stream /\ Whole(Hangup(s, u))
         /\ HasData(Hangup(s, u)) <=> HasData(s)
         /\ HasData(s) => Hangup(s, u)[1] = s[1]
<1>1. CASE Ended(s)
  BY <1>1 DEF Hangup
<1>2. CASE ~Ended(s)
  <2> DEFINE x == IF Unread(u) THEN RST ELSE FIN
  <2>1. x \in ChunkT /\ x.kind # "data"
    BY ZeroType DEF RST, FIN
  <2>2. AllData(s)
    <3>0. \A k \in Nat : \A i \in 1..k : i = k \/ i < k
      OBVIOUS
    <3>1. Len(s) \in Nat
      BY DEF Stream
    <3>2. ASSUME NEW i \in 1..Len(s) PROVE s[i].kind = "data"
      <4>1. s # <<>>
        BY <3>1, <3>2
      <4> QED
        BY <1>2, <3>0, <3>1, <3>2, <4>1 DEF Ended, Whole
    <3> QED
      BY <3>2 DEF AllData
  <2>3. Hangup(s, u) = Append(s, x)
    BY <1>2 DEF Hangup
  <2> HIDE DEF x
  <2> QED
    BY <2>1, <2>2, <2>3, WholeAppend DEF HasData
<1> QED
  BY <1>1, <1>2

\* ::recv of need bytes takes the next k bytes and leaves the rest in place.
LEMMA WholeTake ==
  ASSUME NEW s \in Stream, Whole(s), HasData(s), NEW need \in Nat, need > 0
  PROVE  /\ AfterTake(s, need) \in Stream /\ Whole(AfterTake(s, need))
         /\ Taken(s, need) \in Nat /\ Taken(s, need) > 0
         /\ Taken(s, need) <= need /\ Taken(s, need) <= s[1].n
         /\ HasData(AfterTake(s, need)) => /\ AfterTake(s, need)[1].off = s[1].off + Taken(s, need)
                                           /\ AfterTake(s, need)[1].m = s[1].m
         /\ AllData(s) => /\ AllData(AfterTake(s, need))
                          /\ EndAt(AfterTake(s, need), s[1].off + Taken(s, need)) = EndAt(s, 0)
<1> DEFINE t == AfterTake(s, need)
           k == Taken(s, need)
<1>0. \A h \in Nat : h # 0 => /\ 1 \in 1..h /\ h \in 1..h /\ h - 1 \in Nat /\ (h - 1) + 1 = h
                              /\ h - 1 = 0 => h = 1
                              /\ \A i \in 1..(h - 1) : i + 1 \in 1..h
  OBVIOUS
<1>1. /\ s \in Seq(ChunkT) /\ s # <<>> /\ Len(s) \in Nat /\ Len(s) # 0 /\ 1 \in 1..Len(s)
      /\ Len(s) \in 1..Len(s)
  <2>1. s \in Seq(ChunkT) /\ s # <<>> /\ Len(s) \in Nat
    BY DEF HasData, Stream, ChunkT
  <2>2. Len(s) # 0
    BY <2>1, EmptySeq
  <2> QED
    BY <1>0, <2>1, <2>2
<1>2. \A i \in 1..Len(s) : s[i] \in ChunkT /\ s[i].off \in Nat /\ s[i].n \in Nat
  <2>1. \A i \in 1..Len(s) : s[i] \in ChunkT
    BY <1>1, ElementOfSeq
  <2> QED
    BY <2>1 DEF ChunkT
<1>3. s[1].kind = "data" /\ s[1].n > 0 /\ s[1].off + s[1].n <= s[1].m.messageLen
  BY <1>1 DEF Whole, HasData
<1>4. k \in Nat /\ k > 0 /\ k <= need /\ k <= s[1].n
  BY <1>1, <1>2, <1>3 DEF Taken
<1>5. CASE s[1].n <= need
  <2>1. t = Tail(s) /\ k = s[1].n
    BY <1>5 DEF AfterTake, Taken
  <2>2. /\ t \in Seq(ChunkT) /\ Len(t) = Len(s) - 1 /\ Len(t) \in Nat
        /\ \A i \in 1..Len(t) : i + 1 \in 1..Len(s) /\ t[i] = s[i + 1]
    <3>1. t \in Seq(ChunkT) /\ Len(t) = Len(s) - 1 /\ \A i \in 1..(Len(s) - 1) : t[i] = s[i + 1]
      BY <1>1, <2>1
    <3> QED
      BY <1>0, <1>1, <3>1
  <2> HIDE DEF t, k
  <2>3. HasData(t) => t[1].off = s[1].off + k /\ t[1].m = s[1].m
    <3> SUFFICES ASSUME HasData(t) PROVE t[1].off = s[1].off + k /\ t[1].m = s[1].m
      OBVIOUS
    <3>1. t # <<>> /\ t[1].kind = "data"
      BY DEF HasData
    <3>2. Len(t) # 0
      BY <2>2, <3>1, EmptySeq
    <3>3. 1 \in 1..Len(t)
      BY <1>0, <2>2, <3>2
    <3>4. 2 \in 1..Len(s) /\ t[1] = s[2]
      BY <2>2, <3>3
    <3> QED
      BY <1>1, <2>1, <3>1, <3>4 DEF Whole
  <2>4. Whole(t)
    <3>1. ASSUME NEW i \in 1..Len(t), t[i].kind = "data"
          PROVE  t[i].m = t[1].m /\ t[i].n > 0 /\ t[i].off + t[i].n <= t[1].m.messageLen
      <4>1. i + 1 \in 1..Len(s) /\ t[i] = s[i + 1]
        BY <2>2
      <4>2. t[i].m = s[1].m /\ t[i].n > 0 /\ t[i].off + t[i].n <= s[1].m.messageLen
        BY <3>1, <4>1 DEF Whole
      <4>3. t[1].kind = "data"
        <5>1. CASE i = 1
          BY <3>1, <5>1
        <5>2. CASE i # 1
          <6>1. 1 \in 1..Len(t) /\ 2 \in 1..Len(s) /\ 2 < Len(s)
            BY <1>1, <2>2, <5>2
          <6> QED
            BY <2>2, <6>1 DEF Whole
        <5> QED
          BY <5>1, <5>2
      <4>4. HasData(t)
        <5>1. t # <<>>
          BY <2>2, <3>1
        <5> QED
          BY <4>3, <5>1 DEF HasData
      <4> QED
        BY <2>3, <4>2, <4>4
    <3>2. ASSUME NEW i \in 1..Len(t), i < Len(t)
          PROVE  t[i].kind = "data"
      <4>1. i + 1 \in 1..Len(s) /\ t[i] = s[i + 1] /\ i + 1 < Len(s)
        BY <1>1, <2>2, <3>2
      <4> QED
        BY <4>1 DEF Whole
    <3>3. ASSUME NEW i \in 1..Len(t), NEW j \in 1..Len(t), i < j, t[j].kind = "data"
          PROVE  t[i].off + t[i].n <= t[j].off /\ (j = i + 1 => t[j].off = t[i].off + t[i].n)
      <4>1. /\ i + 1 \in 1..Len(s) /\ t[i] = s[i + 1] /\ j + 1 \in 1..Len(s) /\ t[j] = s[j + 1]
            /\ i + 1 < j + 1 /\ (j = i + 1 => j + 1 = (i + 1) + 1)
        BY <2>2, <3>3
      <4> QED
        BY <3>3, <4>1 DEF Whole
    <3> QED
      BY <3>1, <3>2, <3>3 DEF Whole
  <2>5. ASSUME AllData(s) PROVE AllData(t) /\ EndAt(t, s[1].off + k) = EndAt(s, 0)
    <3>1. AllData(t)
      BY <2>2, <2>5 DEF AllData
    <3>2. CASE t = <<>>
      <4>1. Len(s) = 1
        <5>1. Len(t) = 0
          BY <3>2
        <5> QED
          BY <1>0, <1>1, <2>2, <5>1
      <4> QED
        BY <1>1, <2>1, <3>1, <3>2, <4>1 DEF EndAt
    <3>3. CASE t # <<>>
      <4>1. Len(t) # 0
        BY <2>2, <3>3, EmptySeq
      <4>2. t[Len(t)] = s[Len(s)]
        <5>1. Len(t) \in 1..Len(t)
          BY <1>0, <2>2, <4>1
        <5>2. Len(t) + 1 = Len(s)
          BY <1>0, <1>1, <2>2
        <5> QED
          BY <2>2, <5>1, <5>2
      <4> QED
        BY <1>1, <3>1, <3>3, <4>2 DEF EndAt
    <3> QED
      BY <3>2, <3>3
  <2> QED
    BY <1>4, <2>2, <2>3, <2>4, <2>5 DEF t, k, Stream, ChunkT
<1>6. CASE ~(s[1].n <= need)
  <2> DEFINE x == [s[1] EXCEPT !.off = s[1].off + need, !.n = s[1].n - need]
  <2>1. t = <<x>> \o Tail(s) /\ k = need /\ need < s[1].n
    BY <1>1, <1>2, <1>6 DEF AfterTake, Taken
  <2>2. /\ x \in ChunkT /\ x.kind = "data" /\ x.m = s[1].m /\ x.off = s[1].off + k
        /\ x.n = s[1].n - k /\ x.n > 0 /\ x.off + x.n = s[1].off + s[1].n
    <3>1. s[1] \in ChunkT /\ s[1].off \in Nat /\ s[1].n \in Nat
      BY <1>1, <1>2
    <3>2. s[1].off + need \in Nat /\ s[1].n - need \in Nat /\ s[1].n - need > 0
          /\ (s[1].off + need) + (s[1].n - need) = s[1].off + s[1].n
      BY <2>1, <3>1
    <3> QED
      BY <1>3, <2>1, <3>1, <3>2 DEF ChunkT
  <2> HIDE DEF x
  <2>3. /\ t \in Seq(ChunkT) /\ Len(t) = Len(s) /\ t[1] = x
        /\ \A i \in 1..Len(s) : i # 1 => t[i] = s[i]
    <3>1. /\ Tail(s) \in Seq(ChunkT) /\ Len(Tail(s)) = Len(s) - 1
          /\ \A i \in 1..(Len(s) - 1) : Tail(s)[i] = s[i + 1]
      BY <1>1
    <3>2. <<x>> \in Seq(ChunkT) /\ Len(<<x>>) = 1 /\ <<x>>[1] = x
      BY <2>2
    <3>3. /\ t \in Seq(ChunkT) /\ Len(t) = 1 + (Len(s) - 1)
          /\ \A i \in 1..(1 + (Len(s) - 1)) : t[i] = IF i <= 1 THEN <<x>>[i] ELSE Tail(s)[i - 1]
      BY <2>1, <3>1, <3>2, ConcatProperties
    <3>4. \A h \in Nat : h # 0 => /\ 1 + (h - 1) = h
                                  /\ \A i \in 1..h : i # 1 => i - 1 \in 1..(h - 1) /\ (i - 1) + 1 = i /\ ~(i <= 1)
      OBVIOUS
    <3>5. Len(t) = Len(s) /\ 1 + (Len(s) - 1) = Len(s)
      BY <1>1, <3>3, <3>4
    <3>6. t[1] = x
      BY <1>1, <3>2, <3>3, <3>5
    <3>7. ASSUME NEW i \in 1..Len(s), i # 1 PROVE t[i] = s[i]
      BY <1>1, <3>1, <3>3, <3>4, <3>5, <3>7
    <3> QED
      BY <3>3, <3>5, <3>6, <3>7
  <2> HIDE DEF t, k
  <2>4. t # <<>>
    BY <1>1, <2>3
  <2>5. Whole(t)
    <3>1. ASSUME NEW i \in 1..Len(t), t[i].kind = "data"
          PROVE  t[i].m = t[1].m /\ t[i].n > 0 /\ t[i].off + t[i].n <= t[1].m.messageLen
      BY <1>3, <2>2, <2>3, <3>1 DEF Whole
    <3>2. ASSUME NEW i \in 1..Len(t), i < Len(t)
          PROVE  t[i].kind = "data"
      BY <2>2, <2>3, <3>2 DEF Whole
    <3>3. ASSUME NEW i \in 1..Len(t), NEW j \in 1..Len(t), i < j, t[j].kind = "data"
          PROVE  t[i].off + t[i].n <= t[j].off /\ (j = i + 1 => t[j].off = t[i].off + t[i].n)
      <4>1. i \in 1..Len(s) /\ j \in 1..Len(s) /\ j # 1 /\ t[j] = s[j]
        BY <1>1, <2>3, <3>3
      <4>2. t[i].off + t[i].n = s[i].off + s[i].n
        BY <2>2, <2>3, <4>1
      <4> QED
        BY <3>3, <4>1, <4>2 DEF Whole
    <3> QED
      BY <3>1, <3>2, <3>3 DEF Whole
  <2>6. ASSUME AllData(s) PROVE AllData(t) /\ EndAt(t, s[1].off + k) = EndAt(s, 0)
    <3>1. AllData(t)
      BY <2>2, <2>3, <2>6 DEF AllData
    <3>2. t[Len(t)].off + t[Len(t)].n = s[Len(s)].off + s[Len(s)].n
      BY <1>1, <2>2, <2>3
    <3> QED
      BY <1>1, <2>4, <3>1, <3>2 DEF EndAt
  <2> QED
    BY <1>4, <2>2, <2>3, <2>5, <2>6 DEF t, k, Stream, ChunkT
<1> QED
  BY <1>5, <1>6

-----------------------------------------------------------------------------
(* The messages.                                                           *)

\* The size of no object and of one object: the messages a session builds.
LEMMA NoObject == ObjSizes(<<>>) = 0
<1> DEFINE F(iter) == [s \in SUBSET {} |->
                         IF s = {} THEN 0
                         ELSE LET x == CHOOSE x \in s : TRUE IN <<>>[x].size + iter[s \ {x}]]
           it == CHOOSE iter : iter = F(iter)
<1>1. ObjSizes(<<>>) = it[{}]
  <2>1. DOMAIN <<>> = {}
    OBVIOUS
  <2> QED
    BY <2>1 DEF ObjSizes, FoldFunction, FoldFunctionOnSet, MapThenFoldSet
<1>2. F([s \in SUBSET {} |-> 0]) = [s \in SUBSET {} |-> 0]
  OBVIOUS
<1>3. it = F(it)
  BY <1>2, Zenon
<1> QED
  BY <1>1, <1>3

LEMMA OneObject ==
  ASSUME NEW o, o.size \in Nat
  PROVE  ObjSizes(<<o>>) = o.size
<1> DEFINE G(iter, s) == IF s = {} THEN 0
                         ELSE LET x == CHOOSE x \in s : TRUE IN <<o>>[x].size + iter[s \ {x}]
           F(iter) == [s \in SUBSET {1} |-> G(iter, s)]
           it == CHOOSE iter : iter = F(iter)
           w == [s \in SUBSET {1} |-> IF s = {} THEN 0 ELSE o.size]
<1>1. ObjSizes(<<o>>) = it[{1}]
  <2>1. DOMAIN <<o>> = {1}
    OBVIOUS
  <2> QED
    BY <2>1 DEF ObjSizes, FoldFunction, FoldFunctionOnSet, MapThenFoldSet
<1>2. \A f : f[{}] = 0 => G(f, {1}) = o.size
  <2> SUFFICES ASSUME NEW f, f[{}] = 0 PROVE G(f, {1}) = o.size
    OBVIOUS
  <2>1. (CHOOSE x \in {1} : TRUE) = 1 /\ {1} \ {1} = {} /\ {1} # {}
    OBVIOUS
  <2>2. <<o>>[1] = o
    OBVIOUS
  <2>3. G(f, {1}) = <<o>>[1].size + f[{}]
    BY <2>1
  <2> QED
    BY <2>2, <2>3
<1>3. \A f : G(f, {}) = 0
  OBVIOUS
<1>4. SUBSET {1} = {{}, {1}}
  OBVIOUS
<1> HIDE DEF G
<1>5. w = F(w)
  <2>1. w[{}] = 0 /\ w[{1}] = o.size
    BY <1>4
  <2> HIDE DEF w
  <2>2. G(w, {1}) = o.size /\ G(w, {}) = 0
    BY <1>2, <1>3, <2>1
  <2>3. \A s \in SUBSET {1} : w[s] = G(w, s)
    BY <1>4, <2>1, <2>2
  <2>4. w = [s \in SUBSET {1} |-> w[s]]
    BY DEF w
  <2> QED
    BY <2>3, <2>4
<1>6. it = F(it)
  BY <1>5, Zenon
<1>7. it[{}] = 0 /\ it[{1}] = G(it, {1})
  BY <1>3, <1>4, <1>6
<1> QED
  BY <1>1, <1>2, <1>7

\* Two objects have a size too.
LEMMA TwoObjects ==
  ASSUME NEW o, o.size \in Nat, NEW p, p.size \in Nat
  PROVE  ObjSizes(<<o, p>>) \in Nat
<1> DEFINE G(iter, s) == IF s = {} THEN 0
                         ELSE LET x == CHOOSE x \in s : TRUE IN <<o, p>>[x].size + iter[s \ {x}]
           F(iter) == [s \in SUBSET {1, 2} |-> G(iter, s)]
           it == CHOOSE iter : iter = F(iter)
           w == [s \in SUBSET {1, 2} |-> (IF 1 \in s THEN o.size ELSE 0) + (IF 2 \in s THEN p.size ELSE 0)]
<1>1. ObjSizes(<<o, p>>) = it[{1, 2}]
  <2>1. DOMAIN <<o, p>> = {1, 2}
    OBVIOUS
  <2> QED
    BY <2>1 DEF ObjSizes, FoldFunction, FoldFunctionOnSet, MapThenFoldSet
<1>2. \A s \in SUBSET {1, 2} : w[s] = G(w, s)
  <2> SUFFICES ASSUME NEW s \in SUBSET {1, 2}, s # {} PROVE w[s] = G(w, s)
    OBVIOUS
  <2> DEFINE x == CHOOSE x \in s : TRUE
  <2>1. x \in s /\ x \in {1, 2}
    OBVIOUS
  <2> HIDE DEF x
  <2>2. w[s] = <<o, p>>[x].size + w[s \ {x}]
    <3>1. CASE x = 1
      <4>1. <<o, p>>[x].size = o.size
        BY <3>1
      <4>2. w[s] = o.size + (IF 2 \in s THEN p.size ELSE 0)
        BY <2>1, <3>1
      <4>3. s \ {x} \in SUBSET {1, 2} /\ 1 \notin s \ {x} /\ (2 \in s \ {x} <=> 2 \in s)
        BY <3>1
      <4>4. w[s \ {x}] = IF 2 \in s THEN p.size ELSE 0
        BY <4>3
      <4> QED
        BY <4>1, <4>2, <4>4
    <3>2. CASE x = 2
      <4>1. <<o, p>>[x].size = p.size
        BY <3>2
      <4>2. w[s] = (IF 1 \in s THEN o.size ELSE 0) + p.size
        BY <2>1, <3>2
      <4>3. s \ {x} \in SUBSET {1, 2} /\ 2 \notin s \ {x} /\ (1 \in s \ {x} <=> 1 \in s)
        BY <3>2
      <4>4. w[s \ {x}] = IF 1 \in s THEN o.size ELSE 0
        BY <4>3
      <4> QED
        BY <4>1, <4>2, <4>4
    <3> QED
      BY <2>1, <3>1, <3>2
  <2> QED
    BY <2>2 DEF x
<1>3. w = F(w)
  <2> HIDE DEF G
  <2>1. w = [s \in SUBSET {1, 2} |-> w[s]]
    OBVIOUS
  <2> HIDE DEF w
  <2> QED
    BY <1>2, <2>1
<1>4. it = F(it)
  <2> HIDE DEF G, w
  <2> QED
    BY <1>3, Zenon
<1>5. it[{1, 2}] = G(it, {1, 2}) /\ it[{1}] = G(it, {1}) /\ it[{2}] = G(it, {2}) /\ it[{}] = G(it, {})
  <2> HIDE DEF G
  <2> QED
    BY <1>4
<1> HIDE DEF it
<1>6. it[{}] = 0
  BY <1>5
<1>7. it[{1}] = o.size /\ it[{2}] = p.size
  <2>1. (CHOOSE x \in {1} : TRUE) = 1 /\ {1} \ {1} = {} /\ {1} # {}
    OBVIOUS
  <2>2. (CHOOSE x \in {2} : TRUE) = 2 /\ {2} \ {2} = {} /\ {2} # {}
    OBVIOUS
  <2>3. it[{1}] = <<o, p>>[1].size + it[{}] /\ it[{2}] = <<o, p>>[2].size + it[{}]
    BY <1>5, <2>1, <2>2
  <2> QED
    BY <1>6, <2>3
<1>8. it[{1, 2}] \in Nat
  <2> DEFINE x == CHOOSE x \in {1, 2} : TRUE
  <2>1. x = 1 \/ x = 2
    OBVIOUS
  <2>2. it[{1, 2}] = <<o, p>>[x].size + it[{1, 2} \ {x}]
    BY <1>5
  <2> HIDE DEF x
  <2>3. CASE x = 1
    <3>1. {1, 2} \ {1} = {2} /\ <<o, p>>[1].size = o.size
      OBVIOUS
    <3> QED
      BY <1>7, <2>2, <2>3, <3>1
  <2>4. CASE x = 2
    <3>1. {1, 2} \ {2} = {1} /\ <<o, p>>[2].size = p.size
      OBVIOUS
    <3> QED
      BY <1>7, <2>2, <2>4, <3>1
  <2> QED
    BY <2>1, <2>3, <2>4
<1> QED
  BY <1>1, <1>8

\* What a builder of msg.cpp returns: the message, in a buffer that holds it, or
\* the buffer it was given, when that is too small and cannot grow.
LEMMA BuildResult ==
  ASSUME NEW buf, NEW sz \in Nat, NEW content, buf = [size |-> sz, content |-> content],
         NEW oom \in BOOLEAN, NEW opCode, NEW fixed, NEW num, NEW returnCode, NEW objs,
         NEW size \in Nat, size = fixed + ObjSizes(objs),
         NEW b, b = Build(buf, oom, opCode, fixed, num, returnCode, objs)
  PROVE  \/ /\ b.rc = EDB_OK
            /\ b.buf = [size |-> IF size <= sz THEN sz ELSE size,
                        content |-> [messageLen |-> size, opCode |-> opCode, num |-> num,
                                     returnCode |-> returnCode, data |-> objs, for |-> 0]]
         \/ b.rc # EDB_OK /\ b.buf = buf /\ oom
  BY DEF Build, msgCheckBuffer, EDB_OK, EDB_OOM, EDB_INVALIDARG

ObjT == [size : Nat, id : BOOLEAN]
Objs(objs) == objs \in Seq(ObjT)

\* A request as the shell builds it, before it is given its number.
Prepared(m, opCode) ==
  m \in Message /\ m.messageLen >= SizeofHeader /\ m.opCode = opCode

LEMMA RequestBuilt ==
  ASSUME NEW opCode \in 0..8, NEW fixed \in Nat, fixed >= SizeofHeader, NEW num \in Nat,
         NEW objs, Objs(objs), ObjSizes(objs) \in Nat
  PROVE  Prepared(Build(SendBuffer, FALSE, opCode, fixed, num, EDB_OK, objs).buf.content, opCode)
<1> DEFINE b == Build(SendBuffer, FALSE, opCode, fixed, num, EDB_OK, objs)
           size == fixed + ObjSizes(objs)
           m == [messageLen |-> size, opCode |-> opCode, num |-> num, returnCode |-> EDB_OK,
                 data |-> objs, for |-> 0]
<1>1. SEND_BUF_SIZE \in Nat /\ SendBuffer = [size |-> SEND_BUF_SIZE, content |-> Zero]
  BY DEF SendBuffer, SEND_BUF_SIZE
<1>3. size \in Nat /\ size >= SizeofHeader
  BY DEF SizeofHeader
<1>2. b.buf = [size |-> IF size <= SEND_BUF_SIZE THEN SEND_BUF_SIZE ELSE size, content |-> m]
  BY <1>1, <1>3 DEF Build, msgCheckBuffer, EDB_OK, EDB_OOM, EDB_INVALIDARG
<1> HIDE DEF size
<1>4. m \in Message
  BY <1>3, BoundAssumption DEF Message, ReplyCode, ObjT, Objs
<1>5. m.messageLen = size /\ m.opCode = opCode
  OBVIOUS
<1> HIDE DEF m
<1> SUFFICES Prepared(b.buf.content, opCode)
  OBVIOUS
<1> HIDE DEF b
<1>6. b.buf.content = m
  BY <1>2
<1> QED
  BY <1>3, <1>4, <1>5, <1>6 DEF Prepared

\* The object a user types, and those the server returns.
LEMMA Objects ==
  /\ \A doc : <<Obj(doc)>> \in Seq(ObjT) /\ ObjSizes(<<Obj(doc)>>) = 22
  /\ <<EmptyObj>> \in Seq(ObjT) /\ ObjSizes(<<EmptyObj>>) = 5
  /\ <<SnapshotObj>> \in Seq(ObjT) /\ ObjSizes(<<SnapshotObj>>) = 101
<1>1. /\ \A doc : Obj(doc) \in ObjT /\ Obj(doc).size = 22
      /\ EmptyObj \in ObjT /\ EmptyObj.size = 5
      /\ SnapshotObj \in ObjT /\ SnapshotObj.size = 101
  BY DEF Obj, EmptyObj, SnapshotObj, ObjT
<1>2. \A o \in ObjT : <<o>> \in Seq(ObjT) /\ o.size \in Nat
  BY DEF ObjT
<1> QED
  BY <1>1, <1>2, OneObject

\* Every builder the shell uses makes a request of its operation.
LEMMA ShellBuilds ==
  ASSUME NEW doc
  PROVE  /\ Prepared(msgBuildInsert(SendBuffer, FALSE, Obj(doc)).buf.content, OP_INSERT)
         /\ Prepared(msgBuildQuery(SendBuffer, FALSE, Obj(doc)).buf.content, OP_QUERY)
         /\ Prepared(msgBuildDelete(SendBuffer, FALSE, Obj(doc)).buf.content, OP_DELETE)
         /\ Prepared(HeaderOnly(OP_SNAPSHOT), OP_SNAPSHOT)
         /\ Prepared(HeaderOnly(OP_DISCONNECT), OP_DISCONNECT)
<1> DEFINE o == <<Obj(doc)>>
<1>1. Objs(o) /\ ObjSizes(o) \in Nat
  BY Objects DEF Objs
<1>2. /\ OP_INSERT \in 0..8 /\ OP_QUERY \in 0..8 /\ OP_DELETE \in 0..8
      /\ SizeofInsert \in Nat /\ SizeofKeyed \in Nat
      /\ SizeofInsert >= SizeofHeader /\ SizeofKeyed >= SizeofHeader
  BY DEF OP_INSERT, OP_QUERY, OP_DELETE, SizeofInsert, SizeofKeyed, SizeofHeader
<1>3. /\ msgBuildInsert(SendBuffer, FALSE, Obj(doc)) = Build(SendBuffer, FALSE, OP_INSERT, SizeofInsert, 1, EDB_OK, o)
      /\ msgBuildQuery(SendBuffer, FALSE, Obj(doc)) = Build(SendBuffer, FALSE, OP_QUERY, SizeofKeyed, 0, EDB_OK, o)
      /\ msgBuildDelete(SendBuffer, FALSE, Obj(doc)) = Build(SendBuffer, FALSE, OP_DELETE, SizeofKeyed, 0, EDB_OK, o)
  BY DEF msgBuildInsert, msgBuildQuery, msgBuildDelete
<1> HIDE DEF o
<1>4. /\ Prepared(Build(SendBuffer, FALSE, OP_INSERT, SizeofInsert, 1, EDB_OK, o).buf.content, OP_INSERT)
      /\ Prepared(Build(SendBuffer, FALSE, OP_QUERY, SizeofKeyed, 0, EDB_OK, o).buf.content, OP_QUERY)
      /\ Prepared(Build(SendBuffer, FALSE, OP_DELETE, SizeofKeyed, 0, EDB_OK, o).buf.content, OP_DELETE)
  BY <1>1, <1>2, RequestBuilt
<1>5. ASSUME NEW opCode \in 0..8 PROVE Prepared(HeaderOnly(opCode), opCode)
  <2>1. <<>> \in Seq(ObjT) /\ 0 \in 0..MaxReq /\ EDB_OK \in ReplyCode
    BY BoundAssumption DEF ReplyCode
  <2> QED
    BY <2>1 DEF HeaderOnly, Prepared, Message, SizeofHeader, ObjT
<1>6. OP_SNAPSHOT \in 0..8 /\ OP_DISCONNECT \in 0..8
  BY DEF OP_SNAPSHOT, OP_DISCONNECT
<1> QED
  BY <1>3, <1>4, <1>5, <1>6

\* What pmdProcessAgentRequest answers: an insert is acknowledged only when rtnInsert
\* returned EDB_OK for it.
LEMMA ProcessResult ==
  ASSUME NEW m \in Message, NEW ins \in RtnInsert
  PROVE  /\ Process(m, ins).rc \in ReplyCode
         /\ Objs(Process(m, ins).objs) /\ ObjSizes(Process(m, ins).objs) \in 0..101
         /\ m.opCode = OP_INSERT /\ Process(m, ins).rc = EDB_OK =>
              Process(m, ins).insert /\ ins = EDB_OK
<1> DEFINE p == Process(m, ins)
<1>1. p.rc \in ReplyCode
  BY DEF Process, ReplyCode, RtnInsert, RtnFind, RtnRemove, EDB_OK, EDB_INVALIDARG, OP_INSERT,
         OP_QUERY, OP_DELETE, OP_SNAPSHOT, OP_COMMAND, OP_DISCONNECT
<1>2. Objs(p.objs) /\ ObjSizes(p.objs) \in 0..101
  <2>1. p.objs = <<>> \/ p.objs = <<EmptyObj>> \/ p.objs = <<SnapshotObj>>
    BY Zenon DEF Process
  <2>2. Objs(<<>>) /\ ObjSizes(<<>>) \in 0..101
    BY NoObject DEF Objs
  <2>3. Objs(<<EmptyObj>>) /\ ObjSizes(<<EmptyObj>>) \in 0..101
    BY Objects DEF Objs
  <2>4. Objs(<<SnapshotObj>>) /\ ObjSizes(<<SnapshotObj>>) \in 0..101
    BY Objects DEF Objs
  <2> QED
    BY <2>1, <2>2, <2>3, <2>4, Zenon
<1>3. ASSUME m.opCode = OP_INSERT, p.rc = EDB_OK PROVE p.insert /\ ins = EDB_OK
  <2> DEFINE has == m.data[1].id
  <2>1. p.rc = CASE m.messageLen < SizeofHeader -> EDB_INVALIDARG
                 [] m.opCode = OP_INSERT -> IF ~(msgExtractInsert(m).rc = EDB_OK) THEN EDB_INVALIDARG
                                            ELSE IF ~has THEN "EDB_NO_ID" ELSE ins
    BY <1>3 DEF Process, OP_INSERT, OP_QUERY, OP_DELETE, OP_SNAPSHOT, OP_COMMAND, OP_DISCONNECT
  <2>2. p.insert = (m.opCode = OP_INSERT /\ msgExtractInsert(m).rc = EDB_OK /\ has)
    BY DEF Process
  <2> HIDE DEF p, has
  <2> QED
    BY <1>3, <2>1, <2>2 DEF EDB_OK, EDB_INVALIDARG
<1> QED
  BY <1>1, <1>2, <1>3

\* What building a reply with the code rc in buf returns: the message, or the buffer as
\* it was. The reply an agent builds fits the shell's buffer.
ReplyMade(b, buf, rc) ==
  \/ /\ b.rc = EDB_OK
     /\ b.buf \in [size : Nat, content : Message]
     /\ b.buf.content.messageLen <= b.buf.size
     /\ b.buf.content.messageLen \in SizeofReply..RECV_BUF_SIZE
     /\ b.buf.content.returnCode = rc
  \/ b.rc # EDB_OK /\ b.buf = buf

LEMMA ReplyBuilt ==
  ASSUME NEW buf \in [size : Nat, content : Message \cup {Uninitialised}], NEW oom \in BOOLEAN,
         NEW rc \in ReplyCode, NEW objs, Objs(objs), ObjSizes(objs) \in 0..101
  PROVE  ReplyMade(msgBuildReply(buf, oom, rc, objs), buf, rc)
<1> DEFINE b == msgBuildReply(buf, oom, rc, objs)
           size == SizeofReply + ObjSizes(objs)
           m == [messageLen |-> size, opCode |-> OP_REPLY, num |-> Len(objs),
                 returnCode |-> rc, data |-> objs, for |-> 0]
<1>1. size \in Nat /\ size \in SizeofReply..RECV_BUF_SIZE /\ SizeofReply \in Nat
  BY DEF SizeofReply, RECV_BUF_SIZE
<1>2. \/ b.rc = EDB_OK /\ b.buf = [size |-> IF size <= buf.size THEN buf.size ELSE size, content |-> m]
      \/ b.rc # EDB_OK /\ b.buf = buf
  <2>1. buf = [size |-> buf.size, content |-> buf.content] /\ buf.size \in Nat
    OBVIOUS
  <2>2. ObjSizes(objs) \in Nat
    OBVIOUS
  <2> QED
    BY <1>1, <2>1, <2>2, BuildResult DEF msgBuildReply
<1> HIDE DEF size
<1>3. m \in Message
  <2>1. OP_REPLY \in 0..8 /\ 0 \in 0..MaxReq
    BY BoundAssumption DEF OP_REPLY
  <2>2. Len(objs) \in Nat /\ objs \in Seq(ObjT)
    BY DEF Objs
  <2> QED
    BY <1>1, <2>1, <2>2 DEF Message, ObjT
<1>4. m.messageLen = size /\ m.returnCode = rc
  OBVIOUS
<1> HIDE DEF m, b
<1>5. ReplyMade(b, buf, rc)
  BY <1>1, <1>2, <1>3, <1>4 DEF ReplyMade
<1> QED
  BY <1>5 DEF b

-----------------------------------------------------------------------------
(* Types of what goes through the wire.                                    *)

LEMMA EndType ==
  <<>> \in Stream /\ <<FIN>> \in Stream /\ <<RST>> \in Stream
<1>1. <<>> \in Seq(ChunkT) /\ <<FIN>> \in Seq(ChunkT) /\ <<RST>> \in Seq(ChunkT)
  BY ZeroType
<1> QED
  BY <1>1 DEF Stream, ChunkT

LEMMA FirstType ==
  ASSUME NEW s \in Stream, s # <<>>
  PROVE  s[1] \in ChunkT /\ s[1].m \in Message /\ s[1].off \in Nat /\ s[1].n \in Nat
<1>1. s \in Seq(ChunkT) /\ Len(s) \in Nat /\ Len(s) # 0
  BY EmptySeq DEF Stream, ChunkT
<1>2. \A h \in Nat : h # 0 => 1 \in 1..h
  OBVIOUS
<1>3. s[1] \in ChunkT
  BY <1>1, <1>2, ElementOfSeq
<1> QED
  BY <1>3 DEF ChunkT

\* The part of a message that one ::send takes ends behind its beginning, and inside
\* a message that has a header.
LEMMA PartType ==
  ASSUME NEW m \in Message, NEW off \in Nat, off < m.messageLen
  PROVE  /\ PartEnd(m, off) \in Nat /\ PartEnd(m, off) > off
         /\ Chunk(m, off) \in ChunkT /\ Chunk(m, off).kind = "data" /\ Chunk(m, off).m = m
         /\ Chunk(m, off).off = off /\ Chunk(m, off).n = PartEnd(m, off) - off
         /\ Chunk(m, off).n > 0 /\ off + Chunk(m, off).n = PartEnd(m, off)
         /\ m.messageLen >= SizeofInt => PartEnd(m, off) <= m.messageLen
<1>1. m.messageLen \in Nat
  BY DEF Message
<1>2. /\ PartEnd(m, off) \in Nat /\ PartEnd(m, off) > off
      /\ m.messageLen >= SizeofInt => PartEnd(m, off) <= m.messageLen
  BY <1>1 DEF PartEnd, SizeofInt
<1>3. PartEnd(m, off) - off \in Nat /\ PartEnd(m, off) - off > 0
      /\ off + (PartEnd(m, off) - off) = PartEnd(m, off)
  BY <1>2
<1> QED
  BY <1>2, <1>3 DEF Chunk, ChunkT

LEMMA AppendType ==
  ASSUME NEW s \in Stream, NEW x \in ChunkT PROVE Append(s, x) \in Stream
  BY DEF Stream, ChunkT

LEMMA HangupType ==
  ASSUME NEW s \in Stream, NEW u PROVE Hangup(s, u) \in Stream
  BY AppendType, ZeroType DEF Hangup

LEMMA ToSendType ==
  ASSUME TypeOK, NEW c \in Conn
  PROVE  ToSend(c) \in Message /\ aSent[c] \in Nat
<1>1. Junk \in Message
  <2>1. SizeofReply \in Nat /\ "EDB_SYS" \in ReplyCode
    BY DEF SizeofReply, ReplyCode
  <2> QED
    BY <2>1, ZeroType DEF Junk, Message
<1>2. aReply[c] \in [size : Nat, content : Message \cup {Uninitialised}] /\ aSent[c] \in Nat
  BY DEF TypeOK
<1> QED
  BY <1>1, <1>2 DEF ToSend

-----------------------------------------------------------------------------
(* Every step keeps the types.                                             *)

\* The shell closes its socket.
LEMMA CloseType ==
  ASSUME TypeOK, CloseSocket
  PROVE  toSrv' \in [Conn -> Stream] /\ toCli' \in [Conn -> Stream]
<1>1. \A c \in Conn : toSrv[c] \in Stream /\ toCli[c] \in Stream
  BY DEF TypeOK
<1>2. \A c \in Conn : Hangup(toSrv[c], toCli[c]) \in Stream
  BY <1>1, HangupType
<1> QED
  BY <1>1, <1>2, EndType DEF CloseSocket

LEMMA ExitType ==
  ASSUME TypeOK, ShellExit
  PROVE  /\ cPc' = "gone" /\ fd' = 0
         /\ toSrv' \in [Conn -> Stream] /\ toCli' \in [Conn -> Stream]
         /\ cEnd' \in [Conn -> {"none", "open", "reset", "closed"}]
<1>1. CloseSocket
  BY DEF ShellExit
<1> QED
  BY <1>1, CloseType DEF ShellExit, TypeOK

LEMMA ConnectTypes == TypeOK /\ ConnectCommand => TypeOK'
<1> SUFFICES ASSUME TypeOK, ConnectCommand PROVE TypeOK'
  OBVIOUS
<1>1. CloseSocket
  BY DEF ConnectCommand
<1>2. toSrv' \in [Conn -> Stream] /\ toCli' \in [Conn -> Stream]
  BY <1>1, CloseType
<1> QED
  BY <1>2 DEF TypeOK, ConnectCommand, agentVars

\* What a command does, given its message.
LEMMA ExecuteTypes ==
  ASSUME TypeOK, NEW opCode \in 0..8, NEW doc, NEW m \in Message, Execute(opCode, doc, m)
  PROVE  TypeOK'
<1>1. /\ req \in Nat /\ req + 1 \in Req /\ req + 1 \in 0..MaxReq /\ req' = req + 1
      /\ op' \in [Req -> 0..8]
  BY BoundAssumption DEF TypeOK, Execute, Req
<1>2. [m EXCEPT !.for = req + 1] \in Message
  BY <1>1 DEF Message
<1>3. {"INVALID_ARGUMENT", "SOCK_NOT_CONNECT", "INVALID_RECORD"} \subseteq Result
  BY DEF Result
<1>4. /\ cPc' \in {"prompt", "send", "len", "body", "reply", "gone"}
      /\ result' \in [Req -> Result] /\ sendBuf' \in Message /\ sent' \in Nat
  <2>1. sendBuf \in Message /\ sent \in Nat /\ result \in [Req -> Result]
    BY DEF TypeOK
  <2> QED
    BY <1>2, <1>3, <2>1 DEF Execute, Return, SendOrder
<1> QED
  BY <1>1, <1>4 DEF TypeOK, Execute, agentVars, wireVars

LEMMA CommandTypes == TypeOK /\ Command => TypeOK'
<1> SUFFICES ASSUME TypeOK, Command PROVE TypeOK'
  OBVIOUS
<1>1. /\ OP_INSERT \in 0..8 /\ OP_QUERY \in 0..8 /\ OP_DELETE \in 0..8
      /\ OP_SNAPSHOT \in 0..8 /\ OP_DISCONNECT \in 0..8
  BY DEF OP_INSERT, OP_QUERY, OP_DELETE, OP_SNAPSHOT, OP_DISCONNECT
<1>2. ASSUME NEW doc, InsertCommand(doc) PROVE TypeOK'
  <2>1. msgBuildInsert(SendBuffer, FALSE, Obj(doc)).buf.content \in Message
    BY ShellBuilds DEF Prepared
  <2> QED
    BY <1>1, <1>2, <2>1, ExecuteTypes DEF InsertCommand
<1>3. ASSUME NEW doc, QueryCommand(doc) PROVE TypeOK'
  <2>1. msgBuildQuery(SendBuffer, FALSE, Obj(doc)).buf.content \in Message
    BY ShellBuilds DEF Prepared
  <2> QED
    BY <1>1, <1>3, <2>1, ExecuteTypes DEF QueryCommand
<1>4. ASSUME NEW doc, DeleteCommand(doc) PROVE TypeOK'
  <2>1. msgBuildDelete(SendBuffer, FALSE, Obj(doc)).buf.content \in Message
    BY ShellBuilds DEF Prepared
  <2> QED
    BY <1>1, <1>4, <2>1, ExecuteTypes DEF DeleteCommand
<1>5. ASSUME SnapshotCommand PROVE TypeOK'
  BY <1>1, <1>5, ShellBuilds, ExecuteTypes DEF SnapshotCommand, Prepared
<1>6. ASSUME QuitCommand PROVE TypeOK'
  BY <1>1, <1>6, ShellBuilds, ExecuteTypes DEF QuitCommand, Prepared
<1> QED
  BY <1>2, <1>3, <1>4, <1>5, <1>6 DEF Command

LEMMA SendTypes ==
  ASSUME TypeOK, Ends, SendPart \/ SendFail \/ RecvReply
  PROVE  TypeOK'
<1>0. fd \in Conn /\ sendBuf \in Message /\ sendBuf.messageLen \in Nat /\ sent \in Nat
  BY DEF TypeOK, Ends, Busy, SendPart, SendFail, RecvReply, Message
<1>1. CASE SendPart
  <2>1. sent < sendBuf.messageLen
    BY <1>1 DEF SendPart
  <2>2. PartEnd(sendBuf, sent) \in Nat /\ Append(toSrv[fd], Chunk(sendBuf, sent)) \in Stream
    <3>1. Chunk(sendBuf, sent) \in ChunkT /\ PartEnd(sendBuf, sent) \in Nat
      BY <1>0, <2>1, PartType
    <3>2. toSrv[fd] \in Stream
      BY <1>0 DEF TypeOK
    <3> QED
      BY <3>1, <3>2, AppendType
  <2>3. toSrv' \in [Conn -> Stream] /\ cEnd' \in [Conn -> {"none", "open", "reset", "closed"}]
    BY <1>1, <2>2 DEF SendPart, TypeOK
  <2> QED
    BY <1>1, <2>2, <2>3 DEF SendPart, TypeOK, agentVars
<1>2. CASE SendFail
  <2>1. CASE ShellExit /\ UNCHANGED result
    BY <1>2, <2>1, ExitType DEF SendFail, TypeOK, agentVars
  <2>2. CASE Return(req, "SOCK_SEND_FAILED") /\ UNCHANGED <<fd, toSrv, toCli, cEnd>>
    BY <1>2, <2>2 DEF SendFail, TypeOK, agentVars, Return, Result
  <2> QED
    BY <1>2, <2>1, <2>2 DEF SendFail
<1>3. CASE RecvReply
  <2>0. recvBuf' \in Message /\ cNeed' \in Nat
    BY <1>3, ZeroType DEF RecvReply, SizeofInt
  <2>1. CASE ShellExit /\ UNCHANGED result
    BY <1>3, <2>0, <2>1, ExitType DEF RecvReply, TypeOK, agentVars
  <2>2. CASE cPc' = "len" /\ UNCHANGED <<result, fd, toSrv, toCli, cEnd>>
    BY <1>3, <2>0, <2>2 DEF RecvReply, TypeOK, agentVars
  <2>3. CASE Return(req, "SOCK_NOT_CONNECT") /\ UNCHANGED <<fd, toSrv, toCli, cEnd>>
    BY <1>3, <2>0, <2>3 DEF RecvReply, TypeOK, agentVars, Return, Result
  <2> QED
    BY <1>3, <2>1, <2>2, <2>3 DEF RecvReply
<1> QED
  BY <1>1, <1>2, <1>3

LEMMA RecvTypes ==
  ASSUME TypeOK, Ends, Requests, CliSide, Received,
         RecvTimeout \/ RecvPart \/ RecvEof \/ RecvError \/ RecvLength \/ RecvDone \/ HandleReply
  PROVE  TypeOK'
<1>0. ASSUME Busy PROVE fd \in Conn /\ toCli[fd] \in Stream
  BY <1>0 DEF TypeOK, Ends
<1>1. CASE RecvTimeout
  BY <1>1 DEF RecvTimeout, TypeOK, vars
<1>2. CASE RecvPart
  <2>0. Busy /\ cNeed \in Nat /\ cNeed > 0 /\ HasData(toCli[fd])
    BY <1>2 DEF RecvPart, Busy, TypeOK
  <2>1. fd \in Conn /\ toCli[fd] \in Stream /\ toCli[fd] # <<>> /\ Whole(toCli[fd])
    BY <2>0, <1>0 DEF Ends, CliSide, HasData
  <2>2. /\ AfterTake(toCli[fd], cNeed) \in Stream /\ Taken(toCli[fd], cNeed) \in Nat
        /\ Taken(toCli[fd], cNeed) <= cNeed
    BY <2>0, <2>1, WholeTake
  <2>3. toCli[fd][1].m \in Message
    BY <2>1, FirstType
  <2>4. cNeed - Taken(toCli[fd], cNeed) \in Nat
    BY <2>0, <2>2
  <2>5. /\ recvBuf' \in Message /\ cNeed' \in Nat /\ toCli' \in [Conn -> Stream]
    BY <1>2, <2>2, <2>3, <2>4 DEF RecvPart, TypeOK
  <2> QED
    BY <1>2, <2>5 DEF RecvPart, TypeOK, agentVars
<1>3. CASE RecvEof
  BY <1>3 DEF RecvEof, TypeOK, agentVars, wireVars, Return, Result
<1>4. CASE RecvError
  <2>1. toCli' \in [Conn -> Stream]
    BY <1>4, EndType DEF RecvError, TypeOK
  <2>2. CASE Return(req, "EDB_NETWORK") /\ UNCHANGED cNeed
    BY <1>4, <2>1, <2>2 DEF RecvError, TypeOK, agentVars, Return, Result
  <2>3. CASE /\ cPc' = IF recvBuf = Zero THEN "reply" ELSE "body"
             /\ cNeed' = IF recvBuf = Zero THEN 0 ELSE recvBuf.messageLen - SizeofInt
             /\ UNCHANGED result /\ cPc = "len"
    <3>1. cNeed' \in Nat
      BY <2>3 DEF Received, Answers, Reply, SizeofInt, SizeofReply, TypeOK
    <3> QED
      BY <1>4, <2>1, <2>3, <3>1 DEF RecvError, TypeOK, agentVars
  <2> QED
    BY <1>4, <2>2, <2>3 DEF RecvError
<1>5. CASE RecvLength
  <2>1. CASE Return(req, "RECV_DATA_LENGTH_ERROR") /\ UNCHANGED cNeed
    BY <1>5, <2>1 DEF RecvLength, TypeOK, agentVars, wireVars, Return, Result
  <2>2. CASE /\ cPc' = "body" /\ cNeed' = recvBuf.messageLen - SizeofInt /\ UNCHANGED result
    <3>1. cNeed' \in Nat
      BY <1>5, <2>2 DEF RecvLength, Received, Answers, Reply, SizeofInt, SizeofReply
    <3> QED
      BY <1>5, <2>2, <3>1 DEF RecvLength, TypeOK, agentVars, wireVars
  <2> QED
    BY <1>5, <2>1, <2>2 DEF RecvLength
<1>6. CASE RecvDone
  <2>1. req \in Req
    BY <1>6 DEF RecvDone, Requests, Busy, TypeOK, Req
  <2> QED
    BY <1>6, <2>1 DEF RecvDone, TypeOK, agentVars, wireVars
<1>7. CASE HandleReply
  <2>0. "exception" \in Result /\ recvBuf.returnCode \in Result
    BY DEF Result, TypeOK, Message
  <2>1. CASE ShellExit /\ result' = [result EXCEPT ![req] = "exception"]
    BY <1>7, <2>0, <2>1, ExitType DEF HandleReply, TypeOK, agentVars
  <2>2. CASE Return(req, recvBuf.returnCode) /\ UNCHANGED <<fd, toSrv, toCli, cEnd>>
    BY <1>7, <2>0, <2>2 DEF HandleReply, TypeOK, agentVars, Return
  <2> QED
    BY <1>7, <2>1, <2>2 DEF HandleReply
<1> QED
  BY <1>1, <1>2, <1>3, <1>4, <1>5, <1>6, <1>7

LEMMA InterruptTypes == TypeOK /\ Interrupt => TypeOK'
  BY ExitType DEF Interrupt, TypeOK, agentVars

\* ossRoundUpToMultipleX does not round down.
LEMMA RoundsUp ==
  ASSUME NEW x \in Nat PROVE RoundUp(x, AgentBuf) \in Nat /\ RoundUp(x, AgentBuf) >= x
<1>1. AgentBuf \in Nat /\ AgentBuf > 0
  BY BufAssumption
<1> DEFINE y == x + (AgentBuf - 1)
<1>2. y \in Nat /\ y % AgentBuf \in 0..(AgentBuf - 1)
  BY <1>1
<1> HIDE DEF y
<1>3. y - (y % AgentBuf) >= y - (AgentBuf - 1) /\ y - (y % AgentBuf) \in Int
  BY <1>1, <1>2
<1>4. y - (AgentBuf - 1) = x
  BY <1>1 DEF y
<1> QED
  BY <1>3, <1>4 DEF y, RoundUp

\* A message with another request number is a message, and the same but for that.
LEMMA Renumbered ==
  ASSUME NEW m \in Message, NEW r \in 0..MaxReq,
         NEW s, s = [m EXCEPT !.for = r]
  PROVE  /\ s \in Message
         /\ s.messageLen = m.messageLen /\ s.returnCode = m.returnCode
         /\ s.for = r
<1>1. s \in Message
  BY DEF Message
<1>2. s.messageLen = m.messageLen
  BY DEF Message
<1>3. s.returnCode = m.returnCode
  BY DEF Message
<1>4. s.for = r
  BY DEF Message
<1> QED
  BY <1>1, <1>2, <1>3, <1>4

\* The same of a buffer that holds the message: the reply of an agent is for a request.
Stamped(buf, r) == [buf EXCEPT !.content.for = r]
IsStamped(made, buf, r) ==
  /\ made \in [size : Nat, content : Message] /\ made.size = buf.size
  /\ made.content.messageLen = buf.content.messageLen
  /\ made.content.returnCode = buf.content.returnCode
  /\ made.content.for = r

LEMMA BufferRenumbered ==
  ASSUME NEW buf \in [size : Nat, content : Message], NEW r \in 0..MaxReq
  PROVE  IsStamped(Stamped(buf, r), buf, r)
<1> DEFINE made == Stamped(buf, r)
           s == [buf.content EXCEPT !.for = r]
<1>1. buf.size \in Nat /\ buf.content \in Message
  OBVIOUS
<1>2. /\ s \in Message
      /\ s.messageLen = buf.content.messageLen /\ s.returnCode = buf.content.returnCode
      /\ s.for = r
  BY <1>1, Renumbered
<1>3. made = [size |-> buf.size, content |-> s]
  BY DEF Stamped
<1> HIDE DEF s, made
<1>4. made.size = buf.size /\ made.content = s
  BY <1>3
<1>5. made \in [size : Nat, content : Message]
  BY <1>1, <1>2, <1>3
<1>6. IsStamped(made, buf, r)
  BY <1>2, <1>4, <1>5 DEF IsStamped
<1> QED
  BY <1>6 DEF made

\* The reply an agent builds, with the number of the request it is for.
WorkMade(c, small, p, b, made) ==
  /\ small \in [size : Nat, content : Message \cup {Uninitialised}]
  /\ b.rc = EDB_OK => /\ made \in [size : Nat, content : Message]
                      /\ made.content.messageLen <= made.size
                      /\ made.content.messageLen \in SizeofReply..RECV_BUF_SIZE
                      /\ made.content.returnCode = p.rc
                      /\ made.content.for = aBuf[c].for
  /\ b.rc # EDB_OK => b.buf = small

LEMMA WorkReply ==
  ASSUME TypeOK, NEW c \in Conn, NEW oom \in BOOLEAN, NEW ins \in RtnInsert
  PROVE  LET small == IF aReply[c].size > SizeofReply THEN Fresh ELSE aReply[c]
             p == Process(aBuf[c], ins)
             b == msgBuildReply(small, oom, p.rc, p.objs)
         IN WorkMade(c, small, p, b, Stamped(b.buf, aBuf[c].for))
<1> DEFINE small == IF aReply[c].size > SizeofReply THEN Fresh ELSE aReply[c]
           p == Process(aBuf[c], ins)
           b == msgBuildReply(small, oom, p.rc, p.objs)
           made == Stamped(b.buf, aBuf[c].for)
<1>1. small \in [size : Nat, content : Message \cup {Uninitialised}]
  <2>1. Fresh \in [size : Nat, content : Message \cup {Uninitialised}]
    BY DEF Fresh, SizeofReply
  <2> QED
    BY <2>1 DEF TypeOK
<1>2. aBuf[c] \in Message /\ aBuf[c].for \in 0..MaxReq
  BY DEF TypeOK, Message
<1> HIDE DEF small, p
<1>3. p.rc \in ReplyCode /\ Objs(p.objs) /\ ObjSizes(p.objs) \in 0..101
  BY <1>2, ProcessResult DEF p
<1>4. ReplyMade(b, small, p.rc)
  BY <1>1, <1>3, ReplyBuilt
<1> HIDE DEF b
<1>5. b.rc = EDB_OK => b.buf \in [size : Nat, content : Message]
  BY <1>4 DEF ReplyMade
<1>6. b.rc = EDB_OK => IsStamped(made, b.buf, aBuf[c].for)
  BY <1>2, <1>5, BufferRenumbered
<1> HIDE DEF made
<1>7. WorkMade(c, small, p, b, made)
  BY <1>1, <1>4, <1>6 DEF WorkMade, ReplyMade, IsStamped
<1> QED
  BY <1>7 DEF made, b, p, small

LEMMA AgentTypes ==
  ASSUME TypeOK, NEW c \in Conn, SrvSide(c),
         Accept(c) \/ Reject(c) \/ AgentStep(c) \/ ForceAgent(c) \/ NetBreak(c)
  PROVE  TypeOK'
<1>1. CASE Accept(c)
  BY <1>1 DEF Accept, AWant, AGoto, TypeOK, shellVars, SizeofInt
<1>2. ASSUME Hang(c) PROVE TypeOK'
  <2>1. Hangup(toCli[c], toSrv[c]) \in Stream
    BY HangupType DEF TypeOK
  <2>2. /\ toSrv' \in [Conn -> Stream] /\ toCli' \in [Conn -> Stream]
        /\ cEnd' \in [Conn -> {"none", "open", "reset", "closed"}]
        /\ sEnd' \in [Conn -> {"none", "backlog", "open", "closed"}]
    BY <1>2, <2>1, EndType DEF Hang, TypeOK
  <2>3. /\ aBuf' \in [Conn -> Message] /\ aSize' \in [Conn -> Nat]
        /\ aReply' \in [Conn -> [size : Nat, content : Message \cup {Uninitialised}]]
    BY <1>2, ZeroType DEF Hang, TypeOK, Fresh, SizeofReply
  <2> QED
    BY <1>2, <2>2, <2>3 DEF Hang, AGoto, TypeOK, shellVars
<1>3. CASE ForceAgent(c)
  BY <1>3 DEF ForceAgent, TypeOK, shellVars, wireVars
<1>4. CASE NetBreak(c)
  BY <1>4, EndType DEF NetBreak, TypeOK, shellVars, agentVars
<1>5. CASE AgentPoll(c)
  BY <1>5 DEF AgentPoll, AGoto, TypeOK, shellVars, wireVars
<1>6. CASE AgentTimeout(c)
  BY <1>6 DEF AgentTimeout, AGoto, TypeOK, shellVars, wireVars
<1>7. CASE AgentPart(c)
  <2>0. /\ aNeed[c] \in Nat /\ aNeed[c] > 0 /\ HasData(toSrv[c]) /\ toSrv[c] \in Stream
        /\ toSrv[c] # <<>> /\ Whole(toSrv[c])
    BY <1>7 DEF AgentPart, SrvSide, Reading, HasData, TypeOK
  <2>1. /\ AfterTake(toSrv[c], aNeed[c]) \in Stream /\ Taken(toSrv[c], aNeed[c]) \in Nat
        /\ Taken(toSrv[c], aNeed[c]) <= aNeed[c]
    BY <2>0, WholeTake
  <2>2. toSrv[c][1].m \in Message
    BY <2>0, FirstType
  <2>3. aNeed[c] - Taken(toSrv[c], aNeed[c]) \in Nat
    BY <2>0, <2>1
  <2>4. aBuf' \in [Conn -> Message] /\ aNeed' \in [Conn -> Nat] /\ toSrv' \in [Conn -> Stream]
    BY <1>7, <2>1, <2>2, <2>3 DEF AgentPart, TypeOK
  <2> QED
    BY <1>7, <2>4 DEF AgentPart, TypeOK, shellVars
<1>8. CASE AgentEnd(c)
  BY <1>8 DEF AgentEnd, AGoto, TypeOK, shellVars, wireVars
<1>9. CASE AgentLength(c)
  <2>1. aBuf[c].messageLen \in Nat
    BY DEF TypeOK, Message
  <2>2. RoundUp(aBuf[c].messageLen + 1, AgentBuf) \in Nat
    BY <2>1, RoundsUp
  <2>3. /\ aNeed' \in [Conn -> Nat] /\ aSize' \in [Conn -> Nat]
        /\ aPc' \in [Conn -> {"off", "lenPoll", "len", "bodyPoll", "body", "sendPoll", "send", "close", "done"}]
    <3>1. CASE AGoto(c, "close") /\ UNCHANGED <<aNeed, aSize>>
      BY <3>1 DEF AGoto, TypeOK
    <3>2. CASE /\ ~(aBuf[c].messageLen < SizeofInt)
               /\ aSize' = [aSize EXCEPT ![c] = IF @ < aBuf[c].messageLen + 1
                                                THEN RoundUp(aBuf[c].messageLen + 1, AgentBuf) ELSE @]
               /\ AWant(c, "bodyPoll", aBuf[c].messageLen - SizeofInt)
      <4>1. aBuf[c].messageLen - SizeofInt \in Nat
        BY <2>1, <3>2 DEF SizeofInt
      <4> QED
        BY <2>2, <3>2, <4>1 DEF AWant, AGoto, TypeOK
    <3> QED
      BY <1>9, <3>1, <3>2 DEF AgentLength
  <2> QED
    BY <1>9, <2>3 DEF AgentLength, TypeOK, shellVars, wireVars
<1>10. CASE AgentWork(c)
  <2>1. PICK oom \in BOOLEAN, ins \in RtnInsert :
          LET small == IF aReply[c].size > SizeofReply THEN Fresh ELSE aReply[c]
              p == Process(aBuf[c], ins)
              b == msgBuildReply(small, oom, p.rc, p.objs)
          IN /\ aReply' = [aReply EXCEPT ![c] = IF p.disconnect THEN small
                                                ELSE IF b.rc # EDB_OK THEN b.buf
                                                ELSE [b.buf EXCEPT !.content.for = aBuf[c].for]]
             /\ unbuilt' = IF ~p.disconnect /\ b.rc # EDB_OK THEN unbuilt \cup {c} ELSE unbuilt
             /\ execs' = [execs EXCEPT ![aBuf[c].for] = @ + 1]
             /\ stored' = IF p.insert /\ ins = EDB_OK THEN stored \cup {aBuf[c].for} ELSE stored
             /\ AGoto(c, IF p.disconnect THEN "close" ELSE "sendPoll")
    BY <1>10 DEF AgentWork
  <2>2. aReply' \in [Conn -> [size : Nat, content : Message \cup {Uninitialised}]]
    <3> DEFINE small == IF aReply[c].size > SizeofReply THEN Fresh ELSE aReply[c]
               p == Process(aBuf[c], ins)
               b == msgBuildReply(small, oom, p.rc, p.objs)
               made == [b.buf EXCEPT !.content.for = aBuf[c].for]
    <3>1. /\ small \in [size : Nat, content : Message \cup {Uninitialised}]
          /\ b.rc = EDB_OK => made \in [size : Nat, content : Message]
          /\ b.rc # EDB_OK => b.buf = small
      <4>1. WorkMade(c, small, p, b, made)
        BY WorkReply, Zenon DEF Stamped
      <4> HIDE DEF small, p, b, made
      <4> QED
        BY <4>1 DEF WorkMade
    <3>2. aReply' = [aReply EXCEPT ![c] = IF p.disconnect THEN small
                                          ELSE IF b.rc # EDB_OK THEN b.buf ELSE made]
      BY <2>1
    <3> HIDE DEF small, p, b, made
    <3> QED
      BY <3>1, <3>2 DEF TypeOK
  <2>3. Reading(c) /\ aBuf[c].messageLen \in Nat /\ 0 \in 0..(aBuf[c].messageLen - SizeofInt)
    <3>1. aPc[c] = "body" /\ aNeed[c] = 0
      BY <1>10 DEF AgentWork
    <3>2. Reading(c)
      BY <3>1 DEF Reading
    <3>3. aBuf[c].messageLen \in Nat
      BY DEF TypeOK, Message
    <3> QED
      BY <3>1, <3>2, <3>3 DEF SrvSide
  <2>4. aBuf[c].for \in Req
    <3>1. APos(c) = aBuf[c].messageLen - 0
      BY <1>10 DEF AgentWork, APos
    <3>2. APos(c) > 0
      BY <2>3, <3>1 DEF SizeofInt
    <3>3. aBuf[c].for \in 1..req
      BY <2>3, <3>2 DEF SrvSide, Request
    <3> QED
      BY <3>3, BoundAssumption DEF TypeOK, Req
  <2>5. execs' \in [Req -> Nat] /\ stored' \subseteq Req /\ unbuilt' \subseteq Conn
    <3>1. execs' = [execs EXCEPT ![aBuf[c].for] = @ + 1]
      BY <2>1
    <3>2. stored' = stored \cup {aBuf[c].for} \/ stored' = stored
      BY <2>1
    <3>3. unbuilt' = unbuilt \cup {c} \/ unbuilt' = unbuilt
      BY <2>1
    <3> QED
      BY <2>4, <3>1, <3>2, <3>3 DEF TypeOK
  <2>6. aPc' \in [Conn -> {"off", "lenPoll", "len", "bodyPoll", "body", "sendPoll", "send", "close", "done"}]
    BY <2>1 DEF TypeOK, AGoto
  <2>7. aSent' \in [Conn -> Nat]
    BY <1>10 DEF TypeOK, AgentWork
  <2> QED
    BY <1>10, <2>2, <2>5, <2>6, <2>7 DEF AgentWork, TypeOK, shellVars, wireVars
<1>11. CASE AgentNoBuffer(c)
  BY <1>11 DEF AgentNoBuffer, AGoto, TypeOK, shellVars, wireVars
<1>12. CASE AgentSendPart(c)
  <2>1. ToSend(c) \in Message /\ aSent[c] \in Nat /\ aSent[c] < ToSend(c).messageLen
    BY <1>12, ToSendType DEF AgentSendPart
  <2>2. PartEnd(ToSend(c), aSent[c]) \in Nat /\ Chunk(ToSend(c), aSent[c]) \in ChunkT
    BY <2>1, PartType
  <2>3. Append(toCli[c], Chunk(ToSend(c), aSent[c])) \in Stream
    BY <2>2, AppendType DEF TypeOK
  <2>4. toCli' \in [Conn -> Stream] /\ aSent' \in [Conn -> Nat]
    BY <1>12, <2>2, <2>3 DEF AgentSendPart, TypeOK
  <2> QED
    BY <1>12, <2>4 DEF AgentSendPart, TypeOK, shellVars
<1>13. CASE AgentSendFail(c)
  BY <1>13 DEF AgentSendFail, AGoto, TypeOK, shellVars, wireVars
<1>14. CASE AgentSent(c)
  BY <1>14 DEF AgentSent, AWant, AGoto, TypeOK, shellVars, wireVars, SizeofInt
<1>15. CASE Reject(c) \/ AgentClose(c)
  BY <1>2, <1>15 DEF Reject, AgentClose
<1> QED
  BY <1>1, <1>3, <1>4, <1>5, <1>6, <1>7, <1>8, <1>9, <1>10, <1>11, <1>12, <1>13, <1>14, <1>15
     DEF AgentStep

-----------------------------------------------------------------------------
(* What a step leaves alone.                                               *)

LEMMA Elements ==
  ASSUME TypeOK, NEW c \in Conn
  PROVE  /\ aNeed[c] \in Nat /\ aBuf[c] \in Message /\ aBuf[c].messageLen \in Nat
         /\ toSrv[c] \in Stream /\ toCli[c] \in Stream /\ aSent[c] \in Nat
         /\ req \in Nat /\ MaxReq \in Nat /\ req <= MaxReq
  BY BoundAssumption DEF TypeOK, Message

\* The request on its way to an agent is one the shell has made.
LEMMA CarryIsRequest ==
  ASSUME TypeOK, NEW c \in Conn, SrvSide(c), NEW n \in Carry(c)
  PROVE  n \in 1..req /\ n \in Req /\ Reading(c)
<1>1. n \in 1..req /\ Reading(c)
  BY DEF SrvSide, Carry, Request
<1> QED
  BY <1>1, BoundAssumption DEF TypeOK, Req

\* The requests made so far, and what is stored, are kept.
Kept == req <= req' /\ (\A n \in 1..req : op'[n] = op[n]) /\ stored \subseteq stored'

\* The step leaves the stream to the agent of c, and the agent's reading, alone.
SrvSame(c) == /\ toSrv'[c] = toSrv[c] /\ aPc'[c] = aPc[c] /\ aNeed'[c] = aNeed[c]
              /\ aBuf'[c] = aBuf[c] /\ aSize'[c] = aSize[c]

LEMMA SrvFrame ==
  ASSUME TypeOK, TypeOK', Kept, NEW c \in Conn, SrvSide(c), SrvSame(c)
  PROVE  /\ SrvSide(c)' /\ Carry(c)' = Carry(c) /\ APos(c)' = APos(c)
         /\ Reading(c)' <=> Reading(c)
         /\ HasData(toSrv[c])' <=> HasData(toSrv[c])
<1>1. APos(c)' = APos(c) /\ (Reading(c)' <=> Reading(c))
  BY DEF APos, Reading, SrvSame
<1>2. HasData(toSrv[c])' <=> HasData(toSrv[c])
  BY DEF SrvSame, HasData
<1>3. Carry(c)' = Carry(c)
  BY <1>1, <1>2 DEF SrvSame, Carry
<1>4. ASSUME Request(aBuf[c]) PROVE Request(aBuf[c])'
  BY <1>4 DEF Request, SrvSame, Kept, TypeOK
<1>5. ASSUME Request(toSrv[c][1].m) PROVE Request(toSrv[c][1].m)'
  BY <1>5 DEF Request, SrvSame, Kept, TypeOK
<1>6. Whole(toSrv[c]) => Whole(toSrv[c])'
  BY DEF SrvSame, Whole
<1>7. SrvSide(c)'
  BY <1>1, <1>2, <1>4, <1>5, <1>6 DEF SrvSide, SrvSame
<1> QED
  BY <1>1, <1>2, <1>3, <1>7

\* A message that was a reply stays one.
LEMMA ReplyKept ==
  ASSUME TypeOK, TypeOK', Kept, NEW m, Reply(m)
  PROVE  /\ m \in Message /\ m.messageLen \in SizeofReply..RECV_BUF_SIZE
         /\ m.for \in 0..req' /\ m.returnCode \notin FailCodes
         /\ m.for # 0 /\ m.returnCode = EDB_OK /\ op'[m.for] = OP_INSERT => m.for \in stored'
<1>1. req \in Nat /\ req' \in Nat
  BY DEF TypeOK
<1> QED
  BY <1>1 DEF Reply, Kept

InRange(n) == n \in Nat /\ n >= 16 /\ n <= 4096

\* A length the shell's buffer holds.
LEMMA LengthInRange ==
  ASSUME NEW n \in SizeofReply..RECV_BUF_SIZE
  PROVE  InRange(n) /\ n # 0
  BY DEF SizeofReply, RECV_BUF_SIZE, InRange

LEMMA ReplyLength ==
  ASSUME NEW m, Reply(m)
  PROVE  /\ m.messageLen \in Nat /\ m.messageLen >= 16 /\ m.messageLen <= 4096 /\ m # Zero
         /\ m.for \in 0..req
<1>1. m.messageLen \in SizeofReply..RECV_BUF_SIZE /\ m.for \in 0..req
  BY DEF Reply
<1>3. InRange(m.messageLen) /\ m.messageLen # 0
  BY <1>1, LengthInRange, Zenon
<1>4. m # Zero
  <2>1. Zero.messageLen = 0
    BY DEF Zero
  <2> QED
    BY <1>3, <2>1, Zenon
<1> QED
  BY <1>1, <1>3, <1>4 DEF InRange

LEMMA RepliesFrame ==
  ASSUME TypeOK, TypeOK', Kept, Replies, UNCHANGED <<aReply, unbuilt>>,
         \A c \in Conn : aPc'[c] \in {"sendPoll", "send"} =>
                           aPc[c] \in {"sendPoll", "send"} /\ aBuf'[c] = aBuf[c]
  PROVE  Replies'
<1> SUFFICES ASSUME NEW c \in Conn
             PROVE  /\ aReply'[c].content # Uninitialised =>
                         Reply(aReply[c].content)' /\ aReply'[c].content.messageLen <= aReply'[c].size
                    /\ c \notin unbuilt' /\ aPc'[c] \in {"sendPoll", "send"} =>
                         aReply'[c].content # Uninitialised /\ aReply'[c].content.for = aBuf'[c].for
  BY DEF Replies
<1>1. aReply'[c].content # Uninitialised =>
        Reply(aReply[c].content)' /\ aReply'[c].content.messageLen <= aReply'[c].size
  <2> SUFFICES ASSUME aReply[c].content # Uninitialised
               PROVE  Reply(aReply[c].content)' /\ aReply[c].content.messageLen <= aReply[c].size
    OBVIOUS
  <2>1. Reply(aReply[c].content) /\ aReply[c].content.messageLen <= aReply[c].size
    BY DEF Replies
  <2> QED
    BY <2>1, ReplyKept DEF Reply
<1>2. c \notin unbuilt' /\ aPc'[c] \in {"sendPoll", "send"} =>
        aReply'[c].content # Uninitialised /\ aReply'[c].content.for = aBuf'[c].for
  BY DEF Replies
<1> QED
  BY <1>1, <1>2

LEMMA DataFirst ==
  ASSUME NEW s \in Stream, AllData(s), s # <<>>
  PROVE  HasData(s)
<1>1. Len(s) \in Nat /\ Len(s) # 0
  BY EmptySeq DEF Stream
<1>2. \A h \in Nat : h # 0 => 1 \in 1..h
  OBVIOUS
<1> QED
  BY <1>1, <1>2 DEF AllData, HasData

LEMMA FirstInside ==
  ASSUME NEW s \in Stream, Whole(s), HasData(s)
  PROVE  s[1].n > 0 /\ s[1].off + s[1].n <= s[1].m.messageLen
<1>1. Len(s) \in Nat /\ Len(s) # 0
  BY EmptySeq DEF Stream, HasData
<1>2. \A h \in Nat : h # 0 => 1 \in 1..h
  OBVIOUS
<1> QED
  BY <1>1, <1>2 DEF Whole, HasData

\* The stream of an open connection carries no FIN or RST while the agent is there.
LEMMA OpenStreams ==
  ASSUME TypeOK, Ends, fd # 0, cEnd[fd] = "open"
  PROVE  /\ fd \in Conn
         /\ toSrv[fd] # <<>> => HasData(toSrv[fd])
         /\ Reading(fd) => sEnd[fd] # "closed"
         /\ sEnd[fd] # "closed" /\ toCli[fd] # <<>> => HasData(toCli[fd])
<1>1. fd \in Conn /\ toSrv[fd] \in Stream /\ toCli[fd] \in Stream
  BY DEF TypeOK
<1>2. /\ AllData(toSrv[fd]) /\ (sEnd[fd] # "closed" => AllData(toCli[fd]))
      /\ Reading(fd) => sEnd[fd] # "closed"
  BY <1>1 DEF Ends, Reading
<1> QED
  BY <1>1, <1>2, DataFirst

\* A step of the shell that leaves both ends of the connection, the stream to the
\* agent and the agents alone, and begins no request.
ShellOnly ==
  /\ UNCHANGED <<agentVars, toSrv, sEnd, cEnd, fd, req, op>>
  /\ cPc' # "gone" /\ (Busy' => Busy)
  /\ \A c \in Conn : c # fd => toCli'[c] = toCli[c]
  /\ fd # 0 /\ cEnd[fd] = "open" /\ sEnd[fd] # "closed" => AllData(toCli'[fd])

LEMMA ShellFrame ==
  ASSUME TypeOK, TypeOK', IInv, ShellOnly
  PROVE  /\ Ends' /\ (\A c \in Conn : SrvSide(c)') /\ CarriedOnce' /\ Replies'
         /\ \A c \in Conn : /\ Carry(c)' = Carry(c) /\ APos(c)' = APos(c)
                            /\ (Reading(c)' <=> Reading(c)) /\ (Replying(c)' <=> Replying(c))
<1>1. Kept /\ \A c \in Conn : SrvSame(c)
  BY DEF Kept, SrvSame, ShellOnly, agentVars, TypeOK
<1>2. \A c \in Conn : /\ SrvSide(c)' /\ Carry(c)' = Carry(c) /\ APos(c)' = APos(c)
                      /\ (Reading(c)' <=> Reading(c))
  BY <1>1, SrvFrame DEF IInv
<1>3. \A c \in Conn : Replying(c)' <=> Replying(c)
  BY DEF Replying, ToSend, ShellOnly, agentVars
<1>4. Replies'
  BY <1>1, RepliesFrame DEF IInv, ShellOnly, agentVars
<1>5. CarriedOnce'
  BY <1>2 DEF CarriedOnce, IInv, ShellOnly, agentVars
<1>6. Ends'
  <2>1. Ends
    BY DEF IInv
  <2>2. Busy' => fd' # 0
    BY <2>1 DEF Ends, ShellOnly
  <2>3. ASSUME NEW c \in Conn
        PROVE  /\ cEnd'[c] \in {"open", "reset"} <=> c = fd'
               /\ cEnd'[c] = "none" <=> sEnd'[c] = "none"
               /\ sEnd'[c] \in {"none", "backlog"} <=> aPc'[c] = "off"
               /\ sEnd'[c] = "closed" <=> aPc'[c] = "done"
               /\ c # fd' => toCli'[c] = <<>>
               /\ sEnd'[c] \in {"none", "closed"} => toSrv'[c] = <<>>
               /\ cEnd'[c] = "open" => AllData(toSrv'[c])
               /\ cEnd'[c] = "reset" => ~HasData(toSrv'[c])
    BY <2>1, <2>3 DEF Ends, ShellOnly, agentVars
  <2>4. ASSUME NEW c \in Conn, cEnd'[c] = "open", sEnd'[c] # "closed"
        PROVE  AllData(toCli'[c])
    <3>1. CASE c = fd
      BY <2>1, <2>4, <3>1 DEF Ends, ShellOnly, TypeOK, Conn
    <3>2. CASE c # fd
      BY <2>1, <2>4, <3>2 DEF Ends, ShellOnly
    <3> QED
      BY <3>1, <3>2
  <2> QED
    BY <2>2, <2>3, <2>4 DEF Ends, ShellOnly
<1> QED
  BY <1>2, <1>3, <1>4, <1>5, <1>6

\* Nothing new is doomed.
LEMMA DoomedFrame ==
  ASSUME TypeOK, DoomedIsIncomplete, UNCHANGED <<execs, toSrv, cEnd, aBuf>>,
         \A c \in Conn : Carry(c)' = Carry(c) /\ APos(c)' = APos(c),
         \A n \in Req : Doomed(n)' => Doomed(n)
  PROVE  DoomedIsIncomplete'
  BY DEF DoomedIsIncomplete, HasData

-----------------------------------------------------------------------------
(* The steps of the shell keep the invariant.                              *)

\* Before anything was sent, nothing is on its way and no reply is.
LEMMA NothingSent ==
  ASSUME TypeOK, IInv, cPc = "send", sent = 0 \/ (sent < sendBuf.messageLen /\ cEnd[fd] = "reset")
  PROVE  /\ fd \in Conn /\ Sending /\ Busy /\ execs[req] = 0
         /\ cEnd[fd] = "open" /\ Reading(fd) =>
              /\ toSrv[fd] = <<>> /\ APos(fd) = 0 /\ Carry(fd) = {}
              /\ toCli[fd] = <<>> /\ ~Replying(fd)
<1>1. Busy /\ fd \in Conn
  BY DEF Busy, IInv, Ends, TypeOK
<1>2. Sending /\ execs[req] = 0
  <2>1. sendBuf.messageLen \in Nat /\ sendBuf.messageLen >= SizeofHeader
    BY <1>1 DEF IInv, Requests, Request, Message
  <2>2. Sending
    BY <2>1 DEF Sending, SizeofHeader
  <2> QED
    BY <2>2 DEF IInv, Requests
<1>3. ASSUME cEnd[fd] = "open", Reading(fd)
      PROVE  /\ toSrv[fd] = <<>> /\ APos(fd) = 0 /\ Carry(fd) = {}
             /\ toCli[fd] = <<>> /\ ~Replying(fd)
  <2>1. /\ EndAt(toSrv[fd], APos(fd)) = 0 /\ toCli[fd] = <<>> /\ ~Replying(fd)
    BY <1>1, <1>2, <1>3 DEF IInv, Turn, Sending, TypeOK, Conn
  <2>2. toSrv[fd] = <<>>
    <3> SUFFICES ASSUME toSrv[fd] # <<>> PROVE FALSE
      OBVIOUS
    <3>1. toSrv[fd] \in Stream /\ Whole(toSrv[fd]) /\ AllData(toSrv[fd])
      BY <1>1, <1>3 DEF IInv, SrvSide, Ends, TypeOK
    <3>2. /\ EndAt(toSrv[fd], 0) \in Nat /\ toSrv[fd][1].off + toSrv[fd][1].n <= EndAt(toSrv[fd], 0)
          /\ toSrv[fd][1].n > 0 /\ toSrv[fd][1].off \in Nat /\ toSrv[fd][1].n \in Nat
      BY <3>1, EndIsBehind, FirstType
    <3>3. EndAt(toSrv[fd], 0) = EndAt(toSrv[fd], APos(fd))
      BY DEF EndAt
    <3> QED
      BY <2>1, <3>2, <3>3
  <2>3. APos(fd) = 0
    BY <2>1, <2>2 DEF EndAt
  <2> QED
    BY <2>1, <2>2, <2>3 DEF Carry, HasData
<1> QED
  BY <1>1, <1>2, <1>3

LEMMA SendFailKeeps ==
  ASSUME TypeOK, TypeOK', IInv, SendFail, sendBuf.opCode # OP_DISCONNECT
  PROVE  IInv'
<1>0. /\ cPc = "send"
      /\ sent = 0 \/ (sent < sendBuf.messageLen /\ cEnd[fd] = "reset")
      /\ cPc' = "prompt" /\ result' = [result EXCEPT ![req] = "SOCK_SEND_FAILED"]
      /\ UNCHANGED <<fd, toSrv, toCli, cEnd, req, op, sendBuf, sent, recvBuf, cNeed, answered, sEnd, agentVars>>
  BY DEF SendFail, Return
<1>1. ShellOnly /\ ~Busy'
  BY <1>0 DEF ShellOnly, Busy, IInv, Ends, TypeOK
<1>2. /\ Ends' /\ (\A c \in Conn : SrvSide(c)') /\ CarriedOnce' /\ Replies'
      /\ \A c \in Conn : /\ Carry(c)' = Carry(c) /\ APos(c)' = APos(c)
                         /\ (Reading(c)' <=> Reading(c)) /\ (Replying(c)' <=> Replying(c))
  BY <1>1, ShellFrame
<1>3. /\ fd \in Conn /\ Sending /\ Busy /\ execs[req] = 0
      /\ cEnd[fd] = "open" /\ Reading(fd) =>
           /\ toSrv[fd] = <<>> /\ APos(fd) = 0 /\ Carry(fd) = {}
           /\ toCli[fd] = <<>> /\ ~Replying(fd)
  BY <1>0, NothingSent
<1>4. req \in Req /\ req \in Nat /\ req > 0
  BY <1>3 DEF IInv, Requests, TypeOK, Req
<1>5. Requests'
  BY <1>0, <1>1, <1>4 DEF IInv, Requests, Sending, TypeOK, Req, agentVars
<1>6. DoomedIsIncomplete'
  <2> SUFFICES ASSUME NEW n \in Req, Doomed(n)'
               PROVE  /\ execs[n] = 0
                      /\ \A c \in Conn : n \in Carry(c) =>
                           ~HasData(toSrv[c]) /\ cEnd[c] # "open" /\ APos(c) < aBuf[c].messageLen
    BY <1>0, <1>2 DEF DoomedIsIncomplete, HasData, agentVars
  <2>1. CASE Doomed(n)
    BY <2>1 DEF IInv, DoomedIsIncomplete
  <2>2. CASE ~Doomed(n)
    <3>1. n = req
      BY <1>0, <2>2 DEF Doomed, Sending, TypeOK
    <3>2. cEnd[fd] = "open"
      BY <1>3, <2>2, <3>1 DEF Doomed, IInv, Ends
    <3>3. ASSUME NEW c \in Conn, n \in Carry(c) PROVE FALSE
      <4>1. CASE c = fd
        BY <1>3, <3>2, <3>3, <4>1 DEF Carry
      <4>2. CASE c # fd
        BY <1>3, <3>1, <3>3, <4>2 DEF IInv, CarriedOnce
      <4> QED
        BY <4>1, <4>2
    <3> QED
      BY <1>3, <3>1, <3>3
  <2> QED
    BY <2>1, <2>2
<1>7. Turn' /\ ReplyInStep'
  <2>1. ~Sending' /\ ~Awaiting'
    BY <1>0 DEF Sending, Awaiting
  <2>2. cEnd'[fd'] = "open" /\ Replying(fd)' => Reading(fd)
    BY <1>0 DEF Replying, Reading, agentVars
  <2> QED
    BY <1>0, <1>2, <1>3, <2>1, <2>2 DEF Turn, ReplyInStep
<1>8. CliSide'
  <2>1. ~HasData(toCli[fd]) /\ Whole(toCli[fd])
    BY <1>3 DEF IInv, CliSide, Awaiting, Sending, TypeOK, Conn
  <2> QED
    BY <1>0, <2>1 DEF CliSide, Whole, HasData
<1>9. Received'
  BY <1>0 DEF Received
<1>10. AckIsTrue'
  BY <1>0, <1>4 DEF IInv, AckIsTrue, agentVars, EDB_OK, TypeOK
<1> QED
  BY <1>2, <1>5, <1>6, <1>7, <1>8, <1>9, <1>10 DEF IInv

\* A step that leaves the shell's request as it is, and gives it no failure.
LEMMA RecvFrame ==
  ASSUME TypeOK, TypeOK', IInv, ShellOnly, UNCHANGED <<sendBuf, sent>>, Busy,
         cPc \in {"len", "body", "reply"} \/ (cPc = "send" /\ sent = sendBuf.messageLen),
         cPc' \in {"len", "body", "reply", "prompt"},
         cPc' \in {"len", "body"} => cPc # "reply" /\ answered' = answered,
         \/ UNCHANGED result
         \/ cPc' = "prompt" /\ \E rc : rc \notin FailCodes /\ result' = [result EXCEPT ![req] = rc],
         answered' = answered \/ answered' = answered \cup {req}
  PROVE  /\ Ends' /\ (\A c \in Conn : SrvSide(c)') /\ CarriedOnce' /\ Replies'
         /\ \A c \in Conn : /\ Carry(c)' = Carry(c) /\ APos(c)' = APos(c)
                            /\ (Reading(c)' <=> Reading(c)) /\ (Replying(c)' <=> Replying(c))
         /\ Requests' /\ DoomedIsIncomplete' /\ fd \in Conn /\ req \in Req /\ req \in Nat
         /\ ~Sending /\ ~Sending'
<1>1. /\ Ends' /\ (\A c \in Conn : SrvSide(c)') /\ CarriedOnce' /\ Replies'
      /\ \A c \in Conn : /\ Carry(c)' = Carry(c) /\ APos(c)' = APos(c)
                         /\ (Reading(c)' <=> Reading(c)) /\ (Replying(c)' <=> Replying(c))
  BY ShellFrame
<1>2. fd \in Conn /\ req \in Req /\ req \in Nat /\ req > 0 /\ req' = req
  BY DEF IInv, Requests, TypeOK, Req, Ends, ShellOnly
<1>3. ~Sending /\ ~Sending'
  <2>1. sent \in Nat /\ sendBuf.messageLen \in Nat
    BY DEF TypeOK, Message
  <2> QED
    BY <2>1 DEF Sending
<1>4. Requests'
  <2>1. \A n \in Req : execs'[n] <= 1
    BY DEF IInv, Requests, ShellOnly, agentVars
  <2>2. ASSUME NEW n \in Req, n > req' PROVE execs'[n] = 0 /\ result'[n] = "none" /\ n \notin answered'
    BY <1>2, <2>2 DEF IInv, Requests, ShellOnly, agentVars, TypeOK
  <2>3. ASSUME Busy' PROVE /\ req' > 0 /\ result'[req'] = "none"
                           /\ Request(sendBuf)' /\ sendBuf'.for = req' /\ sent' <= sendBuf'.messageLen
    BY <1>2, <2>3 DEF IInv, Requests, ShellOnly, Busy, Request
  <2>4. cPc' \in {"len", "body"} => sent' = sendBuf'.messageLen /\ req' \notin answered'
    BY <1>2 DEF IInv, Requests
  <2>5. cPc' # "send"
    OBVIOUS
  <2> QED
    BY <1>3, <2>1, <2>2, <2>3, <2>4, <2>5 DEF Requests
<1>5. DoomedIsIncomplete'
  <2>1. ASSUME NEW n \in Req, Doomed(n)' PROVE Doomed(n)
    BY <1>2, <1>3, <2>1 DEF Doomed, TypeOK
  <2>2. UNCHANGED <<execs, toSrv, cEnd, aBuf>>
    BY DEF ShellOnly, agentVars
  <2> QED
    BY <1>1, <2>1, <2>2, DoomedFrame DEF IInv
<1> QED
  BY <1>1, <1>2, <1>3, <1>4, <1>5

\* While the shell waits and its connection is up, what ends the wait is data.
LEMMA EndMeansClosed ==
  ASSUME TypeOK, Ends, fd \in Conn, toCli[fd] # <<>>, ~HasData(toCli[fd])
  PROVE  ~(cEnd[fd] = "open" /\ sEnd[fd] # "closed") /\ ~(cEnd[fd] = "open" /\ Reading(fd))
  BY OpenStreams DEF Conn

LEMMA RecvReplyKeeps ==
  ASSUME TypeOK, TypeOK', IInv, RecvReply, sendBuf.opCode # OP_DISCONNECT
  PROVE  IInv'
<1>0. /\ cPc = "send" /\ sent = sendBuf.messageLen /\ recvBuf' = Zero /\ cNeed' = SizeofInt /\ Busy
      /\ UNCHANGED <<fd, toSrv, toCli, cEnd, req, op, sendBuf, sent, answered, sEnd, agentVars>>
      /\ \/ cEnd[fd] = "open" /\ cPc' = "len" /\ UNCHANGED result
         \/ /\ ~IsConnected /\ cPc' = "prompt"
            /\ result' = [result EXCEPT ![req] = "SOCK_NOT_CONNECT"]
  BY DEF RecvReply, Return, IsConnected, Busy
<1>1. ShellOnly /\ "SOCK_NOT_CONNECT" \notin FailCodes
  BY <1>0 DEF ShellOnly, IInv, Ends, TypeOK, FailCodes
<1>2. /\ Ends' /\ (\A c \in Conn : SrvSide(c)') /\ CarriedOnce' /\ Replies'
      /\ \A c \in Conn : /\ Carry(c)' = Carry(c) /\ APos(c)' = APos(c)
                         /\ (Reading(c)' <=> Reading(c)) /\ (Replying(c)' <=> Replying(c))
      /\ Requests' /\ DoomedIsIncomplete' /\ fd \in Conn /\ req \in Req /\ req \in Nat
      /\ ~Sending /\ ~Sending'
  BY <1>0, <1>1, RecvFrame
<1>3. CPos = 0 /\ CPos' = 0 /\ Awaiting
  BY <1>0 DEF CPos, SizeofInt, Awaiting
<1>4. CASE cEnd[fd] = "open" /\ cPc' = "len" /\ UNCHANGED result
  <2>1. Awaiting'
    BY <1>4 DEF Awaiting
  <2>2. ToSend(fd)' = ToSend(fd)
    BY <1>0 DEF ToSend, agentVars
  <2>3. Turn'
    BY <1>0, <1>2, <1>3, <2>1 DEF IInv, Turn, EndAt, agentVars
  <2>4. ReplyInStep'
    BY <1>0, <1>2, <1>3, <2>2 DEF IInv, ReplyInStep, EndAt, agentVars
  <2>5. CliSide'
    <3>1. ASSUME NEW m, Answers(m)
          PROVE  Reply(m) /\ execs'[req'] # 0 /\ (fd' \notin unbuilt' => m.for = req')
      BY <1>0, <3>1 DEF Answers, agentVars
    <3> QED
      BY <1>0, <1>2, <1>3, <2>1, <3>1 DEF IInv, CliSide, Whole, HasData, Answers, Reply, agentVars
  <2>6. Received'
    BY <1>0, <1>4 DEF Received, SizeofInt
  <2>7. AckIsTrue'
    BY <1>0, <1>4 DEF IInv, AckIsTrue, agentVars
  <2> QED
    BY <1>2, <2>3, <2>4, <2>5, <2>6, <2>7 DEF IInv
<1>5. CASE /\ ~IsConnected /\ cPc' = "prompt"
           /\ result' = [result EXCEPT ![req] = "SOCK_NOT_CONNECT"]
  <2>1. cEnd[fd] # "open"
    BY <1>2, <1>5 DEF IsConnected, Conn
  <2>2. Turn' /\ ReplyInStep'
    BY <1>0, <2>1 DEF Turn, ReplyInStep
  <2>3. CliSide'
    <3>1. ~HasData(toCli[fd]) /\ Whole(toCli[fd])
      BY <1>2, <2>1 DEF IInv, CliSide, Conn
    <3> QED
      BY <1>0, <3>1 DEF CliSide, HasData, Whole
  <2>4. Received'
    BY <1>5 DEF Received
  <2>5. AckIsTrue'
    BY <1>0, <1>2, <1>5 DEF IInv, AckIsTrue, agentVars, EDB_OK, TypeOK
  <2> QED
    BY <1>2, <2>2, <2>3, <2>4, <2>5 DEF IInv
<1> QED
  BY <1>0, <1>4, <1>5

LEMMA RecvEofKeeps ==
  ASSUME TypeOK, TypeOK', IInv, RecvEof
  PROVE  IInv'
<1>0. /\ cPc \in {"len", "body"} /\ cPc' = "prompt" /\ toCli[fd] # <<>> /\ toCli[fd][1] = FIN /\ Busy
      /\ result' = [result EXCEPT ![req] = "SOCK_REMOTE_CLOSED"]
      /\ UNCHANGED <<fd, toSrv, toCli, cEnd, req, op, sendBuf, sent, recvBuf, cNeed, answered, sEnd, agentVars>>
  BY DEF RecvEof, Return, Busy, wireVars
<1>1. ShellOnly /\ "SOCK_REMOTE_CLOSED" \notin FailCodes
  BY <1>0 DEF ShellOnly, IInv, Ends, TypeOK, FailCodes
<1>2. /\ Ends' /\ (\A c \in Conn : SrvSide(c)') /\ CarriedOnce' /\ Replies'
      /\ \A c \in Conn : /\ Carry(c)' = Carry(c) /\ APos(c)' = APos(c)
                         /\ (Reading(c)' <=> Reading(c)) /\ (Replying(c)' <=> Replying(c))
      /\ Requests' /\ DoomedIsIncomplete' /\ fd \in Conn /\ req \in Req /\ req \in Nat
      /\ ~Sending /\ ~Sending'
  BY <1>0, <1>1, RecvFrame
<1>3. ~HasData(toCli[fd]) /\ ~(cEnd[fd] = "open" /\ Reading(fd))
  <2>1. ~HasData(toCli[fd])
    BY <1>0 DEF HasData, FIN
  <2> QED
    BY <1>0, <1>2, <2>1, EndMeansClosed DEF IInv
<1>4. Replying(fd) => Reading(fd)
  BY DEF Replying, Reading
<1>5. Turn' /\ ReplyInStep'
  BY <1>0, <1>2, <1>3, <1>4 DEF Turn, ReplyInStep
<1>6. CliSide'
  <2>1. Whole(toCli[fd])
    BY <1>2 DEF IInv, CliSide, Conn
  <2> QED
    BY <1>0, <1>3, <2>1 DEF CliSide, HasData, Whole
<1>7. Received'
  BY <1>0 DEF Received
<1>8. AckIsTrue'
  BY <1>0, <1>2 DEF IInv, AckIsTrue, agentVars, EDB_OK, TypeOK
<1> QED
  BY <1>2, <1>5, <1>6, <1>7, <1>8 DEF IInv

LEMMA RecvErrorKeeps ==
  ASSUME TypeOK, TypeOK', IInv, RecvError
  PROVE  IInv'
<1>0. /\ cPc \in {"len", "body"} /\ toCli[fd] # <<>> /\ toCli[fd][1] = RST /\ Busy
      /\ toCli' = [toCli EXCEPT ![fd] = <<FIN>>]
      /\ UNCHANGED <<fd, toSrv, cEnd, req, op, sendBuf, sent, recvBuf, answered, sEnd, agentVars>>
      /\ \/ /\ cPc' = "prompt" /\ result' = [result EXCEPT ![req] = "EDB_NETWORK"]
         \/ /\ cPc = "len" /\ cPc' = IF recvBuf = Zero THEN "reply" ELSE "body"
            /\ cNeed' = IF recvBuf = Zero THEN 0 ELSE recvBuf.messageLen - SizeofInt
            /\ UNCHANGED result
  BY DEF RecvError, Return, Busy
<1>01. fd \in Conn /\ ~HasData(toCli[fd]) /\ "EDB_NETWORK" \notin FailCodes
  BY <1>0 DEF HasData, RST, IInv, Ends, TypeOK, FailCodes
<1>02. ~(cEnd[fd] = "open" /\ sEnd[fd] # "closed") /\ ~(cEnd[fd] = "open" /\ Reading(fd))
  BY <1>0, <1>01, EndMeansClosed DEF IInv
<1>1. ShellOnly
  BY <1>0, <1>02 DEF ShellOnly, TypeOK, Busy
<1>2. /\ Ends' /\ (\A c \in Conn : SrvSide(c)') /\ CarriedOnce' /\ Replies'
      /\ \A c \in Conn : /\ Carry(c)' = Carry(c) /\ APos(c)' = APos(c)
                         /\ (Reading(c)' <=> Reading(c)) /\ (Replying(c)' <=> Replying(c))
      /\ Requests' /\ DoomedIsIncomplete' /\ fd \in Conn /\ req \in Req /\ req \in Nat
      /\ ~Sending /\ ~Sending'
  BY <1>0, <1>01, <1>1, RecvFrame
<1>4. Replying(fd) => Reading(fd)
  BY DEF Replying, Reading
<1>5. Turn' /\ ReplyInStep'
  BY <1>0, <1>2, <1>02, <1>4 DEF Turn, ReplyInStep
<1>6. CliSide'
  <2>1. toCli'[fd] = <<FIN>>
    BY <1>0, <1>2 DEF TypeOK
  <2>2. Whole(<<FIN>>) /\ ~HasData(<<FIN>>)
    BY DEF Whole, HasData, FIN
  <2> QED
    BY <1>0, <2>1, <2>2 DEF CliSide
<1>7. Received'
  <2>1. CASE cPc' = "prompt"
    BY <2>1 DEF Received
  <2>2. CASE cPc = "len" /\ recvBuf = Zero /\ cPc' = "reply"
    BY <1>0, <2>2 DEF IInv, Received, Requests
  <2>3. CASE cPc = "len" /\ recvBuf # Zero /\ cPc' = "body" /\ cNeed' = recvBuf.messageLen - SizeofInt
    <3>1. Answers(recvBuf) /\ Reply(recvBuf)
      BY <2>3 DEF IInv, Received, Answers, SizeofInt
    <3>2. recvBuf.messageLen - SizeofInt \in 0..(recvBuf.messageLen - SizeofInt)
      BY <3>1, ReplyLength DEF SizeofInt
    <3> QED
      BY <1>0, <2>3, <3>1, <3>2 DEF Received, Answers, Reply, agentVars
  <2> QED
    BY <1>0, <2>1, <2>2, <2>3
<1>8. AckIsTrue'
  BY <1>0, <1>2 DEF IInv, AckIsTrue, agentVars, EDB_OK, TypeOK
<1> QED
  BY <1>2, <1>5, <1>6, <1>7, <1>8 DEF IInv

LEMMA RecvLengthKeeps ==
  ASSUME TypeOK, TypeOK', IInv, RecvLength
  PROVE  IInv'
<1>0. /\ cPc = "len" /\ cNeed = 0 /\ Busy
      /\ UNCHANGED <<fd, toSrv, toCli, cEnd, req, op, sendBuf, sent, recvBuf, answered, sEnd, agentVars>>
  BY DEF RecvLength, Busy, wireVars
<1>01. Answers(recvBuf) /\ Reply(recvBuf)
  BY <1>0 DEF IInv, Received, Answers, SizeofInt
<1>02. recvBuf.messageLen \in Nat /\ recvBuf.messageLen >= 16 /\ recvBuf.messageLen <= 4096
  BY <1>01, ReplyLength
<1>03. cPc' = "body" /\ cNeed' = recvBuf.messageLen - SizeofInt /\ UNCHANGED result
  BY <1>02 DEF RecvLength, RECV_BUF_SIZE
<1>1. ShellOnly
  BY <1>0, <1>03 DEF ShellOnly, IInv, Ends, Busy, TypeOK
<1>2. /\ Ends' /\ (\A c \in Conn : SrvSide(c)') /\ CarriedOnce' /\ Replies'
      /\ \A c \in Conn : /\ Carry(c)' = Carry(c) /\ APos(c)' = APos(c)
                         /\ (Reading(c)' <=> Reading(c)) /\ (Replying(c)' <=> Replying(c))
      /\ Requests' /\ DoomedIsIncomplete' /\ fd \in Conn /\ req \in Req /\ req \in Nat
      /\ ~Sending /\ ~Sending'
  BY <1>0, <1>03, <1>1, RecvFrame
<1>3. CPos = 4 /\ CPos' = 4 /\ Awaiting /\ Awaiting'
  BY <1>0, <1>02, <1>03 DEF CPos, SizeofInt, Awaiting
<1>4. ToSend(fd)' = ToSend(fd)
  BY <1>0 DEF ToSend, agentVars
<1>5. Turn'
  BY <1>0, <1>2, <1>3 DEF IInv, Turn, EndAt, agentVars
<1>6. ReplyInStep'
  BY <1>0, <1>2, <1>3, <1>4 DEF IInv, ReplyInStep, EndAt, agentVars
<1>7. CliSide'
  BY <1>0, <1>2, <1>3 DEF IInv, CliSide, Whole, HasData, Answers, Reply, agentVars
<1>8. Received'
  <2>1. cNeed' \in 0..(recvBuf'.messageLen - SizeofInt)
    BY <1>0, <1>02, <1>03 DEF SizeofInt
  <2> QED
    BY <1>0, <1>01, <1>03, <2>1 DEF Received, Answers, Reply, agentVars
<1>9. AckIsTrue'
  BY <1>0, <1>03 DEF IInv, AckIsTrue, agentVars
<1> QED
  BY <1>2, <1>5, <1>6, <1>7, <1>8, <1>9 DEF IInv

LEMMA RecvDoneKeeps ==
  ASSUME TypeOK, TypeOK', IInv, RecvDone
  PROVE  IInv'
<1>0. /\ cPc = "body" /\ cNeed = 0 /\ Busy /\ cPc' = "reply" /\ answered' = answered \cup {req}
      /\ UNCHANGED <<fd, toSrv, toCli, cEnd, req, op, sendBuf, sent, recvBuf, cNeed, result, sEnd, agentVars>>
  BY DEF RecvDone, Busy, wireVars
<1>01. Answers(recvBuf) /\ Reply(recvBuf)
  BY <1>0 DEF IInv, Received, Answers
<1>02. recvBuf.messageLen \in Nat /\ recvBuf.messageLen >= 16 /\ recvBuf # Zero
  BY <1>01, ReplyLength
<1>1. ShellOnly
  BY <1>0 DEF ShellOnly, IInv, Ends, Busy, TypeOK
<1>2. /\ Ends' /\ (\A c \in Conn : SrvSide(c)') /\ CarriedOnce' /\ Replies'
      /\ \A c \in Conn : /\ Carry(c)' = Carry(c) /\ APos(c)' = APos(c)
                         /\ (Reading(c)' <=> Reading(c)) /\ (Replying(c)' <=> Replying(c))
      /\ Requests' /\ DoomedIsIncomplete' /\ fd \in Conn /\ req \in Req /\ req \in Nat
      /\ ~Sending /\ ~Sending'
  BY <1>0, <1>1, RecvFrame
<1>3. CPos = recvBuf.messageLen /\ ~Awaiting'
  BY <1>0, <1>02 DEF CPos, Awaiting
<1>4. ~HasData(toCli[fd]) /\ Whole(toCli[fd])
  <2>1. Whole(toCli[fd]) /\ (HasData(toCli[fd]) => toCli[fd][1].off = CPos /\ toCli[fd][1].m = recvBuf)
    BY <1>2, <1>3, <1>02 DEF IInv, CliSide, Conn
  <2>2. ASSUME HasData(toCli[fd]) PROVE FALSE
    <3>1. toCli[fd] \in Stream /\ toCli[fd] # <<>>
      BY <1>2, <2>2 DEF TypeOK, HasData
    <3>2. toCli[fd][1].off \in Nat /\ toCli[fd][1].n \in Nat
      BY <3>1, FirstType
    <3>3. toCli[fd][1].n > 0 /\ toCli[fd][1].off + toCli[fd][1].n <= toCli[fd][1].m.messageLen
      BY <2>1, <2>2, <3>1, FirstInside
    <3> QED
      BY <1>3, <1>02, <2>1, <2>2, <3>2, <3>3
  <2> QED
    BY <2>1, <2>2
<1>5. ASSUME cEnd[fd] = "open", Reading(fd)
      PROVE  toSrv[fd] = <<>> /\ APos(fd) = 0 /\ toCli[fd] = <<>> /\ ~Replying(fd)
  <2>1. toSrv[fd] = <<>> /\ APos(fd) = 0
    BY <1>0, <1>01, <1>2, <1>5 DEF IInv, Turn, Answers, Conn
  <2>2. toCli[fd] = <<>>
    BY <1>2, <1>4, <1>5, OpenStreams DEF IInv, Conn
  <2>3. ~Replying(fd)
    <3> SUFFICES ASSUME Replying(fd) PROVE FALSE
      OBVIOUS
    <3>1. EndAt(toCli[fd], CPos) = aSent[fd] /\ recvBuf = ToSend(fd)
      BY <1>02, <1>2, <1>3, <1>5 DEF IInv, ReplyInStep, Conn
    <3>2. aSent[fd] = recvBuf.messageLen /\ aSent[fd] < recvBuf.messageLen
      BY <1>3, <2>2, <3>1 DEF EndAt, Replying
    <3> QED
      BY <1>02, <3>2
  <2> QED
    BY <2>1, <2>2, <2>3
<1>6. Turn' /\ ReplyInStep'
  <2>1. Replying(fd) => Reading(fd)
    BY DEF Replying, Reading
  <2> QED
    BY <1>0, <1>2, <1>3, <1>5, <2>1 DEF Turn, ReplyInStep, EndAt
<1>7. CliSide'
  BY <1>0, <1>4 DEF CliSide
<1>8. Received'
  BY <1>0, <1>01, <1>02 DEF Received, Answers, Reply, agentVars
<1>9. AckIsTrue'
  <2>1. result[req] = "none"
    BY <1>0 DEF IInv, Requests
  <2> QED
    BY <1>0, <2>1 DEF IInv, AckIsTrue, agentVars, EDB_OK
<1> QED
  BY <1>2, <1>6, <1>7, <1>8, <1>9 DEF IInv

LEMMA HandleReplyKeeps ==
  ASSUME TypeOK, TypeOK', IInv, HandleReply,
         ~(sendBuf.opCode = OP_SNAPSHOT /\ recvBuf.returnCode = EDB_OK /\ recvBuf.data = <<>>)
  PROVE  IInv'
<1>0. /\ cPc = "reply" /\ Busy /\ cPc' = "prompt"
      /\ result' = [result EXCEPT ![req] = recvBuf.returnCode]
      /\ UNCHANGED <<fd, toSrv, toCli, cEnd, req, op, sendBuf, sent, recvBuf, cNeed, answered, sEnd, agentVars>>
  BY DEF HandleReply, Busy, Return
<1>01. recvBuf.returnCode \notin FailCodes
  <2>1. recvBuf.returnCode \in ReplyCode
    BY DEF TypeOK, Message
  <2> QED
    BY <2>1 DEF ReplyCode, FailCodes, EDB_OK, EDB_INVALIDARG
<1>1. ShellOnly
  BY <1>0 DEF ShellOnly, IInv, Ends, Busy, TypeOK
<1>2. /\ Ends' /\ (\A c \in Conn : SrvSide(c)') /\ CarriedOnce' /\ Replies'
      /\ \A c \in Conn : /\ Carry(c)' = Carry(c) /\ APos(c)' = APos(c)
                         /\ (Reading(c)' <=> Reading(c)) /\ (Replying(c)' <=> Replying(c))
      /\ Requests' /\ DoomedIsIncomplete' /\ fd \in Conn /\ req \in Req /\ req \in Nat
      /\ ~Sending /\ ~Sending'
  BY <1>0, <1>01, <1>1, RecvFrame
<1>3. CPos = 0 /\ CPos' = 0 /\ ~Awaiting /\ ~Awaiting'
  BY <1>0 DEF CPos, Awaiting
<1>4. ToSend(fd)' = ToSend(fd)
  BY <1>0 DEF ToSend, agentVars
<1>5. Turn'
  BY <1>0, <1>2, <1>3 DEF IInv, Turn, agentVars
<1>6. ReplyInStep'
  BY <1>0, <1>2, <1>3, <1>4 DEF IInv, ReplyInStep, EndAt, agentVars
<1>7. CliSide'
  <2>1. ~HasData(toCli[fd]) /\ Whole(toCli[fd])
    BY <1>2, <1>3 DEF IInv, CliSide, Conn
  <2> QED
    BY <1>0, <2>1 DEF CliSide
<1>8. Received'
  BY <1>0 DEF Received
<1>9. AckIsTrue'
  <2> SUFFICES ASSUME NEW n \in answered, op[n] = OP_INSERT, result'[n] = EDB_OK, unbuilt = {}
               PROVE  n \in stored
    BY <1>0 DEF AckIsTrue, agentVars
  <2>1. CASE n = req
    <3>1. recvBuf.returnCode = EDB_OK
      BY <1>0, <1>2, <2>1 DEF TypeOK
    <3>2. Answers(recvBuf)
      BY <1>0, <2>1 DEF IInv, Received
    <3>3. recvBuf.for = req /\ Reply(recvBuf)
      BY <3>2 DEF Answers
    <3> QED
      BY <1>2, <2>1, <3>1, <3>3 DEF Reply, Req
  <2>2. CASE n # req
    BY <1>0, <2>2 DEF IInv, AckIsTrue, TypeOK
  <2> QED
    BY <2>1, <2>2
<1> QED
  BY <1>2, <1>5, <1>6, <1>7, <1>8, <1>9 DEF IInv

LEMMA RecvPartKeeps ==
  ASSUME TypeOK, TypeOK', IInv, RecvPart
  PROVE  IInv'
<1> DEFINE s == toCli[fd]
           t == AfterTake(toCli[fd], cNeed)
           k == Taken(toCli[fd], cNeed)
<1>0. /\ cPc \in {"len", "body"} /\ Busy /\ cPc' = cPc /\ cNeed > 0 /\ HasData(s)
      /\ recvBuf' = s[1].m /\ cNeed' = cNeed - k /\ toCli' = [toCli EXCEPT ![fd] = t]
      /\ UNCHANGED <<fd, toSrv, cEnd, req, op, sendBuf, sent, result, answered, sEnd, agentVars>>
  BY DEF RecvPart, Busy
<1>01. fd \in Conn /\ s \in Stream /\ s # <<>> /\ cNeed \in Nat
  BY <1>0 DEF IInv, Ends, TypeOK, HasData
<1>02. /\ Whole(s) /\ cEnd[fd] = "open" /\ toSrv[fd] = <<>> /\ s[1].off = CPos
       /\ Answers(s[1].m) /\ (CPos > 0 => s[1].m = recvBuf)
  BY <1>0, <1>01 DEF IInv, CliSide, Conn
<1>03. /\ t \in Stream /\ Whole(t) /\ k \in Nat /\ k > 0 /\ k <= cNeed /\ k <= s[1].n
       /\ HasData(t) => t[1].off = s[1].off + k /\ t[1].m = s[1].m
       /\ AllData(s) => AllData(t) /\ EndAt(t, s[1].off + k) = EndAt(s, 0)
  BY <1>0, <1>01, <1>02, WholeTake
<1>04. toCli'[fd] = t
  BY <1>0, <1>01 DEF TypeOK
<1> HIDE DEF t, k
<1>1. ShellOnly
  <2>1. cEnd[fd] = "open" /\ sEnd[fd] # "closed" => AllData(s)
    BY <1>01 DEF IInv, Ends
  <2> QED
    BY <1>0, <1>01, <1>03, <1>04, <2>1 DEF ShellOnly, IInv, Busy, TypeOK
<1>2. /\ Ends' /\ (\A c \in Conn : SrvSide(c)') /\ CarriedOnce' /\ Replies'
      /\ \A c \in Conn : /\ Carry(c)' = Carry(c) /\ APos(c)' = APos(c)
                         /\ (Reading(c)' <=> Reading(c)) /\ (Replying(c)' <=> Replying(c))
      /\ Requests' /\ DoomedIsIncomplete' /\ fd \in Conn /\ req \in Req /\ req \in Nat
      /\ ~Sending /\ ~Sending'
  BY <1>0, <1>1, RecvFrame
<1>3. CPos \in Nat /\ CPos' = CPos + k
  <2>1. CASE cPc = "len"
    <3>1. CPos = 4 - cNeed /\ CPos' = 4 - (cNeed - k) /\ cNeed \in 0..4
      BY <1>0, <2>1 DEF CPos, SizeofInt, IInv, Received
    <3> QED
      BY <1>01, <1>03, <3>1
  <2>2. CASE cPc = "body"
    <3>1. cNeed \in 0..(recvBuf.messageLen - 4) /\ Reply(recvBuf)
      BY <2>2 DEF IInv, Received, Answers, SizeofInt
    <3>2. recvBuf.messageLen \in Nat
      BY <3>1, ReplyLength
    <3>3. CPos = recvBuf.messageLen - cNeed /\ CPos > 0 /\ CPos \in Nat
      BY <1>01, <2>2, <3>1, <3>2 DEF CPos
    <3>4. CPos' = recvBuf.messageLen - (cNeed - k)
      BY <1>0, <1>02, <2>2, <3>3 DEF CPos
    <3> QED
      BY <1>01, <1>03, <3>2, <3>3, <3>4
  <2> QED
    BY <1>0, <2>1, <2>2
<1>4. Awaiting /\ Awaiting' /\ execs[req] # 0
  BY <1>0, <1>02 DEF Awaiting, Answers
<1>5. Turn'
  BY <1>0, <1>2, <1>4 DEF IInv, Turn, agentVars
<1>6. ReplyInStep'
  <2> SUFFICES ASSUME Replying(fd), cEnd[fd] = "open"
               PROVE  /\ aBuf[fd].for = req /\ EndAt(t, CPos') = aSent[fd]
                      /\ t # <<>> => t[1].m = ToSend(fd)
                      /\ recvBuf' = ToSend(fd)
    BY <1>0, <1>04, <1>2 DEF ReplyInStep, ToSend, agentVars
  <2>1. aBuf[fd].for = req /\ EndAt(s, CPos) = aSent[fd] /\ s[1].m = ToSend(fd)
    BY <1>01 DEF IInv, ReplyInStep, Conn
  <2>2. AllData(s)
    <3>1. Reading(fd)
      BY DEF Replying, Reading
    <3> QED
      BY <1>01, <3>1 DEF IInv, Ends, Reading
  <2>3. EndAt(t, CPos + k) = aSent[fd]
    BY <1>01, <1>02, <1>03, <2>1, <2>2 DEF EndAt
  <2>4. t # <<>> => HasData(t)
    BY <1>03, <2>2, DataFirst
  <2> QED
    BY <1>0, <1>03, <1>3, <2>1, <2>3, <2>4
<1>7. CliSide'
  <2>1. Answers(s[1].m) => Answers(recvBuf)'
    BY <1>0 DEF Answers, Reply, agentVars
  <2>2. HasData(t) => Answers(toCli[fd][1].m)'
    <3>1. HasData(t) => toCli'[fd'][1].m = s[1].m
      BY <1>0, <1>03, <1>04
    <3> QED
      BY <1>0, <1>02, <3>1 DEF Answers, Reply, agentVars
  <2> QED
    BY <1>0, <1>02, <1>03, <1>04, <1>3, <1>4, <2>2 DEF CliSide
<1>8. Received'
  <2>1. Answers(recvBuf)'
    BY <1>0, <1>02 DEF Answers, Reply, agentVars
  <2>2. CASE cPc = "len"
    <3>1. cNeed \in 0..4
      BY <2>2 DEF IInv, Received, SizeofInt
    <3>2. cNeed - k \in 0..4 /\ cNeed - k < 4
      BY <1>01, <1>03, <3>1
    <3> QED
      BY <1>0, <2>1, <2>2, <3>2 DEF Received, SizeofInt
  <2>3. CASE cPc = "body"
    <3>1. cNeed \in 0..(recvBuf.messageLen - 4) /\ Reply(recvBuf)
      BY <2>3 DEF IInv, Received, Answers, SizeofInt
    <3>2. recvBuf.messageLen \in Nat
      BY <3>1, ReplyLength
    <3>3. CPos = recvBuf.messageLen - cNeed
      BY <2>3 DEF CPos
    <3>4. recvBuf' = recvBuf
      BY <1>0, <1>01, <1>02, <3>1, <3>2, <3>3
    <3>5. cNeed - k \in 0..(recvBuf.messageLen - 4)
      BY <1>01, <1>03, <3>1, <3>2
    <3> QED
      BY <1>0, <2>1, <2>3, <3>4, <3>5 DEF Received, SizeofInt
  <2> QED
    BY <1>0, <2>2, <2>3
<1>9. AckIsTrue'
  BY <1>0 DEF IInv, AckIsTrue, agentVars
<1> QED
  BY <1>2, <1>5, <1>6, <1>7, <1>8, <1>9 DEF IInv

LEMMA ExecuteKeeps ==
  ASSUME TypeOK, TypeOK', IInv, NEW opCode \in 0..8, NEW doc, NEW m, Prepared(m, opCode),
         Execute(opCode, doc, m)
  PROVE  IInv'
<1>0. /\ cPc = "prompt" /\ req < MaxReq /\ req' = req + 1 /\ op' = [op EXCEPT ![req + 1] = opCode]
      /\ UNCHANGED <<fd, recvBuf, cNeed, answered, toSrv, toCli, cEnd, sEnd, agentVars>>
  BY DEF Execute, wireVars
<1>1. \/ /\ cPc' = "send" /\ sendBuf' = [m EXCEPT !.for = req + 1] /\ sent' = 0
         /\ UNCHANGED result /\ IsConnected
      \/ /\ cPc' = "prompt"
         /\ \E rc \in {"INVALID_ARGUMENT", "SOCK_NOT_CONNECT", "INVALID_RECORD"} :
              result' = [result EXCEPT ![req + 1] = rc]
  BY DEF Execute, Return, SendOrder
<1>2. req \in Nat /\ req + 1 \in Req /\ req + 1 \notin 1..req
  BY <1>0, BoundAssumption DEF TypeOK, Req
<1>3. op'[req + 1] = opCode /\ \A n \in Req : n # req + 1 => op'[n] = op[n] /\ result'[n] = result[n]
  BY <1>0, <1>1, <1>2 DEF TypeOK
<1>4. Kept /\ \A c \in Conn : SrvSame(c)
  <2>1. 1..req \subseteq Req
    BY <1>2, BoundAssumption DEF TypeOK, Req
  <2>2. \A n \in 1..req : op'[n] = op[n]
    BY <1>2, <1>3, <2>1
  <2> QED
    BY <1>0, <1>2, <2>2 DEF Kept, SrvSame, agentVars
<1>5. \A c \in Conn : /\ SrvSide(c)' /\ Carry(c)' = Carry(c) /\ APos(c)' = APos(c)
                      /\ (Reading(c)' <=> Reading(c))
  BY <1>4, SrvFrame DEF IInv
<1>6. \A c \in Conn : Replying(c)' <=> Replying(c)
  BY <1>0 DEF Replying, ToSend, agentVars
<1>7. \A c \in Conn : req + 1 \notin Carry(c)
  BY <1>2, CarryIsRequest DEF IInv
<1>8. ~Busy /\ ~Sending /\ ~Awaiting
  BY <1>0 DEF Busy, Sending, Awaiting
<1>9. ASSUME Busy' PROVE /\ cPc' = "send" /\ fd \in Conn /\ sent' = 0 /\ cEnd[fd] = "open"
                         /\ sendBuf' = [m EXCEPT !.for = req + 1] /\ UNCHANGED result
  BY <1>1, <1>9 DEF Busy, IsConnected, TypeOK
<1>10. Ends'
  BY <1>0, <1>1, <1>9 DEF IInv, Ends, agentVars, Conn
<1>11. CarriedOnce'
  BY <1>0, <1>5, <1>7 DEF IInv, CarriedOnce, agentVars, Busy
<1>12. Replies'
  BY <1>0, <1>4, RepliesFrame DEF IInv, agentVars
<1>13. Requests'
  <2>1. \A n \in Req : execs'[n] <= 1
    BY <1>0 DEF IInv, Requests, agentVars
  <2>2. ASSUME NEW n \in Req, n > req' PROVE execs'[n] = 0 /\ result'[n] = "none" /\ n \notin answered'
    <3>1. n > req /\ n # req + 1
      BY <1>0, <1>2, <2>2 DEF Req
    <3> QED
      BY <1>0, <1>3, <3>1 DEF IInv, Requests, agentVars
  <2>3. ASSUME Busy'
        PROVE  /\ req' > 0 /\ result'[req'] = "none" /\ Request(sendBuf)' /\ sendBuf'.for = req'
               /\ sent' <= sendBuf'.messageLen /\ req' \notin answered' /\ execs'[req'] = 0
    <3>1. req' > 0 /\ req' > req /\ req' \in Req
      BY <1>0, <1>2
    <3>2. result'[req'] = "none" /\ req' \notin answered' /\ execs'[req'] = 0
      BY <1>0, <1>9, <2>3, <3>1 DEF IInv, Requests, agentVars
    <3>3. /\ sendBuf'.for = req' /\ sendBuf'.messageLen = m.messageLen /\ sendBuf'.opCode = opCode
          /\ sendBuf' \in Message
      <4>1. m \in Message /\ m.opCode = opCode
        BY DEF Prepared
      <4>2. sendBuf' \in Message /\ sendBuf' = [m EXCEPT !.for = req + 1]
        BY <1>9, <2>3 DEF TypeOK
      <4>3. sendBuf'.for = req + 1 /\ sendBuf'.messageLen = m.messageLen
        BY <4>1, <4>2 DEF Message
      <4>4. sendBuf'.opCode = m.opCode
        BY <4>1, <4>2 DEF Message
      <4> QED
        BY <1>0, <4>1, <4>2, <4>3, <4>4
    <3>4. m.messageLen \in Nat /\ m.messageLen >= SizeofHeader
      BY DEF Prepared, Message
    <3>5. sent' <= sendBuf'.messageLen
      BY <1>9, <2>3, <3>3, <3>4
    <3>6. Request(sendBuf)'
      BY <1>0, <1>2, <1>3, <3>3, <3>4 DEF Request
    <3> QED
      BY <3>1, <3>2, <3>3, <3>5, <3>6
  <2>4. cPc' \notin {"len", "body"} /\ (Sending' => Busy') /\ (cPc' = "send" => Busy')
    BY <1>1 DEF Sending, Busy
  <2> QED
    BY <2>1, <2>2, <2>3, <2>4 DEF Requests
<1>14. DoomedIsIncomplete'
  <2> SUFFICES ASSUME NEW n \in Req, Doomed(n)'
               PROVE  /\ execs[n] = 0
                      /\ \A c \in Conn : n \in Carry(c) =>
                           ~HasData(toSrv[c]) /\ cEnd[c] # "open" /\ APos(c) < aBuf[c].messageLen
    BY <1>0, <1>5 DEF DoomedIsIncomplete, HasData, agentVars
  <2>1. CASE n = req + 1
    <3>1. req + 1 > req
      BY <1>2
    <3> QED
      BY <1>7, <2>1, <3>1 DEF IInv, Requests
  <2>2. CASE n # req + 1
    <3>1. Doomed(n)
      BY <1>0, <1>3, <2>2 DEF Doomed
    <3> QED
      BY <3>1 DEF IInv, DoomedIsIncomplete
  <2> QED
    BY <2>1, <2>2
<1>15. ASSUME fd # 0, cEnd[fd] = "open", Reading(fd)
       PROVE  toSrv[fd] = <<>> /\ APos(fd) = 0 /\ toCli[fd] = <<>> /\ ~Replying(fd)
  BY <1>8, <1>15 DEF IInv, Turn
<1>16. Turn'
  <2>1. CASE cPc' = "prompt"
    <3>1. ~Sending' /\ ~Awaiting'
      BY <2>1 DEF Sending, Awaiting
    <3> QED
      BY <1>0, <1>5, <1>6, <1>15, <3>1 DEF Turn, TypeOK
  <2>2. CASE cPc' = "send" /\ sent' = 0
    <3>1. CPos' = 0 /\ EndAt(<<>>, 0) = 0
      BY <2>2 DEF CPos, EndAt
    <3>2. sendBuf'.messageLen \in Nat /\ sendBuf'.messageLen >= SizeofHeader
      BY <1>13, <2>2 DEF Requests, Busy, Request, Message
    <3>3. Sending'
      BY <2>2, <3>2 DEF Sending, SizeofHeader
    <3>4. ASSUME fd' # 0, cEnd'[fd'] = "open", Reading(fd)'
          PROVE  /\ toSrv'[fd'] = <<>> /\ APos(fd)' = 0 /\ toCli'[fd'] = <<>> /\ ~Replying(fd)'
      <4>1. fd \in Conn /\ fd' = fd
        BY <1>0, <3>4 DEF TypeOK
      <4> QED
        BY <1>0, <1>5, <1>6, <1>15, <3>4, <4>1
    <3> QED
      BY <2>2, <3>1, <3>3, <3>4 DEF Turn
  <2> QED
    BY <1>1, <2>1, <2>2
<1>17. ReplyInStep'
  <2>1. ASSUME fd' # 0, cEnd'[fd'] = "open", Replying(fd)' PROVE FALSE
    <3>1. fd \in Conn /\ fd' = fd
      BY <1>0, <2>1 DEF TypeOK
    <3>2. Replying(fd) /\ Reading(fd)
      BY <1>6, <2>1, <3>1 DEF Replying, Reading
    <3> QED
      BY <1>0, <1>15, <2>1, <3>1, <3>2
  <2> QED
    BY <2>1 DEF ReplyInStep
<1>18. CliSide'
  <2>1. fd # 0 => ~HasData(toCli[fd]) /\ Whole(toCli[fd])
    BY <1>8 DEF IInv, CliSide
  <2> QED
    BY <1>0, <2>1 DEF CliSide
<1>19. Received'
  BY <1>1 DEF Received
<1>20. AckIsTrue'
  <2> SUFFICES ASSUME NEW n \in answered, op'[n] = OP_INSERT, result'[n] = EDB_OK, unbuilt = {}
               PROVE  n \in stored
    BY <1>0 DEF AckIsTrue, agentVars
  <2>1. n \in Req /\ n # req + 1
    <3>1. n \in Req /\ req + 1 > req
      BY <1>2 DEF TypeOK
    <3> QED
      BY <1>2, <3>1 DEF IInv, Requests
  <2> QED
    BY <1>3, <2>1 DEF IInv, AckIsTrue
<1> QED
  BY <1>5, <1>10, <1>11, <1>12, <1>13, <1>14, <1>16, <1>17, <1>18, <1>19, <1>20 DEF IInv

LEMMA CommandKeeps ==
  ASSUME TypeOK, TypeOK', IInv, Command
  PROVE  IInv'
<1>1. /\ OP_INSERT \in 0..8 /\ OP_QUERY \in 0..8 /\ OP_DELETE \in 0..8
      /\ OP_SNAPSHOT \in 0..8 /\ OP_DISCONNECT \in 0..8
  BY DEF OP_INSERT, OP_QUERY, OP_DELETE, OP_SNAPSHOT, OP_DISCONNECT
<1>2. ASSUME NEW doc, InsertCommand(doc) PROVE IInv'
  BY <1>1, <1>2, ShellBuilds, ExecuteKeeps DEF InsertCommand
<1>3. ASSUME NEW doc, QueryCommand(doc) PROVE IInv'
  BY <1>1, <1>3, ShellBuilds, ExecuteKeeps DEF QueryCommand
<1>4. ASSUME NEW doc, DeleteCommand(doc) PROVE IInv'
  BY <1>1, <1>4, ShellBuilds, ExecuteKeeps DEF DeleteCommand
<1>5. ASSUME SnapshotCommand PROVE IInv'
  BY <1>1, <1>5, ShellBuilds, ExecuteKeeps DEF SnapshotCommand
<1>6. ASSUME QuitCommand PROVE IInv'
  BY <1>1, <1>6, ShellBuilds, ExecuteKeeps DEF QuitCommand
<1> QED
  BY <1>2, <1>3, <1>4, <1>5, <1>6 DEF Command

\* The shell closes its socket; what it sent before is still read, and no more.
LEMMA CloseFrame ==
  ASSUME TypeOK, TypeOK', IInv, CloseSocket, UNCHANGED <<req, op, agentVars>>, NEW c \in Conn
  PROVE  /\ SrvSide(c)' /\ Carry(c)' = Carry(c) /\ APos(c)' = APos(c)
         /\ Reading(c)' <=> Reading(c)
         /\ Reading(c) => (HasData(toSrv'[c]) <=> HasData(toSrv[c]))
         /\ sEnd[c] \in {"none", "closed"} => toSrv'[c] = <<>>
<1>0. Kept /\ toSrv[c] \in Stream
  BY DEF Kept, agentVars, TypeOK
<1>1. APos(c)' = APos(c) /\ (Reading(c)' <=> Reading(c)) /\ UNCHANGED <<aPc, aNeed, aBuf, aSize>>
  BY DEF APos, Reading, agentVars
<1>2. CASE ~(c = fd /\ sEnd[c] # "closed")
  <2>1. toSrv'[c] = toSrv[c]
    BY <1>2 DEF CloseSocket
  <2>2. SrvSame(c)
    BY <1>1, <2>1 DEF SrvSame
  <2> QED
    BY <1>0, <1>1, <2>1, <2>2, SrvFrame DEF IInv, Ends
<1>3. CASE c = fd /\ sEnd[c] # "closed"
  <2>0. toSrv'[c] = Hangup(toSrv[c], toCli[c])
    BY <1>3 DEF CloseSocket
  <2>1. ASSUME Reading(c)
        PROVE  /\ Whole(toSrv'[c]) /\ (HasData(toSrv'[c]) <=> HasData(toSrv[c]))
               /\ HasData(toSrv[c]) => toSrv'[c][1] = toSrv[c][1]
    <3>1. Whole(toSrv[c])
      BY <2>1 DEF IInv, SrvSide
    <3> QED
      BY <1>0, <2>0, <3>1, WholeHangup
  <2>2. Carry(c)' = Carry(c)
    BY <1>1, <2>1 DEF Carry
  <2>3. Request(aBuf[c]) => Request(aBuf[c])'
    BY <1>1 DEF Request
  <2>4. ASSUME Reading(c), HasData(toSrv[c]), Request(toSrv[c][1].m)
        PROVE  Request(toSrv[c][1].m)'
    BY <2>1, <2>4 DEF Request
  <2>5. SrvSide(c)'
    BY <1>1, <2>1, <2>3, <2>4 DEF IInv, SrvSide
  <2>6. sEnd[c] # "none"
    BY <1>3 DEF IInv, Ends
  <2> QED
    BY <1>1, <1>3, <2>1, <2>2, <2>5, <2>6
<1> QED
  BY <1>2, <1>3

\* The shell closes its connection, and opens d unless d is 0.
LEMMA CloseKeeps ==
  ASSUME TypeOK, TypeOK', IInv, CloseSocket, UNCHANGED <<req, op, answered, agentVars>>,
         NEW d \in Conn \cup {0}, d # 0 => sEnd[d] = "none", fd' = d,
         cEnd' = [c \in Conn |-> IF c = fd THEN "closed" ELSE IF c = d THEN "open" ELSE cEnd[c]],
         sEnd' = [c \in Conn |-> IF c = d THEN "backlog" ELSE sEnd[c]],
         cPc' = "prompt" \/ (cPc' = "gone" /\ d = 0),
         result' = result \/ result' = [result EXCEPT ![req] = "exception"]
  PROVE  IInv'
<1>1. \A c \in Conn : /\ SrvSide(c)' /\ Carry(c)' = Carry(c) /\ APos(c)' = APos(c)
                      /\ (Reading(c)' <=> Reading(c))
                      /\ (Reading(c) => (HasData(toSrv'[c]) <=> HasData(toSrv[c])))
                      /\ (sEnd[c] \in {"none", "closed"} => toSrv'[c] = <<>>)
  BY CloseFrame
<1>2. ~Busy' /\ ~Sending' /\ ~Awaiting'
  BY DEF Busy, Sending, Awaiting
<1>3. req \in Nat /\ 0 \notin Conn
  BY DEF TypeOK, Conn
<1>4. \A c \in Conn : toCli'[c] = <<>>
  BY DEF CloseSocket, IInv, Ends
<1>5. ASSUME d # 0
      PROVE  /\ d \in Conn /\ d # fd /\ aPc[d] = "off" /\ toSrv'[d] = <<>> /\ APos(d) = 0
             /\ Carry(d) = {} /\ ~Replying(d)'
  <2>1. d \in Conn /\ sEnd[d] = "none" /\ aPc[d] = "off" /\ toSrv[d] = <<>>
    BY <1>5 DEF IInv, Ends
  <2>2. d # fd
    BY <2>1 DEF IInv, Ends
  <2>3. APos(d) = 0 /\ ~Replying(d)'
    BY <2>1 DEF APos, Replying, agentVars
  <2>4. ~HasData(toSrv[d]) /\ ~(APos(d) > 0)
    BY <2>1, <2>3 DEF HasData
  <2>5. Carry(d) = {}
    BY <2>4 DEF Carry
  <2>6. toSrv'[d] = <<>>
    BY <1>1, <2>1
  <2> QED
    BY <2>1, <2>2, <2>3, <2>5, <2>6
<1>6. Ends'
  <2>1. ASSUME NEW c \in Conn
        PROVE  /\ cEnd'[c] \in {"open", "reset"} <=> c = fd'
               /\ cEnd'[c] = "none" <=> sEnd'[c] = "none"
               /\ sEnd'[c] \in {"none", "backlog"} <=> aPc'[c] = "off"
               /\ sEnd'[c] = "closed" <=> aPc'[c] = "done"
               /\ cEnd'[c] # "reset"
    <3>1. CASE c = d
      BY <1>3, <1>5, <3>1 DEF agentVars
    <3>2. CASE c # d
      BY <1>3, <3>2 DEF IInv, Ends, agentVars
    <3> QED
      BY <3>1, <3>2
  <2>2. ASSUME NEW c \in Conn
        PROVE  sEnd'[c] \in {"none", "closed"} => toSrv'[c] = <<>>
    BY <1>1 DEF IInv, Ends
  <2>3. ASSUME NEW c \in Conn, cEnd'[c] = "open" PROVE toSrv'[c] = <<>> /\ toCli'[c] = <<>>
    BY <1>3, <1>4, <1>5, <2>1, <2>3
  <2>4. AllData(<<>>)
    BY DEF AllData
  <2>5. cPc' = "gone" => fd' = 0
    OBVIOUS
  <2> QED
    BY <1>2, <1>4, <2>1, <2>2, <2>3, <2>4, <2>5 DEF Ends
<1>7. CarriedOnce'
  BY <1>1, <1>2 DEF IInv, CarriedOnce, agentVars
<1>8. Replies'
  <2>1. Kept
    BY <1>3 DEF Kept, agentVars
  <2> QED
    BY <2>1, RepliesFrame DEF IInv, agentVars
<1>9. \A n \in Req : n # req => result'[n] = result[n]
  BY DEF TypeOK
<1>10. Requests'
  <2>1. cPc' \notin {"send", "len", "body"}
    OBVIOUS
  <2>2. \A n \in Req : execs'[n] <= 1
    BY DEF IInv, Requests, agentVars
  <2>3. ASSUME NEW n \in Req, n > req' PROVE execs'[n] = 0 /\ result'[n] = "none" /\ n \notin answered'
    <3>1. n # req
      BY <1>3, <2>3
    <3> QED
      BY <1>9, <2>3, <3>1 DEF IInv, Requests, agentVars
  <2> QED
    BY <1>2, <2>1, <2>2, <2>3 DEF Requests
<1>11. DoomedIsIncomplete'
  <2> SUFFICES ASSUME NEW n \in Req, Doomed(n)'
               PROVE  /\ execs'[n] = 0
                      /\ \A c \in Conn : n \in Carry(c)' =>
                           ~HasData(toSrv'[c]) /\ cEnd'[c] # "open" /\ APos(c)' < aBuf'[c].messageLen
    BY DEF DoomedIsIncomplete
  <2>1. Doomed(n)
    BY <1>2 DEF Doomed, FailCodes, TypeOK
  <2>2. ASSUME NEW c \in Conn, n \in Carry(c)'
        PROVE  ~HasData(toSrv'[c]) /\ cEnd'[c] # "open" /\ APos(c)' < aBuf'[c].messageLen
    <3>1. n \in Carry(c) /\ Reading(c) /\ c # d
      BY <1>1, <1>3, <1>5, <2>2 DEF Carry
    <3>2. ~HasData(toSrv[c]) /\ cEnd[c] # "open" /\ APos(c) < aBuf[c].messageLen
      BY <2>1, <3>1 DEF IInv, DoomedIsIncomplete
    <3> QED
      BY <1>1, <3>1, <3>2 DEF agentVars
  <2> QED
    BY <2>1, <2>2 DEF IInv, DoomedIsIncomplete, agentVars
<1>12. Turn' /\ ReplyInStep'
  <2>1. fd' # 0 => toSrv'[fd'] = <<>> /\ APos(fd)' = 0 /\ toCli'[fd'] = <<>> /\ ~Replying(fd)'
    <3>1. ASSUME d # 0 PROVE APos(d)' = 0 /\ ~Replying(d)'
      BY <1>1, <1>5, <3>1
    <3>2. APos(fd)' = APos(d)' /\ Replying(fd)' = Replying(d)'
      BY DEF APos, Replying, ToSend
    <3> QED
      BY <1>4, <1>5, <3>1, <3>2
  <2> QED
    BY <1>2, <2>1 DEF Turn, ReplyInStep
<1>13. CliSide'
  <2>1. Whole(<<>>) /\ ~HasData(<<>>)
    BY DEF Whole, HasData
  <2> QED
    BY <1>4, <1>5, <2>1 DEF CliSide
<1>14. Received'
  BY DEF Received
<1>15. AckIsTrue'
  BY <1>9 DEF IInv, AckIsTrue, agentVars, TypeOK, EDB_OK
<1> QED
  BY <1>1, <1>6, <1>7, <1>8, <1>10, <1>11, <1>12, <1>13, <1>14, <1>15 DEF IInv

LEMMA ConnectKeeps == ASSUME TypeOK, TypeOK', IInv, ConnectCommand PROVE IInv'
<1>1. PICK d \in Conn \cup {0} :
        /\ d # 0 => sEnd[d] = "none" /\ \A c \in Conn : c < d => sEnd[c] # "none"
        /\ fd' = d
        /\ cEnd' = [c \in Conn |-> IF c = fd THEN "closed" ELSE IF c = d THEN "open" ELSE cEnd[c]]
        /\ sEnd' = [c \in Conn |-> IF c = d THEN "backlog" ELSE sEnd[c]]
  BY DEF ConnectCommand
<1>2. /\ CloseSocket /\ cPc' = "prompt" /\ result' = result
      /\ UNCHANGED <<req, op, answered, agentVars>>
  BY DEF ConnectCommand
<1> QED
  BY <1>1, <1>2, CloseKeeps

LEMMA ExitKeeps ==
  ASSUME TypeOK, TypeOK', IInv, ShellExit, UNCHANGED <<req, op, answered, sEnd, agentVars>>,
         result' = result \/ result' = [result EXCEPT ![req] = "exception"]
  PROVE  IInv'
<1>1. /\ CloseSocket /\ cPc' = "gone" /\ fd' = 0
      /\ cEnd' = [c \in Conn |-> IF c = fd THEN "closed" ELSE IF c = 0 THEN "open" ELSE cEnd[c]]
  BY DEF ShellExit, Conn
<1>2. sEnd' = [c \in Conn |-> IF c = 0 THEN "backlog" ELSE sEnd[c]]
  BY DEF TypeOK, Conn
<1> QED
  BY <1>1, <1>2, CloseKeeps

\* The shell's steps up to the wait for the reply.
LEMMA AppendData ==
  ASSUME NEW s \in Stream, AllData(s), NEW x \in ChunkT, x.kind = "data"
  PROVE  AllData(Append(s, x)) /\ HasData(Append(s, x))
<1>1. s \in Seq(ChunkT) /\ Len(s) \in Nat
  BY DEF Stream, ChunkT
<1>2. /\ Len(Append(s, x)) = Len(s) + 1 /\ Append(s, x)[Len(s) + 1] = x
      /\ \A i \in 1..Len(s) : Append(s, x)[i] = s[i]
  BY <1>1
<1>3. \A h \in Nat : \A i \in 1..(h + 1) : i \in 1..h \/ i = h + 1
  OBVIOUS
<1>4. AllData(Append(s, x))
  BY <1>1, <1>2, <1>3 DEF AllData
<1>5. Append(s, x) \in Stream /\ Append(s, x) # <<>>
  BY <1>1, AppendType
<1> QED
  BY <1>4, <1>5, DataFirst

LEMMA SendPartKeeps ==
  ASSUME TypeOK, TypeOK', IInv, SendPart
  PROVE  IInv'
<1> DEFINE s == toSrv[fd]
           x == Chunk(sendBuf, sent)
<1>0. /\ cPc = "send" /\ cPc' = "send" /\ sent < sendBuf.messageLen /\ cEnd[fd] = "open" /\ Busy
      /\ sent' = PartEnd(sendBuf, sent)
      /\ UNCHANGED <<fd, req, op, sendBuf, recvBuf, cNeed, result, answered, toCli, sEnd, agentVars>>
      /\ \/ sEnd[fd] = "closed" /\ toSrv' = toSrv
            /\ \E e \in {"open", "reset"} : cEnd' = [cEnd EXCEPT ![fd] = e]
         \/ sEnd[fd] # "closed" /\ cEnd' = cEnd /\ toSrv' = [toSrv EXCEPT ![fd] = Append(s, x)]
  BY DEF SendPart, Busy
<1>1. /\ fd \in Conn /\ fd # 0 /\ s \in Stream /\ req \in Req /\ Sending /\ ~Awaiting /\ execs[req] = 0
      /\ result[req] = "none" /\ req \notin answered
  <2>1. sent \in Nat /\ sendBuf.messageLen \in Nat
    BY DEF TypeOK, Message
  <2>2. Sending /\ ~Awaiting
    BY <1>0, <2>1 DEF Sending, Awaiting
  <2>3. fd \in Conn /\ fd # 0
    BY <1>0 DEF IInv, Ends, TypeOK
  <2>4. req \in Req
    BY <1>0 DEF IInv, Requests, TypeOK, Req
  <2> QED
    BY <1>0, <2>2, <2>3, <2>4 DEF IInv, Requests, TypeOK
<1>2. /\ sent \in Nat /\ sendBuf \in Message /\ sendBuf.messageLen \in Nat /\ Request(sendBuf)
      /\ sendBuf.messageLen >= SizeofHeader /\ sendBuf.for = req
  BY <1>0 DEF IInv, Requests, TypeOK, Request, Message
<1>3. /\ sent' \in Nat /\ sent' <= sendBuf.messageLen /\ x \in ChunkT /\ x.kind = "data"
      /\ x.m = sendBuf /\ x.off = sent /\ x.n > 0 /\ x.off + x.n = sent'
  BY <1>0, <1>2, PartType DEF SizeofHeader, SizeofInt
<1> HIDE DEF x
<1>4. ~HasData(toCli[fd]) /\ Whole(toCli[fd]) /\ CPos = 0 /\ CPos' = 0
  BY <1>0, <1>1 DEF IInv, CliSide, CPos
<1>5. (Sending' \/ (Awaiting' /\ execs'[req'] = 0)) /\ Busy'
  BY <1>0, <1>1, <1>2, <1>3 DEF Sending, Awaiting, agentVars, Busy
<1>6. Kept /\ \A c \in Conn : c # fd => SrvSame(c)
  BY <1>0 DEF Kept, SrvSame, agentVars, TypeOK
<1>7. \A c \in Conn : c # fd => SrvSide(c)' /\ Carry(c)' = Carry(c) /\ APos(c)' = APos(c)
  BY <1>6, SrvFrame DEF IInv
<1>8. /\ (Reading(fd)' <=> Reading(fd)) /\ APos(fd)' = APos(fd) /\ (Replying(fd)' <=> Replying(fd))
      /\ Replying(fd) => Reading(fd)
  BY <1>0 DEF Reading, APos, Replying, ToSend, agentVars
<1>9. Reading(fd) => sEnd[fd] # "closed"
  BY <1>1 DEF IInv, Ends, Reading
<1>10. ASSUME Reading(fd)
       PROVE  /\ toSrv'[fd] = Append(s, x) /\ cEnd' = cEnd
              /\ Whole(s) /\ AllData(s) /\ EndAt(s, APos(fd)) = sent
              /\ s # <<>> => s[1].m = sendBuf
              /\ APos(fd) > 0 => aBuf[fd] = sendBuf
              /\ toCli[fd] = <<>> /\ ~Replying(fd)
  <2>1. toSrv'[fd] = Append(s, x) /\ cEnd' = cEnd
    BY <1>0, <1>1, <1>9, <1>10 DEF TypeOK
  <2>2. Whole(s) /\ AllData(s)
    BY <1>0, <1>1, <1>10 DEF IInv, SrvSide, Ends
  <2>3. /\ EndAt(s, APos(fd)) = sent /\ (s # <<>> => s[1].m = sendBuf)
        /\ APos(fd) > 0 => aBuf[fd] = sendBuf
        /\ toCli[fd] = <<>> /\ ~Replying(fd)
    BY <1>0, <1>1, <1>10 DEF IInv, Turn
  <2> QED
    BY <2>1, <2>2, <2>3
<1>11. ASSUME Reading(fd)
       PROVE  LET t == toSrv'[fd] IN
              /\ t # <<>> /\ HasData(t) /\ Whole(t) /\ t[1].m = sendBuf /\ t[1].off = APos(fd)
              /\ EndAt(t, APos(fd)) = sent'
  <2>1. s # <<>> => EndAt(s, 0) = sent
    BY <1>10, <1>11 DEF EndAt
  <2>2. /\ Append(s, x) # <<>> /\ Append(s, x)[1] = (IF s = <<>> THEN x ELSE s[1])
        /\ Whole(Append(s, x)) /\ EndAt(Append(s, x), 0) = x.off + x.n
    <3>1. x.off + x.n <= x.m.messageLen
      BY <1>3
    <3> QED
      BY <1>1, <1>3, <1>10, <1>11, <2>1, <3>1, WholeAppend
  <2>3. HasData(Append(s, x))
    BY <1>1, <1>3, <1>10, <1>11, AppendData
  <2>4. Append(s, x)[1].m = sendBuf
    BY <1>3, <1>10, <1>11, <2>2
  <2>5. Append(s, x)[1].off = APos(fd)
    <3>1. CASE s = <<>>
      BY <1>3, <1>10, <1>11, <2>2, <3>1 DEF EndAt
    <3>2. CASE s # <<>>
      <4>1. HasData(s)
        BY <1>1, <1>10, <1>11, <3>2, DataFirst
      <4> QED
        BY <1>1, <1>11, <2>2, <3>2, <4>1 DEF IInv, SrvSide
    <3> QED
      BY <3>1, <3>2
  <2>6. EndAt(Append(s, x), APos(fd)) = sent'
    BY <1>3, <2>2 DEF EndAt
  <2> QED
    BY <1>10, <1>11, <2>2, <2>3, <2>4, <2>5, <2>6
<1>12. SrvSide(fd)' /\ Carry(fd)' = IF Reading(fd) THEN {req} ELSE {}
  <2>1. CASE ~Reading(fd)
    BY <1>0, <1>8, <2>1 DEF SrvSide, Carry, Reading
  <2>2. CASE Reading(fd)
    <3>1. Carry(fd)' = {req}
      BY <1>0, <1>2, <1>8, <1>11, <2>2 DEF Carry
    <3>2. Request(sendBuf)' /\ (Request(aBuf[fd]) => Request(aBuf[fd])')
      BY <1>0, <1>2 DEF Request, agentVars
    <3>3. Request(toSrv[fd][1].m)'
      BY <1>0, <1>11, <2>2, <3>2 DEF Request
    <3>4. /\ Reading(fd)' /\ Whole(toSrv'[fd']) /\ toSrv'[fd'][1].off = APos(fd)' /\ toSrv'[fd'][1].m = sendBuf
      BY <1>0, <1>8, <1>11, <2>2
    <3>5. APos(fd)' > 0 => Request(aBuf[fd])' /\ aBuf'[fd'] = sendBuf
      BY <1>0, <1>1, <1>8, <1>10, <2>2, <3>2 DEF IInv, SrvSide, agentVars
    <3>6. /\ aPc'[fd'] \in {"lenPoll", "len"} => aNeed'[fd'] \in 0..SizeofInt
          /\ aPc'[fd'] \in {"bodyPoll", "body"} => /\ aNeed'[fd'] \in 0..(aBuf'[fd'].messageLen - SizeofInt)
                                                   /\ aBuf'[fd'].messageLen + 1 <= aSize'[fd']
      BY <1>0, <1>1, <2>2 DEF IInv, SrvSide, agentVars
    <3>7. SrvSide(fd)'
      BY <3>3, <3>4, <3>5, <3>6 DEF SrvSide
    <3> QED
      BY <2>2, <3>1, <3>7
  <2> QED
    BY <2>1, <2>2
<1>13. \A c \in Conn : SrvSide(c)'
  <2> SUFFICES ASSUME NEW c \in Conn PROVE SrvSide(c)'
    OBVIOUS
  <2>1. CASE c = fd
    <3>1. SrvSide(fd)' = SrvSide(c)'
      BY <1>0, <2>1 DEF SrvSide, Reading, APos, Request, Whole, HasData
    <3> QED
      BY <1>12, <3>1
  <2>2. CASE c # fd
    BY <1>7, <2>2
  <2> QED
    BY <2>1, <2>2
<1>14. \A c \in Conn : c # fd => req \notin Carry(c)
  BY <1>0 DEF IInv, CarriedOnce
<1>15. CarriedOnce'
  <2> SUFFICES ASSUME NEW c \in Conn, NEW n \in Carry(c)'
               PROVE  /\ execs[n] = 0 /\ (c # fd => n # req)
                      /\ \A d \in Conn : d # c => n \notin Carry(d)'
    BY <1>0 DEF CarriedOnce, agentVars
  <2>1. CASE c = fd
    <3>1. n = req
      BY <1>0, <1>12, <2>1 DEF Carry, Reading, APos, HasData
    <3> QED
      BY <1>1, <1>7, <1>14, <2>1, <3>1
  <2>2. CASE c # fd
    <3>1. n \in Carry(c) /\ n # req
      BY <1>7, <1>14, <2>2
    <3>2. n \notin Carry(fd)'
      BY <1>12, <3>1
    <3>3. \A d \in Conn : d # c /\ d # fd => n \notin Carry(d)'
      BY <1>7, <3>1 DEF IInv, CarriedOnce
    <3>4. execs[n] = 0
      BY <3>1 DEF IInv, CarriedOnce
    <3>5. ASSUME NEW d \in Conn, d = fd PROVE Carry(d)' = Carry(fd)'
      BY <1>0, <3>5 DEF Carry, Reading, APos, HasData
    <3> QED
      BY <2>2, <3>1, <3>2, <3>3, <3>4, <3>5
  <2> QED
    BY <2>1, <2>2
<1>16. Replies'
  BY <1>0, <1>6, RepliesFrame DEF IInv, agentVars
<1>17. Requests'
  BY <1>0, <1>1, <1>2, <1>3 DEF IInv, Requests, Request, agentVars
<1>18. Ends'
  <2>1. ASSUME NEW c \in Conn
        PROVE  /\ cEnd'[c] \in {"open", "reset"} <=> c = fd'
               /\ cEnd'[c] = "none" <=> sEnd'[c] = "none"
               /\ sEnd'[c] \in {"none", "backlog"} <=> aPc'[c] = "off"
               /\ sEnd'[c] = "closed" <=> aPc'[c] = "done"
               /\ c # fd' => toCli'[c] = <<>>
               /\ sEnd'[c] \in {"none", "closed"} => toSrv'[c] = <<>>
    <3>1. CASE sEnd[fd] = "closed"
      BY <1>0, <1>1, <3>1 DEF IInv, Ends, agentVars, TypeOK
    <3>2. CASE sEnd[fd] # "closed"
      <4>1. sEnd[fd] # "none" /\ cEnd' = cEnd
        BY <1>0, <1>1, <3>2 DEF IInv, Ends
      <4>2. \A d \in Conn : d # fd => toSrv'[d] = toSrv[d]
        BY <1>6 DEF SrvSame
      <4> QED
        BY <1>0, <3>2, <4>1, <4>2 DEF IInv, Ends, agentVars
    <3> QED
      BY <3>1, <3>2
  <2>2. ASSUME NEW c \in Conn
        PROVE  /\ cEnd'[c] = "open" => AllData(toSrv'[c])
               /\ cEnd'[c] = "open" /\ sEnd'[c] # "closed" => AllData(toCli'[c])
               /\ cEnd'[c] = "reset" => ~HasData(toSrv'[c])
    <3>1. CASE c # fd
      <4>1. toSrv'[c] = toSrv[c] /\ cEnd'[c] = cEnd[c]
        BY <1>0, <1>6, <3>1 DEF SrvSame, TypeOK
      <4> QED
        BY <1>0, <4>1 DEF IInv, Ends
    <3>2. CASE c = fd /\ sEnd[fd] = "closed"
      <4>1. toSrv'[c] = <<>> /\ sEnd'[c] = "closed"
        BY <1>0, <3>2 DEF IInv, Ends
      <4>2. AllData(<<>>) /\ ~HasData(<<>>)
        BY DEF AllData, HasData
      <4> QED
        BY <4>1, <4>2
    <3>3. CASE c = fd /\ sEnd[fd] # "closed"
      <4>1. toSrv'[c] = Append(s, x) /\ cEnd'[c] = "open" /\ toCli'[c] = toCli[c]
        BY <1>0, <1>1, <3>3 DEF TypeOK
      <4>2. AllData(s) /\ AllData(toCli[fd])
        BY <1>0, <1>1, <3>3 DEF IInv, Ends
      <4> QED
        BY <1>1, <1>3, <3>3, <4>1, <4>2, AppendData
    <3> QED
      BY <3>1, <3>2, <3>3
  <2>3. Busy' => fd' # 0
    BY <1>0, <1>1
  <2> QED
    BY <1>0, <2>1, <2>2, <2>3 DEF Ends
<1>19. DoomedIsIncomplete'
  <2> SUFFICES ASSUME NEW n \in Req, Doomed(n)'
               PROVE  /\ execs[n] = 0
                      /\ \A c \in Conn : n \in Carry(c)' =>
                           ~HasData(toSrv'[c]) /\ cEnd'[c] # "open" /\ APos(c)' < aBuf[c].messageLen
    BY <1>0 DEF DoomedIsIncomplete, agentVars
  <2>1. Doomed(n) \/ n = req
    BY <1>0 DEF Doomed
  <2>2. execs[n] = 0
    BY <1>1, <2>1 DEF IInv, DoomedIsIncomplete
  <2>3. ASSUME NEW c \in Conn, n \in Carry(c)', c # fd
        PROVE  ~HasData(toSrv'[c]) /\ cEnd'[c] # "open" /\ APos(c)' < aBuf[c].messageLen
    <3>1. n \in Carry(c) /\ n # req
      BY <1>7, <1>14, <2>3
    <3>2. ~HasData(toSrv[c]) /\ cEnd[c] # "open" /\ APos(c) < aBuf[c].messageLen
      BY <2>1, <3>1 DEF IInv, DoomedIsIncomplete
    <3>3. toSrv'[c] = toSrv[c] /\ cEnd'[c] = cEnd[c] /\ APos(c)' = APos(c)
      BY <1>0, <1>6, <1>7, <2>3 DEF SrvSame, TypeOK
    <3> QED
      BY <3>2, <3>3
  <2>4. ASSUME NEW c \in Conn, n \in Carry(c)', c = fd PROVE FALSE
    <3>1. n \in Carry(fd)'
      BY <1>0, <2>4 DEF Carry, Reading, APos, HasData
    <3>2. n = req /\ Reading(fd)
      BY <1>12, <3>1
    <3>3. cEnd' = cEnd
      BY <1>10, <3>2
    <3> QED
      BY <1>0, <1>1, <3>2, <3>3 DEF Doomed, FailCodes
  <2> QED
    BY <2>2, <2>3, <2>4
<1>20. Turn' /\ ReplyInStep'
  BY <1>0, <1>4, <1>5, <1>8, <1>10, <1>11 DEF Turn, ReplyInStep, agentVars
<1>21. CliSide'
  BY <1>0, <1>4 DEF CliSide
<1>22. Received'
  BY <1>0 DEF Received
<1>23. AckIsTrue'
  BY <1>0 DEF IInv, AckIsTrue, agentVars
<1> QED
  BY <1>13, <1>15, <1>16, <1>17, <1>18, <1>19, <1>20, <1>21, <1>22, <1>23 DEF IInv

LEMMA StutterKeeps ==
  ASSUME TypeOK, IInv,
         UNCHANGED <<cPc, fd, req, op, sendBuf, sent, recvBuf, cNeed, result, toSrv, toCli, cEnd,
                     sEnd, aPc, aBuf, aNeed, aSize, aReply, aSent, execs, stored, answered, unbuilt>>
  PROVE  IInv'
<1>1. UNCHANGED <<cPc, fd, req, op, sendBuf, sent, recvBuf, cNeed, result, toSrv, toCli, cEnd,
                  sEnd, aPc, aBuf, aNeed, aSize, aReply, aSent, execs, stored, answered, unbuilt>>
  OBVIOUS
<1>2. Ends' /\ (\A c \in Conn : SrvSide(c)')
  BY <1>1 DEF IInv, Ends, SrvSide, Busy, Sending, Request, Reading, APos, HasData, Whole, AllData
<1>3. CarriedOnce' /\ Requests' /\ DoomedIsIncomplete'
  BY <1>1 DEF IInv, CarriedOnce, Requests, DoomedIsIncomplete, Busy, Sending, Request,
              Doomed, Carry, Reading, APos, HasData, Whole, AllData
<1>4. Turn' /\ ReplyInStep'
  BY <1>1 DEF IInv, Turn, ReplyInStep, Awaiting, Sending, Replying, Reading, APos, CPos, EndAt,
              ToSend, HasData, Whole, Answers, Reply
<1>5. CliSide' /\ Received'
  BY <1>1 DEF IInv, CliSide, Received, Awaiting, CPos, ToSend, HasData, Whole, Answers, Reply
<1>6. Replies' /\ AckIsTrue'
  BY <1>1 DEF IInv, Replies, AckIsTrue, Answers, Reply
<1> QED
  BY <1>2, <1>3, <1>4, <1>5, <1>6 DEF IInv

\* Every step of the shell.
LEMMA ShellKeeps ==
  ASSUME TypeOK, TypeOK', IInv, ConnectCommand \/ Command \/ ShellStep \/ Interrupt
  PROVE  IInv'
<1>1. CASE SendFail
  <2>1. CASE sendBuf.opCode = OP_DISCONNECT
    BY <1>1, <2>1, ExitKeeps DEF SendFail
  <2> QED
    BY <1>1, <2>1, SendFailKeeps
<1>2. CASE RecvReply
  <2>1. CASE sendBuf.opCode = OP_DISCONNECT
    BY <1>2, <2>1, ExitKeeps DEF RecvReply
  <2> QED
    BY <1>2, <2>1, RecvReplyKeeps
<1>3. CASE HandleReply
  <2>1. CASE sendBuf.opCode = OP_SNAPSHOT /\ recvBuf.returnCode = EDB_OK /\ recvBuf.data = <<>>
    BY <1>3, <2>1, ExitKeeps DEF HandleReply
  <2> QED
    BY <1>3, <2>1, HandleReplyKeeps
<1>4. CASE Interrupt
  BY <1>4, ExitKeeps DEF Interrupt
<1>5. CASE RecvTimeout
  <2>1. UNCHANGED vars
    BY <1>5 DEF RecvTimeout
  <2> QED
    BY <2>1, StutterKeeps DEF vars
<1> QED
  BY <1>1, <1>2, <1>3, <1>4, <1>5, ConnectKeeps, CommandKeeps, SendPartKeeps, RecvPartKeeps,
     RecvEofKeeps, RecvErrorKeeps, RecvLengthKeeps, RecvDoneKeeps DEF ShellStep

-----------------------------------------------------------------------------
(* The steps of the agents keep the invariant.                             *)

\* The agent of c goes from one place to another where it has read as much, or gives up.
AgentMoves(c) ==
  /\ UNCHANGED <<shellVars, toSrv, toCli, cEnd, aBuf, aReply, aSent, execs, stored, unbuilt>>
  /\ \A d \in Conn : d # c => /\ aPc'[d] = aPc[d] /\ aNeed'[d] = aNeed[d]
                              /\ aSize'[d] = aSize[d] /\ sEnd'[d] = sEnd[d]
  /\ Reading(c)
  /\ \/ aPc'[c] = "close" /\ sEnd'[c] = sEnd[c] /\ aPc[c] # "off"
     \/ /\ aPc'[c] \in {"lenPoll", "len", "bodyPoll", "body", "sendPoll", "send"}
        /\ sEnd[c] \in {"backlog", "open"} /\ sEnd'[c] = "open"
        /\ APos(c)' = APos(c) /\ (Replying(c)' => Replying(c))
        /\ aPc'[c] \in {"sendPoll", "send"} => aPc[c] \in {"sendPoll", "send"}
        /\ aPc'[c] \in {"lenPoll", "len"} => aNeed'[c] \in 0..SizeofInt
        /\ aPc'[c] \in {"bodyPoll", "body"} => /\ aNeed'[c] \in 0..(aBuf[c].messageLen - SizeofInt)
                                               /\ aBuf[c].messageLen + 1 <= aSize'[c]

LEMMA MoveKeeps ==
  ASSUME TypeOK, TypeOK', IInv, NEW c \in Conn, AgentMoves(c)
  PROVE  IInv'
<1>0. UNCHANGED <<cPc, fd, req, op, sendBuf, sent, recvBuf, cNeed, result, answered, toSrv, toCli, cEnd,
                  aBuf, aReply, aSent, execs, stored, unbuilt>>
  BY DEF AgentMoves, shellVars
<1>1. Kept
  BY <1>0 DEF Kept, TypeOK
<1>2. ASSUME NEW d \in Conn, d # c
      PROVE  /\ SrvSide(d)' /\ Carry(d)' = Carry(d) /\ APos(d)' = APos(d)
             /\ (Reading(d)' <=> Reading(d)) /\ (Replying(d)' <=> Replying(d))
  <2>1. SrvSame(d)
    BY <1>0, <1>2 DEF SrvSame, AgentMoves
  <2>2. Replying(d)' <=> Replying(d)
    BY <1>0, <1>2 DEF AgentMoves, Replying, ToSend
  <2> QED
    BY <1>1, <2>1, <2>2, SrvFrame DEF IInv
<1>3. /\ SrvSide(c)' /\ Carry(c)' \subseteq Carry(c)
      /\ Reading(c)' => APos(c)' = APos(c)
      /\ Replying(c)' => Replying(c)
  <2>1. CASE aPc'[c] = "close"
    <3>1. ~Reading(c)' /\ ~Replying(c)'
      BY <2>1 DEF Reading, Replying
    <3> QED
      BY <3>1 DEF SrvSide, Carry
  <2>2. CASE aPc'[c] # "close"
    <3>1. APos(c)' = APos(c) /\ (Replying(c)' => Replying(c)) /\ Reading(c) /\ Reading(c)'
      BY <2>2 DEF AgentMoves, Reading
    <3>2. Carry(c)' = Carry(c)
      BY <1>0, <3>1 DEF Carry, HasData
    <3>3. Request(aBuf[c])' = Request(aBuf[c]) /\ Request(toSrv[c][1].m)' = Request(toSrv[c][1].m)
      BY <1>0 DEF Request
    <3>4. SrvSide(c)'
      <4>1. Whole(toSrv[c])'
        BY <1>0, <3>1 DEF IInv, SrvSide, Whole
      <4>2. /\ aPc'[c] \in {"lenPoll", "len"} => aNeed'[c] \in 0..SizeofInt
            /\ aPc'[c] \in {"bodyPoll", "body"} => /\ aNeed'[c] \in 0..(aBuf'[c].messageLen - SizeofInt)
                                                   /\ aBuf'[c].messageLen + 1 <= aSize'[c]
        BY <1>0, <2>2 DEF AgentMoves
      <4>3. APos(c)' > 0 => Request(aBuf[c])'
        BY <3>1, <3>3 DEF IInv, SrvSide
      <4>4. HasData(toSrv[c])' => /\ toSrv'[c][1].off = APos(c)'
                                  /\ Request(toSrv[c][1].m)'
                                  /\ APos(c)' > 0 => toSrv'[c][1].m = aBuf'[c]
        BY <1>0, <3>1, <3>3 DEF IInv, SrvSide, HasData
      <4> QED
        BY <4>1, <4>2, <4>3, <4>4 DEF SrvSide
    <3> QED
      BY <3>1, <3>2, <3>4
  <2> QED
    BY <2>1, <2>2
<1>4. \A d \in Conn : /\ SrvSide(d)' /\ Carry(d)' \subseteq Carry(d) /\ (Replying(d)' => Replying(d))
                      /\ Reading(d)' => Reading(d) /\ APos(d)' = APos(d)
  BY <1>2, <1>3 DEF AgentMoves
<1>5. CarriedOnce'
  BY <1>0, <1>4 DEF IInv, CarriedOnce, Busy
<1>6. Ends'
  <2>1. ASSUME NEW d \in Conn
        PROVE  /\ cEnd'[d] = "none" <=> sEnd'[d] = "none"
               /\ sEnd'[d] \in {"none", "backlog"} <=> aPc'[d] = "off"
               /\ sEnd'[d] = "closed" <=> aPc'[d] = "done"
               /\ sEnd'[d] \in {"none", "closed"} => toSrv'[d] = <<>>
               /\ cEnd'[d] = "open" /\ sEnd'[d] # "closed" => AllData(toCli'[d])
    <3>1. CASE d = c
      BY <1>0, <3>1 DEF IInv, Ends, AgentMoves, Reading, TypeOK
    <3>2. CASE d # c
      BY <1>0, <3>2 DEF IInv, Ends, AgentMoves
    <3> QED
      BY <3>1, <3>2
  <2> QED
    BY <1>0, <2>1 DEF IInv, Ends, Busy
<1>7. Requests'
  BY <1>0 DEF IInv, Requests, Busy, Sending, Request
<1>8. DoomedIsIncomplete'
  <2> SUFFICES ASSUME NEW n \in Req, Doomed(n)'
               PROVE  /\ execs[n] = 0
                      /\ \A d \in Conn : n \in Carry(d)' =>
                           ~HasData(toSrv[d]) /\ cEnd[d] # "open" /\ APos(d)' < aBuf[d].messageLen
    BY <1>0 DEF DoomedIsIncomplete
  <2>1. Doomed(n)
    BY <1>0 DEF Doomed, Sending
  <2>2. ASSUME NEW d \in Conn, n \in Carry(d)'
        PROVE  ~HasData(toSrv[d]) /\ cEnd[d] # "open" /\ APos(d)' < aBuf[d].messageLen
    <3>1. Reading(d)' /\ n \in Carry(d)
      BY <1>4, <2>2 DEF Carry
    <3> QED
      BY <1>4, <2>1, <3>1 DEF IInv, DoomedIsIncomplete
  <2> QED
    BY <2>1, <2>2 DEF IInv, DoomedIsIncomplete
<1>9. fd' # 0 /\ cEnd'[fd'] = "open" =>
        /\ Reading(fd)' => Reading(fd) /\ APos(fd)' = APos(fd)
        /\ Replying(fd)' => Replying(fd)
        /\ ToSend(fd)' = ToSend(fd)
  <2> SUFFICES ASSUME fd # 0
               PROVE  /\ Reading(fd)' => Reading(fd) /\ APos(fd)' = APos(fd)
                      /\ Replying(fd)' => Replying(fd)
                      /\ ToSend(fd)' = ToSend(fd)
    BY <1>0
  <2>1. PICK d \in Conn : d = fd /\ d = fd'
    BY <1>0 DEF TypeOK
  <2>2. /\ Reading(fd)' = Reading(d)' /\ Reading(fd) = Reading(d) /\ APos(fd)' = APos(d)'
        /\ APos(fd) = APos(d) /\ Replying(fd)' = Replying(d)' /\ Replying(fd) = Replying(d)
    BY <2>1 DEF Reading, APos, Replying, ToSend
  <2>3. ToSend(fd)' = ToSend(fd)
    BY <1>0 DEF ToSend
  <2> QED
    BY <1>4, <2>2, <2>3
<1>10. Turn'
  BY <1>0, <1>9 DEF IInv, Turn, Sending, Awaiting, CPos, EndAt
<1>11. ReplyInStep'
  BY <1>0, <1>9 DEF IInv, ReplyInStep, CPos, EndAt
<1>12. CliSide' /\ Received'
  BY <1>0 DEF IInv, CliSide, Received, Whole, HasData, Awaiting, CPos, Answers, Reply
<1>13. Replies'
  <2>1. \A d \in Conn : aPc'[d] \in {"sendPoll", "send"} => aPc[d] \in {"sendPoll", "send"} /\ aBuf'[d] = aBuf[d]
    BY <1>0 DEF AgentMoves
  <2> QED
    BY <1>0, <1>1, <2>1, RepliesFrame DEF IInv
<1>14. AckIsTrue'
  BY <1>0 DEF IInv, AckIsTrue
<1> QED
  BY <1>4, <1>5, <1>6, <1>7, <1>8, <1>10, <1>11, <1>12, <1>13, <1>14 DEF IInv

LEMMA MovesKeep ==
  ASSUME TypeOK, TypeOK', IInv, NEW c \in Conn,
         \/ Accept(c) \/ AgentPoll(c) \/ AgentTimeout(c) \/ AgentEnd(c) \/ AgentLength(c)
         \/ AgentNoBuffer(c) \/ AgentSendFail(c) \/ AgentSent(c)
  PROVE  IInv'
<1> SUFFICES AgentMoves(c)
  BY MoveKeeps
<1>0. /\ aNeed[c] \in Nat /\ aBuf[c].messageLen \in Nat /\ SrvSide(c)
      /\ \A d \in Conn : aPc[d] # "" /\ aNeed[d] \in Nat /\ aSize[d] \in Nat
  BY DEF TypeOK, Message, IInv
<1>1. CASE Accept(c)
  <2>1. aPc[c] = "off"
    BY <1>1 DEF Accept, IInv, Ends
  <2>2. aPc'[c] = "lenPoll" /\ aNeed'[c] = 4 /\ sEnd'[c] = "open"
    BY <1>1 DEF Accept, AWant, AGoto, SizeofInt, TypeOK
  <2>3. APos(c)' = APos(c) /\ ~Replying(c)' /\ Reading(c) /\ aNeed'[c] \in 0..SizeofInt
    BY <2>1, <2>2 DEF APos, Replying, Reading, SizeofInt
  <2> QED
    BY <1>1, <2>2, <2>3 DEF Accept, AWant, AGoto, AgentMoves, TypeOK
<1>2. CASE AgentPoll(c)
  <2>1. aPc[c] \in {"lenPoll", "bodyPoll", "sendPoll"} /\ sEnd[c] \in {"backlog", "open"} /\ Reading(c)
        /\ sEnd[c] = "open"
    BY <1>2 DEF AgentPoll, IInv, Ends, Reading, TypeOK
  <2>2. UNCHANGED <<aNeed, aSize, sEnd, aBuf, aReply, aSent, aNeed>>
    BY <1>2 DEF AgentPoll, wireVars
  <2>3. \/ aPc'[c] = "close"
        \/ aPc[c] = "lenPoll" /\ aPc'[c] = "len"
        \/ aPc[c] = "bodyPoll" /\ aPc'[c] = "body"
        \/ aPc[c] = "sendPoll" /\ aPc'[c] = "send"
    BY <1>2 DEF AgentPoll, AGoto, TypeOK
  <2>4. CASE aPc'[c] # "close"
    <3>1. APos(c)' = APos(c) /\ (Replying(c)' => Replying(c))
      BY <2>2, <2>3, <2>4 DEF APos, Replying, ToSend
    <3>2. /\ aPc'[c] \in {"lenPoll", "len"} => aNeed'[c] \in 0..SizeofInt
          /\ aPc'[c] \in {"bodyPoll", "body"} => /\ aNeed'[c] \in 0..(aBuf[c].messageLen - SizeofInt)
                                                 /\ aBuf[c].messageLen + 1 <= aSize'[c]
      BY <1>0, <2>1, <2>2, <2>3, <2>4 DEF SrvSide
    <3> QED
      BY <1>2, <2>1, <2>2, <2>3, <2>4, <3>1, <3>2 DEF AgentPoll, AGoto, AgentMoves, wireVars, TypeOK
  <2> QED
    BY <1>2, <2>1, <2>2, <2>4 DEF AgentPoll, AGoto, AgentMoves, wireVars, TypeOK
<1>3. CASE AgentTimeout(c)
  <2>1. aPc[c] \in {"len", "body", "send"} /\ sEnd[c] = "open" /\ Reading(c)
    BY <1>3 DEF AgentTimeout, IInv, Ends, Reading, TypeOK
  <2>2. UNCHANGED <<aNeed, aSize, sEnd, aBuf, aReply, aSent, aNeed>>
    BY <1>3 DEF AgentTimeout, wireVars
  <2>3. \/ aPc[c] = "len" /\ aPc'[c] = "lenPoll"
        \/ aPc[c] = "body" /\ aPc'[c] = "bodyPoll"
        \/ aPc[c] = "send" /\ aPc'[c] = "sendPoll"
    BY <1>3 DEF AgentTimeout, AGoto, TypeOK
  <2>4. APos(c)' = APos(c) /\ (Replying(c)' => Replying(c))
    BY <2>2, <2>3 DEF APos, Replying, ToSend
  <2>5. /\ aPc'[c] \in {"lenPoll", "len"} => aNeed'[c] \in 0..SizeofInt
        /\ aPc'[c] \in {"bodyPoll", "body"} => /\ aNeed'[c] \in 0..(aBuf[c].messageLen - SizeofInt)
                                               /\ aBuf[c].messageLen + 1 <= aSize'[c]
    BY <1>0, <2>1, <2>2, <2>3 DEF SrvSide
  <2>6. \A d \in Conn : d # c => aPc'[d] = aPc[d]
    BY <1>3 DEF AgentTimeout, AGoto, TypeOK
  <2> QED
    BY <1>3, <2>1, <2>2, <2>3, <2>4, <2>5, <2>6 DEF AgentTimeout, AgentMoves, wireVars
<1>4. CASE AgentEnd(c) \/ AgentNoBuffer(c) \/ AgentSendFail(c)
  <2>1. aPc[c] \in {"len", "body", "send"} /\ Reading(c) /\ aPc' = [aPc EXCEPT ![c] = "close"]
    BY <1>4 DEF AgentEnd, AgentNoBuffer, AgentSendFail, AGoto, Reading
  <2>2. UNCHANGED <<shellVars, wireVars, aBuf, aNeed, aSize, aReply, aSent, execs, stored, unbuilt>>
    BY <1>4 DEF AgentEnd, AgentNoBuffer, AgentSendFail
  <2> QED
    BY <2>1, <2>2 DEF AgentMoves, wireVars, TypeOK
<1>5. CASE AgentLength(c)
  <2>1. aPc[c] = "len" /\ aNeed[c] = 0 /\ sEnd[c] = "open" /\ Reading(c)
    BY <1>5 DEF AgentLength, IInv, Ends, Reading, TypeOK
  <2>2. UNCHANGED <<shellVars, wireVars, aBuf, aReply, aSent, execs, stored, unbuilt>>
    BY <1>5 DEF AgentLength
  <2>3. CASE AGoto(c, "close") /\ UNCHANGED <<aNeed, aSize>>
    BY <2>1, <2>2, <2>3 DEF AGoto, AgentMoves, wireVars, TypeOK
  <2>4. CASE /\ ~(aBuf[c].messageLen < SizeofInt)
             /\ aSize' = [aSize EXCEPT ![c] = IF @ < aBuf[c].messageLen + 1
                                              THEN RoundUp(aBuf[c].messageLen + 1, AgentBuf) ELSE @]
             /\ AWant(c, "bodyPoll", aBuf[c].messageLen - SizeofInt)
    <3> DEFINE len == aBuf[c].messageLen
    <3>0. \A x \in Nat : ~(x < SizeofInt) => x >= 4
      BY DEF SizeofInt
    <3>1. len \in Nat /\ len >= 4 /\ aSize[c] \in Nat
      <4>1. len \in Nat /\ ~(len < SizeofInt) /\ aSize[c] \in Nat
        BY <1>0, <2>4
      <4> QED
        BY <3>0, <4>1
    <3>2. RoundUp(len + 1, AgentBuf) \in Nat /\ RoundUp(len + 1, AgentBuf) >= len + 1
      BY <3>1, RoundsUp
    <3>3. aPc'[c] = "bodyPoll" /\ aNeed'[c] = len - SizeofInt
      BY <2>4 DEF AWant, AGoto, TypeOK
    <3>4. aSize'[c] = IF aSize[c] < len + 1 THEN RoundUp(len + 1, AgentBuf) ELSE aSize[c]
      BY <2>4 DEF TypeOK
    <3>5. len + 1 <= aSize'[c]
      BY <3>1, <3>2, <3>4
    <3>6. APos(c) = 4 /\ APos(c)' = len - (len - SizeofInt)
      BY <2>1, <2>2, <3>3 DEF APos, SizeofInt
    <3>7. len - SizeofInt \in 0..(len - SizeofInt) /\ len - (len - SizeofInt) = 4
      BY <3>1 DEF SizeofInt
    <3>8. ~Replying(c)'
      BY <3>3 DEF Replying
    <3>9. \A d \in Conn : d # c => aPc'[d] = aPc[d] /\ aNeed'[d] = aNeed[d] /\ aSize'[d] = aSize[d]
      BY <2>4 DEF AWant, AGoto, TypeOK
    <3> QED
      BY <2>1, <2>2, <3>3, <3>5, <3>6, <3>7, <3>8, <3>9 DEF AgentMoves, wireVars
  <2> QED
    BY <1>5, <2>3, <2>4 DEF AgentLength
<1>6. CASE AgentSent(c)
  <2>1. aPc[c] = "send" /\ sEnd[c] = "open" /\ Reading(c)
    BY <1>6 DEF AgentSent, IInv, Ends, Reading, TypeOK
  <2>2. aPc'[c] = "lenPoll" /\ aNeed'[c] = 4
    BY <1>6 DEF AgentSent, AWant, AGoto, SizeofInt, TypeOK
  <2>3. APos(c)' = APos(c) /\ ~Replying(c)' /\ aNeed'[c] \in 0..SizeofInt
    BY <2>1, <2>2 DEF APos, Replying, SizeofInt
  <2> QED
    BY <1>6, <2>1, <2>2, <2>3 DEF AgentSent, AWant, AGoto, AgentMoves, wireVars, TypeOK
<1> QED
  BY <1>1, <1>2, <1>3, <1>4, <1>5, <1>6

LEMMA AgentPartKeeps ==
  ASSUME TypeOK, TypeOK', IInv, NEW c \in Conn, AgentPart(c)
  PROVE  IInv'
<1> DEFINE s == toSrv[c]
           t == AfterTake(toSrv[c], aNeed[c])
           k == Taken(toSrv[c], aNeed[c])
           m == toSrv[c][1].m
<1>0. /\ aPc[c] \in {"len", "body"} /\ aNeed[c] > 0 /\ HasData(s)
      /\ aBuf' = [aBuf EXCEPT ![c] = m] /\ aNeed' = [aNeed EXCEPT ![c] = aNeed[c] - k]
      /\ toSrv' = [toSrv EXCEPT ![c] = t]
      /\ UNCHANGED <<cPc, fd, req, op, sendBuf, sent, recvBuf, cNeed, result, answered, toCli, cEnd, sEnd,
                     aPc, aSize, aReply, aSent, execs, stored, unbuilt>>
  BY DEF AgentPart, shellVars
<1>01. /\ s \in Stream /\ aNeed[c] \in Nat /\ Reading(c) /\ Reading(c)' /\ ~Replying(c)'
       /\ aBuf'[c] = m /\ aNeed'[c] = aNeed[c] - k /\ toSrv'[c] = t
  BY <1>0 DEF TypeOK, Reading, Replying
<1>02. /\ Whole(s) /\ s[1].off = APos(c) /\ Request(m)
       /\ APos(c) > 0 => m = aBuf[c]
  BY <1>0, <1>01 DEF IInv, SrvSide
<1>03. /\ t \in Stream /\ Whole(t) /\ k \in Nat /\ k > 0 /\ k <= aNeed[c] /\ k <= s[1].n
       /\ HasData(t) => t[1].off = s[1].off + k /\ t[1].m = m
       /\ AllData(s) => AllData(t) /\ EndAt(t, s[1].off + k) = EndAt(s, 0)
  BY <1>0, <1>01, <1>02, WholeTake
<1> HIDE DEF t, k
<1>1. m.messageLen \in Nat
  BY <1>02 DEF Request, Message
<1>2. /\ APos(c) \in Nat /\ APos(c)' = APos(c) + k
      /\ aPc[c] = "len" => aNeed[c] - k \in 0..SizeofInt
      /\ aPc[c] = "body" => aBuf[c] = m /\ aNeed[c] - k \in 0..(m.messageLen - SizeofInt)
  <2>1. CASE aPc[c] = "len"
    <3>1. APos(c) = 4 - aNeed[c] /\ APos(c)' = 4 - (aNeed[c] - k) /\ aNeed[c] \in 0..4
      BY <1>0, <1>01, <2>1 DEF APos, SizeofInt, IInv, SrvSide
    <3> QED
      BY <1>01, <1>03, <2>1, <3>1 DEF SizeofInt
  <2>2. CASE aPc[c] = "body"
    <3>1. aNeed[c] \in 0..(aBuf[c].messageLen - 4) /\ aBuf[c].messageLen \in Nat
      BY <1>01, <2>2, Elements DEF IInv, SrvSide, SizeofInt
    <3>2. APos(c) = aBuf[c].messageLen - aNeed[c] /\ APos(c) > 0 /\ APos(c) \in Nat
      BY <1>01, <2>2, <3>1 DEF APos
    <3>3. aBuf[c] = m
      BY <1>02, <3>2
    <3>4. APos(c)' = aBuf[c].messageLen - (aNeed[c] - k)
      BY <1>0, <1>01, <2>2, <3>3 DEF APos
    <3>5. aNeed[c] - k \in 0..(aBuf[c].messageLen - 4) /\ APos(c)' = APos(c) + k
      BY <1>01, <1>03, <3>1, <3>2, <3>4
    <3> QED
      BY <2>2, <3>2, <3>3, <3>5 DEF SizeofInt
  <2> QED
    BY <1>0, <2>1, <2>2
<1>3. APos(c)' > 0
  BY <1>03, <1>2
<1>4. Kept /\ \A d \in Conn : d # c => SrvSame(d)
  BY <1>0 DEF Kept, SrvSame, TypeOK
<1>5. \A d \in Conn : d # c => /\ SrvSide(d)' /\ Carry(d)' = Carry(d) /\ APos(d)' = APos(d)
                               /\ Reading(d)' <=> Reading(d)
  BY <1>4, SrvFrame DEF IInv
<1>6. Carry(c)' = {m.for} /\ Carry(c) = {m.for}
  <2>1. Carry(c)' = IF HasData(t) THEN {t[1].m.for} ELSE {m.for}
    BY <1>01, <1>3 DEF Carry, HasData
  <2> QED
    BY <1>0, <1>01, <1>03, <2>1 DEF Carry
<1>7. SrvSide(c)'
  <2>1. m \in Message /\ m.messageLen >= SizeofHeader /\ m.for \in 1..req' /\ m.opCode = op'[m.for]
    BY <1>0, <1>02 DEF Request
  <2>2. Request(aBuf[c])'
    BY <1>01, <2>1 DEF Request
  <2>3. HasData(t) => Request(toSrv[c][1].m)'
    BY <1>01, <1>03, <2>1 DEF Request
  <2>4. Whole(toSrv[c])' /\ (HasData(toSrv[c])' <=> HasData(t))
    BY <1>01, <1>03 DEF Whole, HasData
  <2>5. /\ aPc'[c] \in {"lenPoll", "len"} => aNeed'[c] \in 0..SizeofInt
        /\ aPc'[c] \in {"bodyPoll", "body"} => /\ aNeed'[c] \in 0..(aBuf'[c].messageLen - SizeofInt)
                                               /\ aBuf'[c].messageLen + 1 <= aSize'[c]
    <3>1. aPc[c] = "body" => aBuf[c].messageLen + 1 <= aSize[c]
      BY <1>01 DEF IInv, SrvSide
    <3> QED
      BY <1>0, <1>01, <1>2, <3>1
  <2>6. HasData(t) => toSrv'[c][1].off = APos(c)' /\ toSrv'[c][1].m = aBuf'[c]
    BY <1>01, <1>02, <1>03, <1>2
  <2> QED
    BY <2>2, <2>3, <2>4, <2>5, <2>6 DEF SrvSide
<1>8. \A d \in Conn : SrvSide(d)' /\ Carry(d)' = Carry(d)
  BY <1>5, <1>6, <1>7
<1>9. CarriedOnce'
  BY <1>0, <1>8 DEF IInv, CarriedOnce, Busy
<1>10. Ends'
  <2>1. sEnd[c] \notin {"none", "closed"} /\ cEnd[c] # "reset" /\ (cEnd[c] = "open" => AllData(t))
    BY <1>0, <1>03 DEF IInv, Ends
  <2>2. ASSUME NEW d \in Conn
        PROVE  /\ cEnd[d] \in {"open", "reset"} <=> d = fd
               /\ cEnd[d] = "none" <=> sEnd[d] = "none"
               /\ sEnd[d] \in {"none", "backlog"} <=> aPc[d] = "off"
               /\ sEnd[d] = "closed" <=> aPc[d] = "done"
               /\ d # fd => toCli[d] = <<>>
               /\ sEnd[d] \in {"none", "closed"} => toSrv'[d] = <<>>
               /\ cEnd[d] = "open" => AllData(toSrv'[d])
               /\ cEnd[d] = "open" /\ sEnd[d] # "closed" => AllData(toCli[d])
               /\ cEnd[d] = "reset" => ~HasData(toSrv'[d])
    <3>1. CASE d = c
      BY <1>01, <2>1, <3>1 DEF IInv, Ends
    <3>2. CASE d # c
      BY <1>4, <3>2 DEF IInv, Ends, SrvSame
    <3> QED
      BY <3>1, <3>2
  <2> QED
    BY <1>0, <2>2 DEF IInv, Ends, Busy
<1>11. Requests'
  BY <1>0 DEF IInv, Requests, Busy, Sending, Request
<1>12. DoomedIsIncomplete'
  <2> SUFFICES ASSUME NEW n \in Req, Doomed(n)'
               PROVE  /\ execs[n] = 0
                      /\ \A d \in Conn : n \in Carry(d)' =>
                           ~HasData(toSrv'[d]) /\ cEnd[d] # "open" /\ APos(d)' < aBuf'[d].messageLen
    BY <1>0 DEF DoomedIsIncomplete
  <2>1. Doomed(n)
    BY <1>0 DEF Doomed, Sending
  <2>2. ASSUME NEW d \in Conn, n \in Carry(d)'
        PROVE  ~HasData(toSrv'[d]) /\ cEnd[d] # "open" /\ APos(d)' < aBuf'[d].messageLen
    <3>1. n \in Carry(d) /\ d # c
      BY <1>0, <1>8, <2>1, <2>2 DEF IInv, DoomedIsIncomplete
    <3> QED
      BY <1>4, <1>5, <2>1, <3>1 DEF IInv, DoomedIsIncomplete, SrvSame
  <2> QED
    BY <2>1, <2>2 DEF IInv, DoomedIsIncomplete
<1>13. ASSUME fd # 0, cEnd[fd] = "open"
       PROVE  Turn' /\ ReplyInStep'
  <2>1. CASE fd = c
    <3>1. /\ Reading(fd)' /\ APos(fd)' = APos(c)' /\ ~Replying(fd)'
      BY <1>0, <1>01, <2>1 DEF Reading, APos, Replying, ToSend
    <3>2. s # <<>> /\ AllData(s)
      BY <1>0, <1>13, <2>1 DEF HasData, IInv, Ends
    <3>3. /\ Sending \/ (Awaiting /\ execs[req] = 0)
          /\ m = sendBuf /\ EndAt(s, APos(c)) = sent /\ toCli[c] = <<>> /\ CPos = 0
      BY <1>01, <1>13, <2>1, <3>2 DEF IInv, Turn
    <3>4. EndAt(t, APos(c)') = sent
      BY <1>02, <1>03, <1>2, <3>2, <3>3 DEF EndAt
    <3>5. t # <<>> => t[1].m = sendBuf
      BY <1>03, <3>2, <3>3, DataFirst
    <3>6. CPos' = 0 /\ (Sending' \/ (Awaiting' /\ execs'[req'] = 0))
      BY <1>0, <3>3 DEF CPos, Sending, Awaiting
    <3>7. EndAt(toSrv[fd], APos(fd))' = sent'
      BY <1>0, <1>01, <2>1, <3>1, <3>4 DEF EndAt
    <3>8. Turn'
      BY <1>0, <1>01, <2>1, <3>1, <3>3, <3>5, <3>6, <3>7 DEF Turn
    <3> QED
      BY <3>1, <3>8 DEF ReplyInStep
  <2>2. CASE fd # c
    <3>1. PICK d \in Conn : d = fd /\ d # c
      BY <1>13, <2>2 DEF TypeOK
    <3>2. /\ Reading(fd)' <=> Reading(fd)
          /\ APos(fd)' = APos(fd)
      BY <1>0, <1>4, <3>1 DEF Reading, APos, SrvSame
    <3>3. toSrv'[fd] = toSrv[fd] /\ aBuf'[fd] = aBuf[fd] /\ (Replying(fd)' <=> Replying(fd))
      BY <1>0, <1>4, <3>1 DEF SrvSame, Replying, ToSend
    <3>4. Turn'
      BY <1>0, <1>13, <3>2, <3>3 DEF IInv, Turn, Sending, Awaiting, CPos, EndAt
    <3>5. ReplyInStep'
      BY <1>0, <1>13, <3>2, <3>3 DEF IInv, ReplyInStep, CPos, EndAt, ToSend
    <3> QED
      BY <3>4, <3>5
  <2> QED
    BY <2>1, <2>2
<1>14. Turn' /\ ReplyInStep'
  BY <1>0, <1>13 DEF Turn, ReplyInStep
<1>15. CliSide' /\ Received'
  <2>1. fd # 0 /\ HasData(toCli[fd]) => toSrv'[fd] = toSrv[fd]
    <3> SUFFICES ASSUME fd # 0, HasData(toCli[fd]) PROVE fd \in Conn /\ fd # c
      BY <1>4 DEF SrvSame
    <3>1. toSrv[fd] = <<>>
      BY DEF IInv, CliSide
    <3> QED
      BY <1>0, <3>1 DEF HasData, TypeOK
  <2> QED
    BY <1>0, <2>1 DEF IInv, CliSide, Received, Whole, HasData, Awaiting, CPos, Answers, Reply
<1>16. Replies'
  <2>1. \A d \in Conn : aPc'[d] \in {"sendPoll", "send"} => aPc[d] \in {"sendPoll", "send"} /\ aBuf'[d] = aBuf[d]
    BY <1>0, <1>4 DEF SrvSame
  <2> QED
    BY <1>0, <1>4, <2>1, RepliesFrame DEF IInv
<1>17. AckIsTrue'
  BY <1>0 DEF IInv, AckIsTrue
<1> QED
  BY <1>8, <1>9, <1>10, <1>11, <1>12, <1>14, <1>15, <1>16, <1>17 DEF IInv

LEMMA AgentSendPartKeeps ==
  ASSUME TypeOK, TypeOK', IInv, NEW c \in Conn, AgentSendPart(c)
  PROVE  IInv'
<1> DEFINE s == toCli[c]
           m == ToSend(c)
           x == Chunk(m, aSent[c])
<1>0. /\ aPc[c] = "send" /\ aSent[c] < m.messageLen
      /\ aSent' = [aSent EXCEPT ![c] = PartEnd(m, aSent[c])]
      /\ cEnd[c] # "open" => toCli' = toCli
      /\ cEnd[c] = "open" => toCli' = [toCli EXCEPT ![c] = Append(s, x)]
      /\ UNCHANGED <<cPc, fd, req, op, sendBuf, sent, recvBuf, cNeed, result, answered, toSrv, cEnd, sEnd,
                     aPc, aBuf, aNeed, aSize, aReply, execs, stored, unbuilt>>
  BY DEF AgentSendPart, shellVars
<1>01. /\ s \in Stream /\ aSent[c] \in Nat /\ m \in Message /\ m.messageLen \in Nat /\ Replying(c) /\ Reading(c)
       /\ aSent'[c] = PartEnd(m, aSent[c]) /\ ToSend(c)' = m
       /\ cEnd[c] = "open" => toCli'[c] = Append(s, x)
       /\ \A d \in Conn : d # c => toCli'[d] = toCli[d] /\ aSent'[d] = aSent[d]
  <2>1. aSent[c] \in Nat /\ m \in Message /\ m.messageLen \in Nat
    BY ToSendType DEF Message
  <2> QED
    BY <1>0, <2>1 DEF TypeOK, Replying, Reading, ToSend
<1>02. /\ x \in ChunkT /\ x.kind = "data" /\ x.m = m /\ x.off = aSent[c] /\ x.n > 0
       /\ x.off + x.n = aSent'[c] /\ aSent'[c] > aSent[c]
       /\ m.messageLen >= SizeofInt => x.off + x.n <= m.messageLen
  BY <1>0, <1>01, PartType
<1> HIDE DEF x
<1>1. Reply(m)
  <2>1. CASE aReply[c].content = Uninitialised
    <3>1. /\ m.messageLen = 16 /\ m.returnCode = "EDB_SYS" /\ m.for = 0
      BY <2>1 DEF ToSend, Junk, Zero, SizeofReply
    <3>2. 16 \in SizeofReply..RECV_BUF_SIZE
      BY DEF SizeofReply, RECV_BUF_SIZE
    <3>3. 0 \in 0..req
      BY DEF TypeOK
    <3> QED
      BY <1>01, <3>1, <3>2, <3>3 DEF Reply, FailCodes
  <2>2. CASE aReply[c].content # Uninitialised
    BY <2>2 DEF IInv, Replies, ToSend
  <2> QED
    BY <2>1, <2>2
<1>2. x.off + x.n <= x.m.messageLen
  <2>1. m.messageLen >= 16
    BY <1>1, ReplyLength
  <2>2. \A h \in Nat : h >= 16 => h >= SizeofInt
    BY DEF SizeofInt
  <2> QED
    BY <1>01, <1>02, <2>1, <2>2
<1>3. Kept /\ \A d \in Conn : SrvSame(d)
  BY <1>0 DEF Kept, SrvSame, TypeOK
<1>4. \A d \in Conn : /\ SrvSide(d)' /\ Carry(d)' = Carry(d) /\ APos(d)' = APos(d)
                      /\ Reading(d)' <=> Reading(d)
  BY <1>3, SrvFrame DEF IInv
<1>5. \A d \in Conn : Replying(d)' => Replying(d)
  BY <1>0, <1>01 DEF Replying, ToSend
<1>6. ASSUME cEnd[c] = "open"
      PROVE  /\ fd = c /\ toSrv[c] = <<>> /\ APos(c) = 0 /\ Awaiting /\ ~Sending /\ execs[req] # 0
             /\ AllData(s) /\ Whole(s) /\ Answers(m)
             /\ EndAt(s, CPos) = aSent[c]
             /\ s # <<>> => s[1].m = m /\ s[1].off = CPos
             /\ CPos > 0 => recvBuf = m
  <2>1. fd = c /\ fd # 0
    BY <1>6 DEF IInv, Ends, Conn
  <2>2. sEnd[c] # "closed" /\ AllData(s)
    BY <1>0, <1>6 DEF IInv, Ends
  <2>3. /\ toSrv[c] = <<>> /\ APos(c) = 0 /\ Awaiting /\ execs[req] # 0 /\ ~Sending
    BY <1>01, <1>6, <2>1 DEF IInv, Turn
  <2>4. Whole(s) /\ (s # <<>> => s[1].off = CPos)
    BY <1>01, <2>1, <2>2, DataFirst DEF IInv, CliSide
  <2>5. /\ aBuf[c].for = req /\ EndAt(s, CPos) = aSent[c] /\ (s # <<>> => s[1].m = m)
        /\ CPos > 0 => recvBuf = m
    BY <1>01, <1>6, <2>1 DEF IInv, ReplyInStep
  <2>6. c \notin unbuilt => m.for = req
    BY <1>0, <2>5 DEF IInv, Replies, ToSend
  <2> QED
    BY <1>1, <2>1, <2>2, <2>3, <2>4, <2>5, <2>6 DEF Answers
<1>7. ASSUME cEnd[c] = "open"
      PROVE  LET t == toCli'[c] IN
             /\ Whole(t) /\ AllData(t) /\ HasData(t) /\ t # <<>> /\ t[1].m = m /\ t[1].off = CPos
             /\ EndAt(t, CPos) = aSent'[c]
  <2>1. s # <<>> => s[1].m = x.m /\ EndAt(s, 0) = x.off
    BY <1>02, <1>6, <1>7 DEF EndAt
  <2>2. /\ Append(s, x) # <<>> /\ Append(s, x)[1] = (IF s = <<>> THEN x ELSE s[1])
        /\ Whole(Append(s, x)) /\ EndAt(Append(s, x), 0) = x.off + x.n
    BY <1>01, <1>02, <1>2, <1>6, <1>7, <2>1, WholeAppend
  <2>3. AllData(Append(s, x)) /\ HasData(Append(s, x))
    BY <1>01, <1>02, <1>6, <1>7, AppendData
  <2>4. Append(s, x)[1].m = m /\ Append(s, x)[1].off = CPos
    BY <1>02, <1>6, <1>7, <2>2 DEF EndAt
  <2>5. EndAt(Append(s, x), CPos) = aSent'[c]
    BY <1>02, <2>2 DEF EndAt
  <2> QED
    BY <1>01, <1>7, <2>2, <2>3, <2>4, <2>5
<1>8. CarriedOnce'
  BY <1>0, <1>4 DEF IInv, CarriedOnce, Busy
<1>9. Ends'
  <2>1. ASSUME NEW d \in Conn
        PROVE  /\ d # fd => toCli'[d] = <<>>
               /\ cEnd[d] = "open" /\ sEnd[d] # "closed" => AllData(toCli'[d])
    <3>1. CASE d = c /\ cEnd[c] = "open"
      BY <1>6, <1>7, <3>1
    <3>2. CASE d # c \/ cEnd[c] # "open"
      BY <1>0, <1>01, <3>2 DEF IInv, Ends
    <3> QED
      BY <3>1, <3>2
  <2> QED
    BY <1>0, <2>1 DEF IInv, Ends, Busy
<1>10. Requests'
  BY <1>0 DEF IInv, Requests, Busy, Sending, Request
<1>11. DoomedIsIncomplete'
  BY <1>0, <1>4, DoomedFrame DEF IInv, Doomed, Sending
<1>12. CPos' = CPos /\ (Sending' <=> Sending) /\ (Awaiting' <=> Awaiting)
  BY <1>0 DEF CPos, Sending, Awaiting
<1>13. Turn' /\ ReplyInStep'
  <2>1. CASE cEnd[c] = "open"
    <3>1. /\ Reading(fd)' /\ APos(fd)' = 0 /\ (Replying(fd)' => Replying(c)) /\ ToSend(fd)' = m
      BY <1>0, <1>01, <1>4, <1>5, <1>6, <2>1 DEF Reading, APos, Replying, ToSend
    <3>2. aBuf[c].for = req
      BY <1>01, <1>6, <2>1 DEF IInv, ReplyInStep, Conn
    <3>3. Turn'
      BY <1>0, <1>6, <1>12, <2>1, <3>1 DEF Turn
    <3>4. EndAt(toCli[fd], CPos)' = aSent'[c]
      BY <1>0, <1>6, <1>7, <1>12, <2>1 DEF EndAt
    <3>5. ReplyInStep'
      BY <1>0, <1>6, <1>7, <1>12, <2>1, <3>1, <3>2, <3>4 DEF ReplyInStep
    <3> QED
      BY <3>3, <3>5
  <2>2. CASE cEnd[c] # "open"
    <3> SUFFICES ASSUME fd # 0, cEnd[fd] = "open" PROVE Turn' /\ ReplyInStep'
      BY <1>0 DEF Turn, ReplyInStep
    <3>1. PICK d \in Conn : d = fd /\ d # c
      BY <2>2 DEF TypeOK
    <3>2. /\ (Reading(fd)' <=> Reading(fd)) /\ APos(fd)' = APos(fd)
          /\ (Replying(fd)' <=> Replying(fd)) /\ aSent'[fd] = aSent[fd] /\ ToSend(fd)' = ToSend(fd)
      BY <1>0, <1>01, <3>1 DEF Reading, APos, Replying, ToSend
    <3>3. toCli' = toCli
      BY <1>0, <2>2
    <3>4. Turn'
      BY <1>0, <1>12, <3>2, <3>3 DEF IInv, Turn, EndAt
    <3>5. ReplyInStep'
      BY <1>0, <1>12, <3>2, <3>3 DEF IInv, ReplyInStep, EndAt
    <3> QED
      BY <3>4, <3>5
  <2> QED
    BY <2>1, <2>2
<1>14. CliSide'
  <2>1. CASE cEnd[c] = "open"
    <3>1. Answers(toCli[fd][1].m)'
      BY <1>0, <1>6, <1>7, <2>1 DEF Answers, Reply
    <3>0. fd' = c /\ fd = c /\ cEnd' = cEnd /\ toSrv' = toSrv /\ recvBuf' = recvBuf
      BY <1>0, <1>6, <2>1
    <3>2. Whole(toCli'[fd'])
      BY <1>7, <2>1, <3>0
    <3>3. cEnd'[fd'] = "open" /\ Awaiting' /\ toSrv'[fd'] = <<>>
      BY <1>6, <1>12, <2>1, <3>0
    <3>4. toCli'[fd'][1].off = CPos'
      BY <1>7, <1>12, <2>1, <3>0
    <3>5. CPos' > 0 => toCli'[fd'][1].m = recvBuf'
      <4>1. toCli'[fd'][1].m = m
        BY <1>7, <2>1, <3>0
      <4> QED
        BY <1>6, <1>12, <2>1, <3>0, <4>1
    <3> QED
      BY <3>1, <3>2, <3>3, <3>4, <3>5 DEF CliSide
  <2>2. CASE cEnd[c] # "open"
    BY <1>0, <2>2 DEF IInv, CliSide, Whole, HasData, Awaiting, CPos, Answers, Reply
  <2> QED
    BY <2>1, <2>2
<1>15. Received'
  BY <1>0 DEF IInv, Received, Answers, Reply
<1>16. Replies'
  BY <1>0, <1>3, RepliesFrame DEF IInv
<1>17. AckIsTrue'
  BY <1>0 DEF IInv, AckIsTrue
<1> QED
  BY <1>4, <1>8, <1>9, <1>10, <1>11, <1>13, <1>14, <1>15, <1>16, <1>17 DEF IInv

\* What an agent leaves behind when it has processed its packet: the request is counted,
\* and the result buffer holds the reply to it unless it is among the unbuilt.
LEMMA WorkResult ==
  ASSUME TypeOK, TypeOK', NEW c \in Conn, Request(aBuf[c]), Replies, AgentWork(c)
  PROVE  /\ aPc[c] = "body" /\ aNeed[c] = 0
         /\ UNCHANGED <<cPc, fd, req, op, sendBuf, sent, recvBuf, cNeed, result, answered, toSrv, toCli,
                        cEnd, sEnd, aBuf, aNeed, aSize>>
         /\ aPc'[c] \in {"close", "sendPoll"} /\ \A d \in Conn : d # c => aPc'[d] = aPc[d]
         /\ aSent' = [aSent EXCEPT ![c] = 0]
         /\ execs' = [execs EXCEPT ![aBuf[c].for] = @ + 1]
         /\ stored \subseteq stored' /\ unbuilt \subseteq unbuilt'
         /\ \A d \in Conn : d # c => aReply'[d] = aReply[d] /\ (d \in unbuilt' => d \in unbuilt)
         /\ aReply'[c].content # Uninitialised =>
              Reply(aReply[c].content)' /\ aReply'[c].content.messageLen <= aReply'[c].size
         /\ c \notin unbuilt' /\ aPc'[c] = "sendPoll" =>
              aReply'[c].content # Uninitialised /\ aReply'[c].content.for = aBuf[c].for
<1>1. /\ aPc[c] = "body" /\ aNeed[c] = 0 /\ aSent' = [aSent EXCEPT ![c] = 0]
      /\ UNCHANGED <<cPc, fd, req, op, sendBuf, sent, recvBuf, cNeed, result, answered, toSrv, toCli,
                     cEnd, sEnd, aBuf, aNeed, aSize>>
  BY DEF AgentWork, shellVars, wireVars
<1>2. PICK oom \in BOOLEAN, ins \in RtnInsert :
         LET small == IF aReply[c].size > SizeofReply THEN Fresh ELSE aReply[c]
             p == Process(aBuf[c], ins)
             b == msgBuildReply(small, oom, p.rc, p.objs)
         IN /\ aReply' = [aReply EXCEPT ![c] =
                            IF p.disconnect THEN small
                            ELSE IF b.rc # EDB_OK THEN b.buf
                            ELSE [b.buf EXCEPT !.content.for = aBuf[c].for]]
            /\ unbuilt' = IF ~p.disconnect /\ b.rc # EDB_OK THEN unbuilt \cup {c} ELSE unbuilt
            /\ execs' = [execs EXCEPT ![aBuf[c].for] = @ + 1]
            /\ stored' = IF p.insert /\ ins = EDB_OK THEN stored \cup {aBuf[c].for} ELSE stored
            /\ AGoto(c, IF p.disconnect THEN "close" ELSE "sendPoll")
  BY DEF AgentWork
<1> DEFINE small == IF aReply[c].size > SizeofReply THEN Fresh ELSE aReply[c]
           p == Process(aBuf[c], ins)
           b == msgBuildReply(small, oom, p.rc, p.objs)
           made == [b.buf EXCEPT !.content.for = aBuf[c].for]
<1>3. /\ aReply' = [aReply EXCEPT ![c] = IF p.disconnect THEN small
                                         ELSE IF b.rc # EDB_OK THEN b.buf ELSE made]
      /\ unbuilt' = IF ~p.disconnect /\ b.rc # EDB_OK THEN unbuilt \cup {c} ELSE unbuilt
      /\ execs' = [execs EXCEPT ![aBuf[c].for] = @ + 1]
      /\ stored' = IF p.insert /\ ins = EDB_OK THEN stored \cup {aBuf[c].for} ELSE stored
      /\ aPc' = [aPc EXCEPT ![c] = IF p.disconnect THEN "close" ELSE "sendPoll"]
  BY <1>2 DEF AGoto
<1>4. /\ b.rc = EDB_OK => /\ made.content \in Message
                          /\ made.content.messageLen <= made.size
                          /\ made.content.messageLen \in SizeofReply..RECV_BUF_SIZE
                          /\ made.content.returnCode = p.rc
                          /\ made.content.for = aBuf[c].for
      /\ b.rc # EDB_OK => b.buf = small
  <2>1. /\ small \in [size : Nat, content : Message \cup {Uninitialised}]
        /\ b.rc = EDB_OK => /\ made \in [size : Nat, content : Message]
                            /\ made.content.messageLen <= made.size
                            /\ made.content.messageLen \in SizeofReply..RECV_BUF_SIZE
                            /\ made.content.returnCode = p.rc
                            /\ made.content.for = aBuf[c].for
        /\ b.rc # EDB_OK => b.buf = small
    <3>1. WorkMade(c, small, p, b, made)
      BY WorkReply, Zenon DEF Stamped
    <3> HIDE DEF small, p, b, made
    <3> QED
      BY <3>1 DEF WorkMade
  <2> HIDE DEF small, p, b, made
  <2>2. made \in [size : Nat, content : Message] => made.content \in Message
    OBVIOUS
  <2> QED
    BY <2>1, <2>2
<1>5. /\ p.rc \in ReplyCode
      /\ aBuf[c].opCode = OP_INSERT /\ p.rc = EDB_OK => p.insert /\ ins = EDB_OK
  <2>1. aBuf[c] \in Message
    BY Elements
  <2> QED
    BY <2>1, ProcessResult
<1>6. small.content # Uninitialised => small = aReply[c]
  BY DEF Fresh
<1> HIDE DEF small, p, b, made
<1>7. /\ stored \subseteq stored' /\ unbuilt \subseteq unbuilt'
      /\ aPc'[c] \in {"close", "sendPoll"} /\ (\A d \in Conn : d # c => aPc'[d] = aPc[d])
      /\ \A d \in Conn : d # c => aReply'[d] = aReply[d] /\ (d \in unbuilt' => d \in unbuilt)
  BY <1>3 DEF TypeOK
<1>8. Kept
  BY <1>1, <1>7 DEF Kept, TypeOK
<1>9. CASE p.disconnect \/ b.rc # EDB_OK
  <2>1. aReply'[c] = small
    BY <1>3, <1>4, <1>9 DEF TypeOK
  <2>2. ASSUME aReply'[c].content # Uninitialised
        PROVE  Reply(aReply[c].content)' /\ aReply'[c].content.messageLen <= aReply'[c].size
    <3>1. aReply'[c] = aReply[c] /\ Reply(aReply[c].content)
          /\ aReply[c].content.messageLen <= aReply[c].size
      BY <1>6, <2>1, <2>2 DEF Replies
    <3>2. Reply(aReply[c].content)'
      BY <1>8, <3>1, ReplyKept DEF Reply
    <3> QED
      BY <3>1, <3>2
  <2>3. c \in unbuilt' \/ aPc'[c] = "close"
    BY <1>3, <1>9 DEF TypeOK
  <2> QED
    BY <1>1, <1>3, <1>7, <2>2, <2>3
<1>10. CASE ~p.disconnect /\ b.rc = EDB_OK
  <2>1. aReply'[c] = made
    BY <1>3, <1>10 DEF TypeOK
  <2>2. /\ aBuf[c].for \in 1..req' /\ aBuf[c].for \in 0..req' /\ aBuf[c].opCode = op'[aBuf[c].for]
    BY <1>1 DEF Request, TypeOK
  <2>3. made.content.returnCode \notin FailCodes
    BY <1>4, <1>5, <1>10 DEF ReplyCode, FailCodes, EDB_OK, EDB_INVALIDARG
  <2>4. made.content.returnCode = EDB_OK /\ op'[made.content.for] = OP_INSERT => made.content.for \in stored'
    BY <1>3, <1>4, <1>5, <1>10, <2>2
  <2>5. Reply(aReply[c].content)'
    BY <1>4, <1>10, <2>1, <2>2, <2>3, <2>4 DEF Reply
  <2>6. aReply'[c].content # Uninitialised
    <3>1. made.content.messageLen \in SizeofReply..RECV_BUF_SIZE
      BY <1>4, <1>10
    <3>3. made.content.messageLen # 0
      BY <3>1, LengthInRange, Zenon
    <3>4. Uninitialised.messageLen = 0
      BY DEF Uninitialised
    <3> QED
      BY <2>1, <3>3, <3>4, Zenon
  <2> QED
    BY <1>1, <1>3, <1>4, <1>7, <1>10, <2>1, <2>5, <2>6
<1> QED
  BY <1>9, <1>10

LEMMA AgentWorkKeeps ==
  ASSUME TypeOK, TypeOK', IInv, NEW c \in Conn, AgentWork(c)
  PROVE  IInv'
<1> DEFINE m == aBuf[c]
           r == aBuf[c].for
<1>1. /\ aPc[c] = "body" /\ aNeed[c] = 0 /\ Reading(c) /\ m \in Message /\ m.messageLen \in Nat
      /\ APos(c) = m.messageLen /\ APos(c) > 0 /\ Request(m) /\ r \in 1..req /\ r \in Req
      /\ sEnd[c] = "open" /\ Whole(toSrv[c]) /\ toSrv[c] \in Stream
  <2>1. aPc[c] = "body" /\ aNeed[c] = 0
    BY DEF AgentWork
  <2>2. Reading(c) /\ m \in Message /\ m.messageLen \in Nat /\ toSrv[c] \in Stream
    BY <2>1, Elements DEF Reading
  <2>3. 0 \in 0..(m.messageLen - SizeofInt) /\ Whole(toSrv[c])
    BY <2>1, <2>2 DEF IInv, SrvSide
  <2>4. APos(c) = m.messageLen - 0
    BY <2>1 DEF APos
  <2>5. APos(c) = m.messageLen /\ APos(c) > 0
    BY <2>2, <2>3, <2>4 DEF SizeofInt
  <2>6. Request(m) /\ r \in 1..req
    BY <2>2, <2>5 DEF IInv, SrvSide, Request
  <2>7. r \in Req
    BY <2>6, BoundAssumption DEF TypeOK, Req
  <2>8. sEnd[c] = "open"
    BY <2>1 DEF IInv, Ends, TypeOK
  <2> QED
    BY <2>1, <2>2, <2>3, <2>5, <2>6, <2>7, <2>8
<1>2. /\ UNCHANGED <<cPc, fd, req, op, sendBuf, sent, recvBuf, cNeed, result, answered, toSrv, toCli,
                     cEnd, sEnd, aBuf, aNeed, aSize>>
      /\ aPc'[c] \in {"close", "sendPoll"} /\ \A d \in Conn : d # c => aPc'[d] = aPc[d]
      /\ aSent'[c] = 0 /\ \A d \in Conn : d # c => aSent'[d] = aSent[d]
      /\ execs' = [execs EXCEPT ![r] = @ + 1]
      /\ stored \subseteq stored' /\ unbuilt \subseteq unbuilt'
      /\ \A d \in Conn : d # c => aReply'[d] = aReply[d] /\ (d \in unbuilt' => d \in unbuilt)
      /\ aReply'[c].content # Uninitialised =>
           Reply(aReply[c].content)' /\ aReply'[c].content.messageLen <= aReply'[c].size
      /\ c \notin unbuilt' /\ aPc'[c] = "sendPoll" =>
           aReply'[c].content # Uninitialised /\ aReply'[c].content.for = r
  BY <1>1, WorkResult DEF IInv, TypeOK
<1>3. ~HasData(toSrv[c])
  <2> SUFFICES ASSUME HasData(toSrv[c]) PROVE FALSE
    OBVIOUS
  <2> DEFINE x == toSrv[c][1]
  <2>1. x.off = m.messageLen /\ x.m = m
    BY <1>1 DEF IInv, SrvSide
  <2>2. x.n > 0 /\ x.off + x.n <= m.messageLen
    BY <1>1, <2>1, FirstInside
  <2>3. x \in ChunkT
    BY <1>1, FirstType DEF HasData
  <2>4. x.n \in Nat
    BY <2>3 DEF ChunkT
  <2> DEFINE n == x.n
             len == m.messageLen
  <2>5. n \in Nat /\ len \in Nat /\ n > 0 /\ len + n <= len
    BY <1>1, <2>1, <2>2, <2>4
  <2> HIDE DEF n, len
  <2> QED
    BY <2>5
<1>4. Carry(c) = {r} /\ execs[r] = 0 /\ (Busy /\ c # fd => r # req) /\ \A d \in Conn : d # c => r \notin Carry(d)
  <2>1. Carry(c) = {r}
    BY <1>1, <1>3 DEF Carry
  <2> QED
    BY <2>1 DEF IInv, CarriedOnce
<1>5. execs'[r] = 1 /\ (\A n \in Req : n # r => execs'[n] = execs[n]) /\ \A n \in Req : execs[n] # 0 => execs'[n] # 0
  <2>1. execs'[r] = 1
    BY <1>1, <1>2, <1>4 DEF TypeOK
  <2>2. \A n \in Req : n # r => execs'[n] = execs[n]
    BY <1>2 DEF TypeOK
  <2> QED
    BY <2>1, <2>2
<1>6. ASSUME fd = c, cEnd[c] = "open"
      PROVE  Awaiting /\ ~Sending /\ r = req /\ toSrv[c] = <<>> /\ toCli[c] = <<>> /\ CPos = 0
  <2>1. fd # 0 /\ Reading(fd) /\ APos(fd) > 0 /\ APos(fd) = m.messageLen
    BY <1>1, <1>6 DEF Conn
  <2>2. /\ Sending \/ (Awaiting /\ execs[req] = 0)
        /\ m = sendBuf /\ EndAt(toSrv[c], APos(c)) = sent /\ toCli[c] = <<>> /\ CPos = 0
    BY <1>6, <2>1 DEF IInv, Turn
  <2>3. toSrv[c] = <<>>
    BY <1>3, <1>6, <2>1, OpenStreams DEF IInv
  <2>4. sent = sendBuf.messageLen
    BY <1>1, <2>2, <2>3 DEF EndAt
  <2>5. sent \in Nat
    BY DEF TypeOK
  <2>6. ~Sending
    BY <2>4, <2>5 DEF Sending
  <2>7. r = req
    BY <2>2 DEF IInv, Requests, Busy, Sending, Awaiting
  <2> QED
    BY <2>2, <2>3, <2>6, <2>7
<1>7. \A n \in Req : Doomed(n) => n # r
  <2> SUFFICES ASSUME Doomed(r) PROVE FALSE
    OBVIOUS
  <2>1. APos(c) < m.messageLen
    BY <1>1, <1>4 DEF IInv, DoomedIsIncomplete
  <2> DEFINE len == m.messageLen
  <2>2. len < len /\ len \in Nat
    BY <1>1, <2>1
  <2> HIDE DEF len
  <2> QED
    BY <2>2
<1>8. Sending => r # req
  <2> SUFFICES ASSUME Sending, r = req PROVE FALSE
    OBVIOUS
  <2>1. fd = c
    BY <1>4 DEF Busy, Sending
  <2>2. cEnd[c] = "reset"
    BY <1>6, <2>1 DEF IInv, Ends
  <2> QED
    BY <1>1, <1>7, <2>1, <2>2 DEF Doomed
<1>9. Kept
  BY <1>2 DEF Kept, TypeOK
<1>10. \A d \in Conn : d # c => /\ SrvSide(d)' /\ Carry(d)' = Carry(d) /\ APos(d)' = APos(d)
                                /\ Reading(d)' <=> Reading(d)
                                /\ Replying(d)' <=> Replying(d)
  <2> SUFFICES ASSUME NEW d \in Conn, d # c
               PROVE  /\ SrvSide(d)' /\ Carry(d)' = Carry(d) /\ APos(d)' = APos(d)
                      /\ Reading(d)' <=> Reading(d)
                      /\ Replying(d)' <=> Replying(d)
    OBVIOUS
  <2>1. SrvSame(d)
    BY <1>2 DEF SrvSame
  <2>2. Replying(d)' <=> Replying(d)
    BY <1>2 DEF Replying, ToSend
  <2> QED
    BY <1>9, <2>1, <2>2, SrvFrame DEF IInv
<1>11. APos(c)' = 0 /\ Carry(c)' = {} /\ SrvSide(c)'
  <2>1. APos(c)' = 0
    BY <1>2 DEF APos
  <2>2. Carry(c)' = {}
    BY <1>2, <1>3, <2>1 DEF Carry, HasData
  <2>3. SrvSide(c)'
    BY <1>1, <1>2, <1>3, <2>1 DEF SrvSide, HasData, Whole
  <2> QED
    BY <2>1, <2>2, <2>3
<1>12. CarriedOnce'
  <2> SUFFICES ASSUME NEW d \in Conn, NEW n \in Carry(d)'
               PROVE  /\ execs'[n] = 0 /\ (Busy /\ d # fd => n # req)
                      /\ \A e \in Conn : e # d => n \notin Carry(e)'
    BY <1>2 DEF CarriedOnce, Busy
  <2>1. d # c /\ n \in Carry(d) /\ n # r
    BY <1>4, <1>10, <1>11
  <2>2. n \in Req
    BY <2>1, CarryIsRequest DEF IInv
  <2>3. \A e \in Conn : e # d => n \notin Carry(e)'
    BY <1>10, <1>11, <2>1 DEF IInv, CarriedOnce
  <2> QED
    BY <1>5, <2>1, <2>2, <2>3 DEF IInv, CarriedOnce
<1>13. Requests'
  <2>1. /\ \A n \in Req : execs'[n] <= 1
        /\ \A n \in Req : n > req => execs'[n] = 0
    <3>1. \A n \in Req : n > req => n # r
      BY <1>1 DEF TypeOK, Req
    <3> QED
      BY <1>5, <3>1 DEF IInv, Requests
  <2>2. Sending => execs'[req] = 0
    <3> SUFFICES ASSUME Sending PROVE execs'[req] = 0
      OBVIOUS
    <3>1. req > 0 /\ req \in Req
      BY BoundAssumption DEF Sending, Busy, IInv, Requests, TypeOK, Req
    <3> QED
      BY <1>5, <1>8, <3>1 DEF IInv, Requests
  <2> QED
    BY <1>2, <2>1, <2>2 DEF IInv, Requests, Busy, Sending, Request
<1>14. Ends'
  BY <1>1, <1>2 DEF IInv, Ends, Busy
<1>15. DoomedIsIncomplete'
  <2> SUFFICES ASSUME NEW n \in Req, Doomed(n)'
               PROVE  /\ execs'[n] = 0
                      /\ \A d \in Conn : n \in Carry(d)' =>
                           ~HasData(toSrv[d]) /\ cEnd[d] # "open" /\ APos(d)' < aBuf[d].messageLen
    BY <1>2 DEF DoomedIsIncomplete
  <2>1. Doomed(n)
    BY <1>2 DEF Doomed, Sending
  <2>2. execs'[n] = 0
    BY <1>5, <1>7, <2>1 DEF IInv, DoomedIsIncomplete
  <2>3. ASSUME NEW d \in Conn, n \in Carry(d)'
        PROVE  ~HasData(toSrv[d]) /\ cEnd[d] # "open" /\ APos(d)' < aBuf[d].messageLen
    <3>1. d # c /\ n \in Carry(d) /\ APos(d)' = APos(d)
      BY <1>10, <1>11, <2>3
    <3> QED
      BY <2>1, <3>1 DEF IInv, DoomedIsIncomplete
  <2> QED
    BY <2>2, <2>3
<1>16. CPos' = CPos /\ (Sending' <=> Sending) /\ (Awaiting' <=> Awaiting)
  BY <1>2 DEF CPos, Sending, Awaiting
<1>17. Busy => req \in Req /\ req # 0
  BY BoundAssumption DEF IInv, Requests, TypeOK, Req
<1>18. ASSUME fd # 0, cEnd[fd] = "open"
       PROVE  Turn' /\ ReplyInStep'
  <2>1. CASE fd = c
    <3>1. /\ Awaiting /\ ~Sending /\ r = req /\ toSrv[c] = <<>> /\ toCli[c] = <<>> /\ CPos = 0
      BY <1>6, <1>18, <2>1
    <3>2. APos(fd)' = 0 /\ fd' = c
      BY <1>2, <1>11, <2>1 DEF APos
    <3>3. execs'[req] # 0
      BY <1>5, <3>1
    <3>4. Turn'
      BY <1>2, <1>16, <2>1, <3>1, <3>2, <3>3 DEF Turn
    <3>5. EndAt(toCli[fd], CPos)' = 0 /\ aSent'[fd'] = 0
      BY <1>2, <1>16, <2>1, <3>1, <3>2 DEF EndAt
    <3>6. ReplyInStep'
      BY <1>2, <1>16, <2>1, <3>1, <3>2, <3>5 DEF ReplyInStep
    <3> QED
      BY <3>4, <3>6
  <2>2. CASE fd # c
    <3>1. PICK d \in Conn : d = fd /\ d # c
      BY <1>18, <2>2 DEF TypeOK
    <3>2. /\ (Reading(fd)' <=> Reading(fd)) /\ APos(fd)' = APos(fd)
          /\ (Replying(fd)' <=> Replying(fd)) /\ aSent'[fd] = aSent[fd] /\ ToSend(fd)' = ToSend(fd)
      BY <1>2, <3>1 DEF Reading, APos, Replying, ToSend
    <3>3. Awaiting => execs'[req] = execs[req]
      <4> SUFFICES ASSUME Awaiting PROVE execs'[req] = execs[req]
        OBVIOUS
      <4>1. Busy
        BY DEF Awaiting, Busy
      <4> QED
        BY <1>4, <1>5, <1>17, <2>2, <4>1
    <3>4. Turn'
      BY <1>2, <1>16, <3>2, <3>3 DEF IInv, Turn, EndAt
    <3>5. ReplyInStep'
      BY <1>2, <1>16, <3>2 DEF IInv, ReplyInStep, EndAt
    <3> QED
      BY <3>4, <3>5
  <2> QED
    BY <2>1, <2>2
<1>19. Turn' /\ ReplyInStep'
  BY <1>2, <1>18 DEF Turn, ReplyInStep
<1>20. ASSUME NEW a, Answers(a), Busy
       PROVE  Reply(a)' /\ execs'[req'] # 0 /\ (fd' \notin unbuilt' => a.for = req')
  <2>1. Reply(a)'
    BY <1>2, <1>9, <1>20, ReplyKept DEF Answers, Reply
  <2> QED
    BY <1>2, <1>5, <1>17, <1>20, <2>1 DEF Answers
<1>21. CliSide' /\ Received'
  <2>1. fd # 0 /\ HasData(toCli[fd]) => Answers(toCli[fd][1].m)'
    <3> SUFFICES ASSUME fd # 0, HasData(toCli[fd]) PROVE Answers(toCli[fd][1].m)'
      OBVIOUS
    <3>1. Answers(toCli[fd][1].m) /\ Busy
      BY DEF IInv, CliSide, Awaiting, Busy
    <3> QED
      BY <1>2, <1>20, <3>1 DEF Answers, Reply
  <2>2. Busy /\ Answers(recvBuf) => Answers(recvBuf)'
    BY <1>2, <1>20 DEF Answers, Reply
  <2>3. CliSide'
    BY <1>2, <1>16, <2>1 DEF IInv, CliSide, Whole, HasData
  <2>4. Received'
    BY <1>2, <2>2 DEF IInv, Received, Busy
  <2> QED
    BY <2>3, <2>4
<1>22. Replies'
  <2> SUFFICES ASSUME NEW d \in Conn
               PROVE  /\ aReply'[d].content # Uninitialised =>
                           Reply(aReply[d].content)' /\ aReply'[d].content.messageLen <= aReply'[d].size
                      /\ d \notin unbuilt' /\ aPc'[d] \in {"sendPoll", "send"} =>
                           aReply'[d].content # Uninitialised /\ aReply'[d].content.for = aBuf'[d].for
    BY DEF Replies
  <2>1. CASE d = c
    <3>1. aPc'[c] # "send" /\ aBuf'[c].for = r
      BY <1>2
    <3> QED
      BY <1>2, <2>1, <3>1
  <2>2. CASE d # c
    <3>1. aReply'[d] = aReply[d] /\ aPc'[d] = aPc[d] /\ aBuf'[d] = aBuf[d] /\ (d \in unbuilt => d \in unbuilt')
      BY <1>2, <2>2
    <3>2. /\ aReply[d].content # Uninitialised =>
               Reply(aReply[d].content) /\ aReply[d].content.messageLen <= aReply[d].size
          /\ d \notin unbuilt /\ aPc[d] \in {"sendPoll", "send"} =>
               aReply[d].content # Uninitialised /\ aReply[d].content.for = aBuf[d].for
      BY DEF IInv, Replies
    <3>3. Reply(aReply[d].content) => Reply(aReply[d].content)'
      BY <1>9, <3>1, ReplyKept DEF Reply
    <3> QED
      BY <3>1, <3>2, <3>3
  <2> QED
    BY <2>1, <2>2
<1>23. AckIsTrue'
  BY <1>2 DEF IInv, AckIsTrue
<1> QED
  BY <1>10, <1>11, <1>12, <1>13, <1>14, <1>15, <1>19, <1>21, <1>22, <1>23 DEF IInv

LEMMA HangKeeps ==
  ASSUME TypeOK, TypeOK', IInv, NEW c \in Conn, sEnd[c] \in {"backlog", "open"}, Hang(c)
  PROVE  IInv'
<1> DEFINE s == toCli[c]
           h == Hangup(toCli[c], toSrv[c])
<1>1. /\ UNCHANGED <<cPc, fd, req, op, sendBuf, sent, recvBuf, cNeed, result, answered, aNeed, aSent,
                     execs, stored, unbuilt>>
      /\ sEnd'[c] = "closed" /\ toSrv'[c] = <<>> /\ aPc'[c] = "done" /\ aReply'[c] = Fresh
      /\ toCli'[c] = (IF cEnd[c] = "closed" THEN s ELSE h)
      /\ cEnd'[c] = (IF cEnd[c] = "open" /\ Unread(toSrv[c]) THEN "reset" ELSE cEnd[c])
      /\ \A d \in Conn : d # c => /\ sEnd'[d] = sEnd[d] /\ toSrv'[d] = toSrv[d] /\ aPc'[d] = aPc[d]
                                  /\ aReply'[d] = aReply[d] /\ toCli'[d] = toCli[d] /\ cEnd'[d] = cEnd[d]
                                  /\ aBuf'[d] = aBuf[d] /\ aSize'[d] = aSize[d]
  BY DEF Hang, AGoto, shellVars, TypeOK
<1> HIDE DEF h
<1>2. Kept
  BY <1>1 DEF Kept, TypeOK
<1>3. \A d \in Conn : d # c => /\ SrvSide(d)' /\ Carry(d)' = Carry(d) /\ APos(d)' = APos(d)
                               /\ Reading(d)' <=> Reading(d)
  <2> SUFFICES ASSUME NEW d \in Conn, d # c PROVE SrvSame(d)
    BY <1>2, SrvFrame DEF IInv
  <2> QED
    BY <1>1 DEF SrvSame
<1>4. ~Reading(c)' /\ ~Replying(c)' /\ Carry(c)' = {} /\ SrvSide(c)'
  BY <1>1 DEF Reading, Replying, Carry, SrvSide
<1>5. cEnd[c] # "none" /\ (cEnd[c] \in {"open", "reset"} <=> c = fd) /\ (c # fd => cEnd[c] = "closed" /\ s = <<>>)
  BY DEF IInv, Ends, TypeOK
<1>6. CarriedOnce'
  BY <1>1, <1>3, <1>4 DEF IInv, CarriedOnce, Busy
<1>7. Ends'
  <2>1. ASSUME NEW d \in Conn
        PROVE  /\ cEnd'[d] \in {"open", "reset"} <=> d = fd'
               /\ cEnd'[d] = "none" <=> sEnd'[d] = "none"
               /\ sEnd'[d] \in {"none", "backlog"} <=> aPc'[d] = "off"
               /\ sEnd'[d] = "closed" <=> aPc'[d] = "done"
               /\ d # fd' => toCli'[d] = <<>>
               /\ sEnd'[d] \in {"none", "closed"} => toSrv'[d] = <<>>
               /\ cEnd'[d] = "open" => AllData(toSrv'[d])
               /\ cEnd'[d] = "open" /\ sEnd'[d] # "closed" => AllData(toCli'[d])
               /\ cEnd'[d] = "reset" => ~HasData(toSrv'[d])
    <3>1. CASE d = c
      <4>1. AllData(<<>>) /\ ~HasData(<<>>)
        BY DEF AllData, HasData
      <4> QED
        BY <1>1, <1>5, <3>1, <4>1
    <3>2. CASE d # c
      BY <1>1, <3>2 DEF IInv, Ends
    <3> QED
      BY <3>1, <3>2
  <2>2. (Busy' => fd' # 0) /\ (cPc' = "gone" => fd' = 0)
    BY <1>1 DEF IInv, Ends, Busy
  <2> QED
    BY <2>1, <2>2 DEF Ends
<1>8. Requests'
  BY <1>1 DEF IInv, Requests, Busy, Sending, Request
<1>9. DoomedIsIncomplete'
  <2> SUFFICES ASSUME NEW n \in Req, Doomed(n)'
               PROVE  /\ execs[n] = 0
                      /\ \A d \in Conn : n \in Carry(d)' =>
                           ~HasData(toSrv'[d]) /\ cEnd'[d] # "open" /\ APos(d)' < aBuf'[d].messageLen
    BY <1>1 DEF DoomedIsIncomplete
  <2>1. Doomed(n) \/ (n = req /\ Sending /\ fd = c)
    <3>1. result[n] \in FailCodes \/ (n = req /\ Sending /\ cEnd'[fd] = "reset")
      BY <1>1 DEF Doomed, Sending
    <3>2. fd = c \/ cEnd'[fd] = cEnd[fd] \/ ~Sending
      BY <1>1 DEF TypeOK, IInv, Ends, Sending, Busy
    <3> QED
      BY <3>1, <3>2 DEF Doomed
  <2>2. CASE Doomed(n)
    <3>1. ASSUME NEW d \in Conn, n \in Carry(d)'
          PROVE  ~HasData(toSrv'[d]) /\ cEnd'[d] # "open" /\ APos(d)' < aBuf'[d].messageLen
      <4>1. d # c
        BY <1>4, <3>1
      <4>2. /\ n \in Carry(d) /\ toSrv'[d] = toSrv[d] /\ cEnd'[d] = cEnd[d] /\ APos(d)' = APos(d)
            /\ aBuf'[d] = aBuf[d]
        BY <1>1, <1>3, <3>1, <4>1
      <4>3. ~HasData(toSrv[d]) /\ cEnd[d] # "open" /\ APos(d) < aBuf[d].messageLen
        BY <2>2, <4>2 DEF IInv, DoomedIsIncomplete
      <4> QED
        BY <4>2, <4>3
    <3> QED
      BY <2>2, <3>1 DEF IInv, DoomedIsIncomplete
  <2>3. CASE n = req /\ Sending /\ fd = c
    <3>1. execs[n] = 0
      BY <2>3 DEF IInv, Requests
    <3>2. ASSUME NEW d \in Conn, n \in Carry(d)' PROVE FALSE
      <4>1. d # c /\ n \in Carry(d)
        BY <1>3, <1>4, <3>2
      <4> QED
        BY <2>3, <4>1 DEF IInv, CarriedOnce, Busy, Sending
    <3> QED
      BY <3>1, <3>2
  <2> QED
    BY <2>1, <2>2, <2>3
<1>10. CPos' = CPos /\ (Sending' <=> Sending) /\ (Awaiting' <=> Awaiting)
  BY <1>1 DEF CPos, Sending, Awaiting
<1>11. ASSUME fd # 0, cEnd'[fd] = "open"
       PROVE  Turn' /\ ReplyInStep'
  <2>1. CASE fd = c
    <3>1. ~Reading(fd)' /\ ~Replying(fd)'
      BY <1>1, <2>1 DEF Reading, Replying
    <3> QED
      BY <3>1 DEF Turn, ReplyInStep
  <2>2. CASE fd # c
    <3>1. PICK d \in Conn : d = fd /\ d # c
      BY <1>11, <2>2 DEF TypeOK
    <3>2. /\ toSrv'[fd] = toSrv[fd] /\ toCli'[fd] = toCli[fd] /\ cEnd'[fd] = cEnd[fd]
          /\ aBuf'[fd] = aBuf[fd] /\ aPc'[fd] = aPc[fd] /\ aReply'[fd] = aReply[fd]
      BY <1>1, <3>1
    <3>3. /\ (Reading(fd)' <=> Reading(fd)) /\ APos(fd)' = APos(fd)
          /\ (Replying(fd)' <=> Replying(fd)) /\ ToSend(fd)' = ToSend(fd)
      BY <1>1, <3>2 DEF Reading, APos, Replying, ToSend
    <3>4. Turn'
      BY <1>1, <1>10, <3>2, <3>3 DEF IInv, Turn, EndAt
    <3>5. ReplyInStep'
      BY <1>1, <1>10, <3>2, <3>3 DEF IInv, ReplyInStep, EndAt
    <3> QED
      BY <3>4, <3>5
  <2> QED
    BY <2>1, <2>2
<1>12. Turn' /\ ReplyInStep'
  BY <1>1, <1>11 DEF Turn, ReplyInStep
<1>13. CliSide'
  <2> SUFFICES ASSUME fd # 0 PROVE CliSide'
    BY <1>1 DEF CliSide
  <2>0. Answers(toCli[fd][1].m) => Reply(toCli[fd][1].m) /\ execs[req] # 0 /\ (fd \notin unbuilt => toCli[fd][1].m.for = req)
    BY DEF Answers
  <2>1. CASE fd = c
    <3>1. Whole(s) /\ s \in Stream
      BY <2>1 DEF IInv, CliSide, TypeOK
    <3>2. Whole(h) /\ (HasData(h) <=> HasData(s)) /\ (HasData(s) => h[1] = s[1])
      BY <3>1, WholeHangup DEF h
    <3>3. toCli'[fd'] = h
      BY <1>1, <1>5, <2>1
    <3>4. ASSUME HasData(s)
          PROVE  /\ cEnd'[fd'] = "open" /\ Awaiting' /\ toSrv'[fd'] = <<>>
                 /\ h[1].off = CPos' /\ Answers(h[1].m) /\ (CPos' > 0 => h[1].m = recvBuf')
      <4>1. /\ cEnd[c] = "open" /\ Awaiting /\ toSrv[c] = <<>>
            /\ s[1].off = CPos /\ Answers(s[1].m) /\ (CPos > 0 => s[1].m = recvBuf)
        BY <2>1, <3>4 DEF IInv, CliSide
      <4>2. ~Unread(<<>>)
        BY DEF Unread
      <4> QED
        BY <1>1, <1>10, <2>1, <3>2, <3>4, <4>1, <4>2
    <3>5. HasData(s) => Answers(toCli[fd][1].m)'
      BY <1>1, <3>3, <3>4 DEF Answers, Reply
    <3> QED
      BY <3>2, <3>3, <3>4, <3>5 DEF CliSide
  <2>2. CASE fd # c
    <3>1. PICK d \in Conn : d = fd /\ d # c
      BY <2>2 DEF TypeOK
    <3>2. toSrv'[fd] = toSrv[fd] /\ toCli'[fd] = toCli[fd] /\ cEnd'[fd] = cEnd[fd]
      BY <1>1, <3>1
    <3> QED
      BY <1>1, <1>10, <3>2 DEF IInv, CliSide, Whole, HasData, Answers, Reply
  <2> QED
    BY <2>1, <2>2
<1>14. Received'
  BY <1>1 DEF IInv, Received, Answers, Reply
<1>15. Replies'
  <2> SUFFICES ASSUME NEW d \in Conn
               PROVE  /\ aReply'[d].content # Uninitialised =>
                           Reply(aReply[d].content)' /\ aReply'[d].content.messageLen <= aReply'[d].size
                      /\ d \notin unbuilt' /\ aPc'[d] \in {"sendPoll", "send"} =>
                           aReply'[d].content # Uninitialised /\ aReply'[d].content.for = aBuf'[d].for
    BY DEF Replies
  <2>1. CASE d = c
    BY <1>1, <2>1 DEF Fresh
  <2>2. CASE d # c
    <3>1. aReply'[d] = aReply[d] /\ aPc'[d] = aPc[d] /\ aBuf'[d] = aBuf[d] /\ unbuilt' = unbuilt
      BY <1>1, <2>2
    <3>2. Reply(aReply[d].content) => Reply(aReply[d].content)'
      BY <1>1, <3>1 DEF Reply
    <3> QED
      BY <3>1, <3>2 DEF IInv, Replies
  <2> QED
    BY <2>1, <2>2
<1>16. AckIsTrue'
  BY <1>1 DEF IInv, AckIsTrue
<1> QED
  BY <1>3, <1>4, <1>6, <1>7, <1>8, <1>9, <1>12, <1>13, <1>14, <1>15, <1>16 DEF IInv

LEMMA NetBreakKeeps ==
  ASSUME TypeOK, TypeOK', IInv, NEW c \in Conn, NetBreak(c)
  PROVE  IInv'
<1> DEFINE s == toSrv[c]
<1>1. /\ UNCHANGED <<cPc, fd, req, op, sendBuf, sent, recvBuf, cNeed, result, answered, sEnd, aPc, aBuf,
                     aNeed, aSize, aReply, aSent, execs, stored, unbuilt>>
      /\ cEnd[c] = "open" /\ sEnd[c] # "closed"
      /\ cEnd'[c] = "reset" /\ toSrv'[c] = <<RST>> /\ toCli'[c] = <<RST>>
      /\ \A d \in Conn : d # c => toSrv'[d] = toSrv[d] /\ toCli'[d] = toCli[d] /\ cEnd'[d] = cEnd[d]
  BY DEF NetBreak, shellVars, agentVars, TypeOK
<1>2. /\ fd = c /\ fd # 0 /\ sEnd[c] # "none" /\ AllData(s) /\ s \in Stream
      /\ s # <<>> => HasData(s)
  <2>1. fd = c /\ sEnd[c] # "none" /\ AllData(s) /\ s \in Stream
    BY <1>1 DEF IInv, Ends, TypeOK
  <2> QED
    BY <2>1, DataFirst DEF Conn
<1>3. Whole(<<RST>>) /\ ~HasData(<<RST>>)
  <2>1. \A i \in 1..1 : i = 1
    OBVIOUS
  <2>2. ~(1 < 1)
    OBVIOUS
  <2>3. Len(<<RST>>) = 1 /\ <<RST>>[1] = RST /\ RST.kind # "data"
    BY DEF RST
  <2> QED
    BY <2>1, <2>2, <2>3 DEF Whole, HasData
<1>4. Kept
  BY <1>1 DEF Kept, TypeOK
<1>5. \A d \in Conn : APos(d)' = APos(d) /\ (Reading(d)' <=> Reading(d))
  BY <1>1 DEF APos, Reading
<1>6. \A d \in Conn : d # c => SrvSide(d)' /\ Carry(d)' = Carry(d)
  <2> SUFFICES ASSUME NEW d \in Conn, d # c PROVE SrvSame(d)
    BY <1>4, SrvFrame DEF IInv
  <2> QED
    BY <1>1 DEF SrvSame
<1>7. /\ Carry(c)' \subseteq Carry(c)
      /\ Carry(c)' # {} => Reading(c) /\ APos(c) > 0
  <2>1. Carry(c)' = IF Reading(c) /\ APos(c) > 0 THEN {aBuf[c].for} ELSE {}
    BY <1>1, <1>3, <1>5 DEF Carry, HasData
  <2>2. Reading(c) /\ APos(c) > 0 => Carry(c) = {aBuf[c].for}
    BY DEF IInv, SrvSide, Carry
  <2> QED
    BY <2>1, <2>2
<1>8. SrvSide(c)'
  <2>1. Request(aBuf[c]) => Request(aBuf[c])'
    BY <1>1 DEF Request
  <2>2. Whole(toSrv[c])' /\ ~HasData(toSrv[c])'
    BY <1>1, <1>3 DEF Whole, HasData
  <2> QED
    BY <1>1, <1>5, <2>1, <2>2 DEF IInv, SrvSide
<1>9. CarriedOnce'
  <2>1. \A d \in Conn : Carry(d)' \subseteq Carry(d)
    BY <1>6, <1>7
  <2> QED
    BY <1>1, <2>1 DEF IInv, CarriedOnce, Busy
<1>10. Ends'
  <2>1. ASSUME NEW d \in Conn
        PROVE  /\ cEnd'[d] \in {"open", "reset"} <=> d = fd
               /\ cEnd'[d] = "none" <=> sEnd[d] = "none"
               /\ d # fd => toCli'[d] = <<>>
               /\ sEnd[d] \in {"none", "closed"} => toSrv'[d] = <<>>
               /\ cEnd'[d] = "open" => AllData(toSrv'[d])
               /\ cEnd'[d] = "open" /\ sEnd[d] # "closed" => AllData(toCli'[d])
               /\ cEnd'[d] = "reset" => ~HasData(toSrv'[d])
    <3>1. CASE d = c
      BY <1>1, <1>2, <1>3, <3>1
    <3>2. CASE d # c
      BY <1>1, <3>2 DEF IInv, Ends
    <3> QED
      BY <3>1, <3>2
  <2> QED
    BY <1>1, <2>1 DEF IInv, Ends, Busy
<1>11. Requests'
  BY <1>1 DEF IInv, Requests, Busy, Sending, Request
<1>12. Sending /\ Reading(c) /\ APos(c) > 0 => APos(c) < aBuf[c].messageLen
  <2> SUFFICES ASSUME Sending, Reading(c), APos(c) > 0 PROVE APos(c) < aBuf[c].messageLen
    OBVIOUS
  <2>1. aBuf[c] = sendBuf /\ EndAt(s, APos(c)) = sent /\ sent < sendBuf.messageLen
    BY <1>1, <1>2 DEF IInv, Turn, Sending
  <2>2. sent \in Nat /\ sendBuf.messageLen \in Nat
    BY DEF TypeOK, Message
  <2>3. CASE s = <<>>
    BY <2>1, <2>3 DEF EndAt
  <2>4. CASE s # <<>>
    <3>1. Whole(s) /\ s[1].off = APos(c)
      BY <1>2, <2>4 DEF IInv, SrvSide
    <3>2. EndAt(s, 0) = sent
      BY <2>1, <2>4 DEF EndAt
    <3>3. s[1].off + s[1].n <= sent /\ s[1].n > 0 /\ s[1] \in ChunkT
      BY <1>2, <2>4, <3>1, <3>2, EndIsBehind
    <3>4. s[1].off \in Nat /\ s[1].n \in Nat
      BY <3>3 DEF ChunkT
    <3> DEFINE o == s[1].off
               n == s[1].n
               len == sendBuf.messageLen
    <3>5. o \in Nat /\ n \in Nat /\ len \in Nat /\ o + n <= sent /\ n > 0 /\ sent < len
      BY <2>1, <2>2, <3>3, <3>4
    <3> HIDE DEF o, n, len
    <3>6. o < len
      BY <2>2, <3>5
    <3> QED
      BY <2>1, <3>1, <3>6 DEF o, len
  <2> QED
    BY <2>3, <2>4
<1>13. DoomedIsIncomplete'
  <2> SUFFICES ASSUME NEW n \in Req, Doomed(n)'
               PROVE  /\ execs[n] = 0
                      /\ \A d \in Conn : n \in Carry(d)' =>
                           ~HasData(toSrv'[d]) /\ cEnd'[d] # "open" /\ APos(d)' < aBuf[d].messageLen
    BY <1>1 DEF DoomedIsIncomplete
  <2>1. result[n] \in FailCodes \/ (n = req /\ Sending)
    BY <1>1 DEF Doomed, Sending
  <2>2. CASE Doomed(n)
    <3>1. ASSUME NEW d \in Conn, n \in Carry(d)'
          PROVE  ~HasData(toSrv'[d]) /\ cEnd'[d] # "open" /\ APos(d)' < aBuf[d].messageLen
      <4>1. n \in Carry(d)
        BY <1>6, <1>7, <3>1
      <4>2. ~HasData(toSrv[d]) /\ cEnd[d] # "open" /\ APos(d) < aBuf[d].messageLen
        BY <2>2, <4>1 DEF IInv, DoomedIsIncomplete
      <4> QED
        BY <1>1, <1>5, <4>2
    <3> QED
      BY <2>2, <3>1 DEF IInv, DoomedIsIncomplete
  <2>3. CASE n = req /\ Sending
    <3>1. execs[n] = 0
      BY <2>3 DEF IInv, Requests
    <3>2. ASSUME NEW d \in Conn, n \in Carry(d)'
          PROVE  ~HasData(toSrv'[d]) /\ cEnd'[d] # "open" /\ APos(d)' < aBuf[d].messageLen
      <4>1. CASE d = c
        BY <1>1, <1>3, <1>5, <1>7, <1>12, <2>3, <3>2, <4>1
      <4>2. CASE d # c
        <5>1. n \in Carry(d)
          BY <1>6, <3>2, <4>2
        <5> QED
          BY <1>2, <2>3, <4>2, <5>1 DEF IInv, CarriedOnce, Busy, Sending
      <4> QED
        BY <4>1, <4>2
    <3> QED
      BY <3>1, <3>2
  <2> QED
    BY <2>1, <2>2, <2>3 DEF Doomed
<1>14. Turn' /\ ReplyInStep'
  BY <1>1, <1>2 DEF Turn, ReplyInStep
<1>15. CliSide'
  BY <1>1, <1>2, <1>3 DEF CliSide
<1>16. Received' /\ AckIsTrue'
  BY <1>1 DEF IInv, Received, Answers, Reply, AckIsTrue
<1>17. Replies'
  BY <1>1, <1>4, RepliesFrame DEF IInv
<1> QED
  BY <1>6, <1>8, <1>9, <1>10, <1>11, <1>13, <1>14, <1>15, <1>16, <1>17 DEF IInv

LEMMA AgentKeeps ==
  ASSUME TypeOK, TypeOK', IInv, NEW c \in Conn,
         Accept(c) \/ Reject(c) \/ AgentStep(c) \/ ForceAgent(c) \/ NetBreak(c)
  PROVE  IInv'
<1>1. CASE Reject(c)
  BY <1>1, HangKeeps DEF Reject
<1>2. CASE AgentClose(c)
  <2>1. sEnd[c] = "open"
    BY <1>2 DEF AgentClose, IInv, Ends, TypeOK
  <2> QED
    BY <1>2, <2>1, HangKeeps DEF AgentClose
<1>3. CASE ForceAgent(c)
  BY <1>3, StutterKeeps DEF ForceAgent, shellVars, wireVars
<1> QED
  BY <1>1, <1>2, <1>3, MovesKeep, AgentPartKeeps, AgentWorkKeeps, AgentSendPartKeeps, NetBreakKeeps
     DEF AgentStep

-----------------------------------------------------------------------------
(* The invariant holds at the start and is kept by every step.             *)

LEMMA InitHolds == Init => TypeOK /\ IInv
<1> SUFFICES ASSUME Init PROVE TypeOK /\ IInv
  OBVIOUS
<1>1. TypeOK
  <2>1. <<>> \in Stream /\ 0 \in 0..8 /\ 0 \in 0..MaxReq /\ 0 \in Nat
    BY BoundAssumption DEF Stream
  <2>2. Zero \in Message
    BY ZeroType
  <2>3. Fresh \in [size : Nat, content : Message \cup {Uninitialised}] /\ AgentBuf \in Nat
    BY BufAssumption DEF Fresh, SizeofReply
  <2>4. /\ op \in [Req -> 0..8] /\ result \in [Req -> Result] /\ execs \in [Req -> Nat]
        /\ toSrv \in [Conn -> Stream] /\ toCli \in [Conn -> Stream]
        /\ cEnd \in [Conn -> {"none", "open", "reset", "closed"}]
        /\ sEnd \in [Conn -> {"none", "backlog", "open", "closed"}]
    BY <2>1 DEF Init, Result
  <2>5. /\ aPc \in [Conn -> {"off", "lenPoll", "len", "bodyPoll", "body", "sendPoll", "send", "close", "done"}]
        /\ aBuf \in [Conn -> Message] /\ aNeed \in [Conn -> Nat] /\ aSize \in [Conn -> Nat]
        /\ aReply \in [Conn -> [size : Nat, content : Message \cup {Uninitialised}]]
        /\ aSent \in [Conn -> Nat] /\ forced \in [Conn -> BOOLEAN]
    BY <2>1, <2>2, <2>3 DEF Init
  <2> QED
    BY <2>1, <2>2, <2>4, <2>5 DEF Init, TypeOK
<1>2. AllData(<<>>) /\ ~HasData(<<>>) /\ Whole(<<>>)
  <2>1. Len(<<>>) = 0 /\ ~\E i \in 1..0 : TRUE
    OBVIOUS
  <2> QED
    BY <2>1 DEF AllData, HasData, Whole
<1>3. \A c \in Conn : /\ cEnd[c] = "none" /\ sEnd[c] = "none" /\ toSrv[c] = <<>> /\ toCli[c] = <<>>
                      /\ aPc[c] = "off" /\ aReply[c] = Fresh
                      /\ APos(c) = 0 /\ Carry(c) = {}
  BY <1>2 DEF Init, APos, Carry
<1>4. Ends
  BY <1>2, <1>3 DEF Init, Ends, Busy, Conn
<1>5. (\A c \in Conn : SrvSide(c)) /\ CarriedOnce
  BY <1>2, <1>3 DEF SrvSide, CarriedOnce
<1>6. Requests
  BY DEF Init, Requests, Busy, Sending
<1>7. DoomedIsIncomplete
  BY <1>3 DEF Init, DoomedIsIncomplete, Doomed, Sending, FailCodes
<1>8. Turn /\ ReplyInStep /\ CliSide /\ Received /\ AckIsTrue
  BY DEF Init, Turn, ReplyInStep, CliSide, Received, AckIsTrue
<1>9. Replies
  BY <1>3 DEF Replies, Fresh
<1> QED
  BY <1>1, <1>4, <1>5, <1>6, <1>7, <1>8, <1>9 DEF IInv

LEMMA StepTypes ==
  ASSUME TypeOK, IInv, [Next]_vars
  PROVE  TypeOK'
<1>1. CASE UNCHANGED vars
  BY <1>1 DEF vars, TypeOK
<1>2. CASE \E c \in Conn : Accept(c) \/ Reject(c) \/ AgentStep(c) \/ ForceAgent(c) \/ NetBreak(c)
  <2>1. PICK c \in Conn : Accept(c) \/ Reject(c) \/ AgentStep(c) \/ ForceAgent(c) \/ NetBreak(c)
    BY <1>2
  <2> QED
    BY <2>1, AgentTypes DEF IInv
<1>3. CASE ShellStep
  BY <1>3, SendTypes, RecvTypes DEF IInv, ShellStep
<1> QED
  BY <1>1, <1>2, <1>3, ConnectTypes, CommandTypes, InterruptTypes DEF Next, Over

LEMMA StepKeeps ==
  ASSUME TypeOK, IInv, [Next]_vars
  PROVE  TypeOK' /\ IInv'
<1>0. TypeOK'
  BY StepTypes
<1>1. CASE UNCHANGED vars
  <2>1. IInv'
    BY <1>1, StutterKeeps DEF vars
  <2> QED
    BY <1>0, <2>1
<1>2. CASE \E c \in Conn : Accept(c) \/ Reject(c) \/ AgentStep(c) \/ ForceAgent(c) \/ NetBreak(c)
  <2>1. PICK c \in Conn : Accept(c) \/ Reject(c) \/ AgentStep(c) \/ ForceAgent(c) \/ NetBreak(c)
    BY <1>2
  <2> QED
    BY <1>0, <2>1, AgentKeeps
<1>3. CASE ConnectCommand \/ Command \/ ShellStep \/ Interrupt
  BY <1>0, <1>3, ShellKeeps
<1> QED
  BY <1>1, <1>2, <1>3 DEF Next, Over

-----------------------------------------------------------------------------
(* What the invariant means.                                               *)

LEMMA InvMeans ==
  ASSUME TypeOK, IInv
  PROVE  StreamsInSync /\ BuffersHold /\ ReplyIsForRequest /\ AckIsTrue /\ AtMostOnce
<1>1. StreamsInSync
  <2>1. ASSUME NEW c \in Conn, HasData(toSrv[c]), Reading(c)
        PROVE  toSrv[c][1].off = APos(c)
    BY <2>1 DEF IInv, SrvSide
  <2>2. ASSUME fd # 0, HasData(toCli[fd])
        PROVE  toCli[fd][1].off = CPos
    BY <2>2 DEF IInv, CliSide
  <2> QED
    BY <2>1, <2>2 DEF StreamsInSync, Reading, APos, CPos
<1>2. BuffersHold
  <2>1. ASSUME NEW c \in Conn, aPc[c] \in {"bodyPoll", "body"}
        PROVE  aBuf[c].messageLen + 1 <= aSize[c]
    BY <2>1 DEF IInv, SrvSide, Reading
  <2> QED
    BY <2>1 DEF IInv, Replies, BuffersHold
<1>3. ReplyIsForRequest
  BY DEF IInv, Received, Answers, ReplyIsForRequest
<1>4. AtMostOnce
  BY DEF IInv, Requests, DoomedIsIncomplete, Doomed, FailCodes, AtMostOnce
<1> QED
  BY <1>1, <1>2, <1>3, <1>4 DEF IInv

-----------------------------------------------------------------------------
(* What the extractors of msg.cpp make of what its builders made.           *)

\* A builder that has its memory makes the message it was asked for, in a buffer that
\* holds it.
LEMMA Built ==
  ASSUME NEW buf \in [size : Nat, content : Message \cup {Uninitialised}], NEW opCode,
         NEW fixed \in Nat, NEW num, NEW returnCode, NEW objs, ObjSizes(objs) \in Nat,
         NEW no \in BOOLEAN, ~no, NEW b, b = Build(buf, no, opCode, fixed, num, returnCode, objs)
  PROVE  /\ b.rc = EDB_OK /\ b.buf.content.messageLen <= b.buf.size
         /\ b.buf.content.messageLen \in Nat /\ b.buf.content.messageLen >= fixed
         /\ b.buf.content.opCode = opCode /\ b.buf.content.num = num
         /\ b.buf.content.returnCode = returnCode /\ b.buf.content.data = objs
<1> DEFINE size == fixed + ObjSizes(objs)
           sz == buf.size
           cont == buf.content
           m == [messageLen |-> size, opCode |-> opCode, num |-> num, returnCode |-> returnCode,
                 data |-> objs, for |-> 0]
           room == IF size <= sz THEN sz ELSE size
<1>1. size \in Nat /\ size >= fixed
  OBVIOUS
<1>2. buf = [size |-> sz, content |-> cont] /\ sz \in Nat
  OBVIOUS
<1> HIDE DEF sz, cont
<1>3. b.rc = EDB_OK /\ b.buf = [size |-> room, content |-> m]
  <2> HIDE DEF m
  <2>1. msgCheckBuffer(buf, size, no) = [rc |-> EDB_OK, buf |-> [size |-> room, content |-> cont]]
    <3> HIDE DEF size
    <3> QED
      BY <1>1, <1>2 DEF msgCheckBuffer, EDB_OK, EDB_OOM, EDB_INVALIDARG
  <2> DEFINE chk == [rc |-> EDB_OK, buf |-> [size |-> room, content |-> cont]]
  <2>2. Build(buf, no, opCode, fixed, num, returnCode, objs) =
          IF chk.rc # EDB_OK THEN chk ELSE [chk EXCEPT !.buf.content = m]
    BY <2>1 DEF Build, m
  <2> HIDE DEF room
  <2>3. b = [rc |-> EDB_OK, buf |-> [size |-> room, content |-> m]]
    BY <2>2
  <2> QED
    BY <2>3
<1> HIDE DEF size
<1>4. size <= room
  BY <1>1, <1>2
<1>5. b.buf.content = m /\ b.buf.size = room
  BY <1>3
<1>6. /\ m.messageLen = size /\ m.opCode = opCode /\ m.num = num
      /\ m.returnCode = returnCode /\ m.data = objs
  OBVIOUS
<1> HIDE DEF m, room
<1> QED
  BY <1>1, <1>3, <1>4, <1>5, <1>6, Zenon

\* A message as long as the fixed part of its operation is taken by the extractor of that
\* operation, and by no other.
LEMMA Extracted ==
  ASSUME NEW m, m.messageLen \in Nat
  PROVE  /\ m.opCode = OP_REPLY /\ m.messageLen >= SizeofReply =>
              /\ msgExtraReply(m) = [rc |-> EDB_OK, returnCode |-> m.returnCode, num |-> m.num,
                                     data |-> IF m.num = 0 THEN <<>> ELSE m.data]
              /\ msgExtractInsert(m).rc = EDB_INVALIDARG /\ msgExtractDelete(m).rc = EDB_INVALIDARG
              /\ msgExtractQuery(m).rc = EDB_INVALIDARG /\ msgExtractCommand(m).rc = EDB_INVALIDARG
         /\ m.opCode = OP_INSERT /\ m.messageLen >= SizeofInsert =>
              /\ msgExtractInsert(m) = [rc |-> EDB_OK, num |-> m.num,
                                        data |-> IF m.num = 0 THEN <<>> ELSE m.data]
              /\ msgExtraReply(m).rc = EDB_INVALIDARG /\ msgExtractDelete(m).rc = EDB_INVALIDARG
              /\ msgExtractQuery(m).rc = EDB_INVALIDARG /\ msgExtractCommand(m).rc = EDB_INVALIDARG
         /\ m.opCode = OP_COMMAND /\ m.messageLen >= SizeofCommand =>
              /\ msgExtractCommand(m) = [rc |-> EDB_OK, num |-> m.num,
                                         data |-> IF m.num = 0 THEN <<>> ELSE m.data]
              /\ msgExtraReply(m).rc = EDB_INVALIDARG /\ msgExtractDelete(m).rc = EDB_INVALIDARG
              /\ msgExtractQuery(m).rc = EDB_INVALIDARG /\ msgExtractInsert(m).rc = EDB_INVALIDARG
         /\ m.opCode = OP_DELETE /\ m.messageLen >= SizeofKeyed =>
              /\ msgExtractDelete(m) = [rc |-> EDB_OK, data |-> m.data]
              /\ msgExtraReply(m).rc = EDB_INVALIDARG /\ msgExtractInsert(m).rc = EDB_INVALIDARG
              /\ msgExtractQuery(m).rc = EDB_INVALIDARG /\ msgExtractCommand(m).rc = EDB_INVALIDARG
         /\ m.opCode = OP_QUERY /\ m.messageLen >= SizeofKeyed =>
              /\ msgExtractQuery(m) = [rc |-> EDB_OK, data |-> m.data]
              /\ msgExtraReply(m).rc = EDB_INVALIDARG /\ msgExtractInsert(m).rc = EDB_INVALIDARG
              /\ msgExtractDelete(m).rc = EDB_INVALIDARG /\ msgExtractCommand(m).rc = EDB_INVALIDARG
<1>1. \A k \in Nat : \A fixed \in Nat : k >= fixed => ~(k < fixed)
  OBVIOUS
<1>2. ASSUME NEW code, NEW fixed \in Nat, m.messageLen >= fixed, m.opCode = code
      PROVE  HeaderCheck(m, code, fixed) = EDB_OK
  BY <1>1, <1>2 DEF HeaderCheck
<1>3. ASSUME NEW code, NEW fixed, m.opCode # code
      PROVE  HeaderCheck(m, code, fixed) = EDB_INVALIDARG
  BY <1>3 DEF HeaderCheck
<1>4. /\ SizeofReply \in Nat /\ SizeofInsert \in Nat /\ SizeofCommand \in Nat /\ SizeofKeyed \in Nat
      /\ EDB_OK # EDB_INVALIDARG
  BY DEF SizeofReply, SizeofInsert, SizeofCommand, SizeofKeyed, EDB_OK, EDB_INVALIDARG
<1>5. OP_REPLY = 1 /\ OP_INSERT = 2 /\ OP_DELETE = 3 /\ OP_QUERY = 4 /\ OP_COMMAND = 5
  BY DEF OP_REPLY, OP_INSERT, OP_DELETE, OP_QUERY, OP_COMMAND
<1>6. CASE m.opCode = OP_REPLY
  BY <1>2, <1>3, <1>4, <1>5, <1>6
     DEF msgExtraReply, msgExtractInsert, msgExtractDelete, msgExtractQuery, msgExtractCommand
<1>7. CASE m.opCode = OP_INSERT
  BY <1>2, <1>3, <1>4, <1>5, <1>7
     DEF msgExtraReply, msgExtractInsert, msgExtractDelete, msgExtractQuery, msgExtractCommand
<1>8. CASE m.opCode = OP_COMMAND
  BY <1>2, <1>3, <1>4, <1>5, <1>8
     DEF msgExtraReply, msgExtractInsert, msgExtractDelete, msgExtractQuery, msgExtractCommand
<1>9. CASE m.opCode = OP_DELETE
  BY <1>2, <1>3, <1>4, <1>5, <1>9
     DEF msgExtraReply, msgExtractInsert, msgExtractDelete, msgExtractQuery, msgExtractCommand
<1>10. CASE m.opCode = OP_QUERY
  BY <1>2, <1>3, <1>4, <1>5, <1>10
     DEF msgExtraReply, msgExtractInsert, msgExtractDelete, msgExtractQuery, msgExtractCommand
<1> QED
  BY <1>6, <1>7, <1>8, <1>9, <1>10

\* The messages the five builders make of objs, or of one, fit their buffers, and only
\* the extractor of their operation takes them, and returns what was put in.
Codes(m) == {msgExtraReply(m).rc, msgExtractInsert(m).rc, msgExtractDelete(m).rc,
             msgExtractQuery(m).rc, msgExtractCommand(m).rc}
Fits(b) == b.rc = EDB_OK /\ b.buf.content.messageLen <= b.buf.size
Inverts(objs, one, reply, insert, command, delete, query, insertOne, commandOne) ==
  /\ \A b \in {reply, insert, command, delete, query} :
       Fits(b) /\ Codes(b.buf.content) = {EDB_OK, EDB_INVALIDARG}
  /\ msgExtraReply(reply.buf.content) =
       [rc |-> EDB_OK, returnCode |-> "EDB_SYS", num |-> Len(objs), data |-> objs]
  /\ msgExtractInsert(insert.buf.content) = [rc |-> EDB_OK, num |-> Len(objs), data |-> objs]
  /\ msgExtractCommand(command.buf.content) = [rc |-> EDB_OK, num |-> Len(objs), data |-> objs]
  /\ msgExtractDelete(delete.buf.content) = [rc |-> EDB_OK, data |-> <<one>>]
  /\ msgExtractQuery(query.buf.content) = [rc |-> EDB_OK, data |-> <<one>>]
  /\ Len(objs) = 1 => insert = insertOne /\ command = commandOne

\* The five builders do so, whatever the objects are, as long as they have a size.
LEMMA BuildInverts ==
  ASSUME NEW buf \in [size : Nat, content : Message \cup {Uninitialised}],
         NEW objs, Objs(objs), ObjSizes(objs) \in Nat,
         NEW one, ObjSizes(<<one>>) \in Nat, Len(objs) = 1 => objs = <<one>>,
         NEW no \in BOOLEAN, ~no,
         NEW reply, reply = Build(buf, no, OP_REPLY, SizeofReply, Len(objs), "EDB_SYS", objs),
         NEW insert, insert = Build(buf, no, OP_INSERT, SizeofInsert, Len(objs), EDB_OK, objs),
         NEW command, command = Build(buf, no, OP_COMMAND, SizeofCommand, Len(objs), EDB_OK, objs),
         NEW delete, delete = Build(buf, no, OP_DELETE, SizeofKeyed, 0, EDB_OK, <<one>>),
         NEW query, query = Build(buf, no, OP_QUERY, SizeofKeyed, 0, EDB_OK, <<one>>),
         NEW insertOne, insertOne = Build(buf, no, OP_INSERT, SizeofInsert, 1, EDB_OK, <<one>>),
         NEW commandOne, commandOne = Build(buf, no, OP_COMMAND, SizeofCommand, 1, EDB_OK, <<one>>)
  PROVE  Inverts(objs, one, reply, insert, command, delete, query, insertOne, commandOne)
<1>1. /\ SizeofReply \in Nat /\ SizeofInsert \in Nat /\ SizeofCommand \in Nat /\ SizeofKeyed \in Nat
  BY DEF SizeofReply, SizeofInsert, SizeofCommand, SizeofKeyed
<1>2. (IF Len(objs) = 0 THEN <<>> ELSE objs) = objs
  BY EmptySeq DEF Objs
<1>3. /\ Fits(reply) /\ Codes(reply.buf.content) = {EDB_OK, EDB_INVALIDARG}
      /\ msgExtraReply(reply.buf.content) =
           [rc |-> EDB_OK, returnCode |-> "EDB_SYS", num |-> Len(objs), data |-> objs]
  <2> DEFINE m == reply.buf.content
  <2>1. /\ reply.rc = EDB_OK /\ m.messageLen <= reply.buf.size /\ m.messageLen \in Nat
        /\ m.messageLen >= SizeofReply /\ m.opCode = OP_REPLY /\ m.num = Len(objs)
        /\ m.returnCode = "EDB_SYS" /\ m.data = objs
    BY <1>1, Built
  <2> HIDE DEF m
  <2>2. /\ msgExtraReply(m) = [rc |-> EDB_OK, returnCode |-> m.returnCode, num |-> m.num,
                               data |-> IF m.num = 0 THEN <<>> ELSE m.data]
        /\ msgExtractInsert(m).rc = EDB_INVALIDARG /\ msgExtractDelete(m).rc = EDB_INVALIDARG
        /\ msgExtractQuery(m).rc = EDB_INVALIDARG /\ msgExtractCommand(m).rc = EDB_INVALIDARG
    BY <2>1, Extracted
  <2>3. msgExtraReply(m) = [rc |-> EDB_OK, returnCode |-> "EDB_SYS", num |-> Len(objs), data |-> objs]
    BY <1>2, <2>1, <2>2
  <2>4. Codes(m) = {EDB_OK, EDB_INVALIDARG}
    BY <2>2, <2>3 DEF Codes
  <2> QED
    BY <2>1, <2>3, <2>4 DEF Fits, m
<1>4. /\ Fits(insert) /\ Codes(insert.buf.content) = {EDB_OK, EDB_INVALIDARG}
      /\ msgExtractInsert(insert.buf.content) = [rc |-> EDB_OK, num |-> Len(objs), data |-> objs]
  <2> DEFINE m == insert.buf.content
  <2>1. /\ insert.rc = EDB_OK /\ m.messageLen <= insert.buf.size /\ m.messageLen \in Nat
        /\ m.messageLen >= SizeofInsert /\ m.opCode = OP_INSERT /\ m.num = Len(objs) /\ m.data = objs
    BY <1>1, Built
  <2> HIDE DEF m
  <2>2. /\ msgExtractInsert(m) = [rc |-> EDB_OK, num |-> m.num,
                                  data |-> IF m.num = 0 THEN <<>> ELSE m.data]
        /\ msgExtraReply(m).rc = EDB_INVALIDARG /\ msgExtractDelete(m).rc = EDB_INVALIDARG
        /\ msgExtractQuery(m).rc = EDB_INVALIDARG /\ msgExtractCommand(m).rc = EDB_INVALIDARG
    BY <2>1, Extracted
  <2>3. msgExtractInsert(m) = [rc |-> EDB_OK, num |-> Len(objs), data |-> objs]
    BY <1>2, <2>1, <2>2
  <2>4. Codes(m) = {EDB_OK, EDB_INVALIDARG}
    BY <2>2, <2>3 DEF Codes
  <2> QED
    BY <2>1, <2>3, <2>4 DEF Fits, m
<1>5. /\ Fits(command) /\ Codes(command.buf.content) = {EDB_OK, EDB_INVALIDARG}
      /\ msgExtractCommand(command.buf.content) = [rc |-> EDB_OK, num |-> Len(objs), data |-> objs]
  <2> DEFINE m == command.buf.content
  <2>1. /\ command.rc = EDB_OK /\ m.messageLen <= command.buf.size /\ m.messageLen \in Nat
        /\ m.messageLen >= SizeofCommand /\ m.opCode = OP_COMMAND /\ m.num = Len(objs) /\ m.data = objs
    BY <1>1, Built
  <2> HIDE DEF m
  <2>2. /\ msgExtractCommand(m) = [rc |-> EDB_OK, num |-> m.num,
                                   data |-> IF m.num = 0 THEN <<>> ELSE m.data]
        /\ msgExtraReply(m).rc = EDB_INVALIDARG /\ msgExtractDelete(m).rc = EDB_INVALIDARG
        /\ msgExtractQuery(m).rc = EDB_INVALIDARG /\ msgExtractInsert(m).rc = EDB_INVALIDARG
    BY <2>1, Extracted
  <2>3. msgExtractCommand(m) = [rc |-> EDB_OK, num |-> Len(objs), data |-> objs]
    BY <1>2, <2>1, <2>2
  <2>4. Codes(m) = {EDB_OK, EDB_INVALIDARG}
    BY <2>2, <2>3 DEF Codes
  <2> QED
    BY <2>1, <2>3, <2>4 DEF Fits, m
<1>6. /\ Fits(delete) /\ Codes(delete.buf.content) = {EDB_OK, EDB_INVALIDARG}
      /\ msgExtractDelete(delete.buf.content) = [rc |-> EDB_OK, data |-> <<one>>]
  <2> DEFINE m == delete.buf.content
  <2>1. /\ delete.rc = EDB_OK /\ m.messageLen <= delete.buf.size /\ m.messageLen \in Nat
        /\ m.messageLen >= SizeofKeyed /\ m.opCode = OP_DELETE /\ m.data = <<one>>
    BY <1>1, Built
  <2> HIDE DEF m
  <2>2. /\ msgExtractDelete(m) = [rc |-> EDB_OK, data |-> m.data]
        /\ msgExtraReply(m).rc = EDB_INVALIDARG /\ msgExtractInsert(m).rc = EDB_INVALIDARG
        /\ msgExtractQuery(m).rc = EDB_INVALIDARG /\ msgExtractCommand(m).rc = EDB_INVALIDARG
    BY <2>1, Extracted
  <2>3. Codes(m) = {EDB_OK, EDB_INVALIDARG}
    BY <2>2 DEF Codes
  <2> QED
    BY <2>1, <2>2, <2>3 DEF Fits, m
<1>7. /\ Fits(query) /\ Codes(query.buf.content) = {EDB_OK, EDB_INVALIDARG}
      /\ msgExtractQuery(query.buf.content) = [rc |-> EDB_OK, data |-> <<one>>]
  <2> DEFINE m == query.buf.content
  <2>1. /\ query.rc = EDB_OK /\ m.messageLen <= query.buf.size /\ m.messageLen \in Nat
        /\ m.messageLen >= SizeofKeyed /\ m.opCode = OP_QUERY /\ m.data = <<one>>
    BY <1>1, Built
  <2> HIDE DEF m
  <2>2. /\ msgExtractQuery(m) = [rc |-> EDB_OK, data |-> m.data]
        /\ msgExtraReply(m).rc = EDB_INVALIDARG /\ msgExtractInsert(m).rc = EDB_INVALIDARG
        /\ msgExtractDelete(m).rc = EDB_INVALIDARG /\ msgExtractCommand(m).rc = EDB_INVALIDARG
    BY <2>1, Extracted
  <2>3. Codes(m) = {EDB_OK, EDB_INVALIDARG}
    BY <2>2 DEF Codes
  <2> QED
    BY <2>1, <2>2, <2>3 DEF Fits, m
<1>8. Len(objs) = 1 => insert = insertOne /\ command = commandOne
  BY Zenon
<1> QED
  BY <1>3, <1>4, <1>5, <1>6, <1>7, <1>8, Zenon DEF Inverts

\* The vectors of the property have a size, and the result buffers of the agents are
\* buffers, so its builders do so.
LEMMA BuildersInvert ==
  ASSUME TypeOK PROVE ExtractInvertsBuild
<1> DEFINE One(objs) == IF objs = <<>> THEN EmptyObj ELSE objs[1]
           Vector == {<<>>, <<EmptyObj>>, <<Obj("id"), SnapshotObj>>}
<1>1. ASSUME NEW objs \in Vector
      PROVE  /\ Objs(objs) /\ ObjSizes(objs) \in Nat /\ ObjSizes(<<One(objs)>>) \in Nat
             /\ Len(objs) = 1 => objs = <<One(objs)>>
  <2>1. /\ Obj("id") \in ObjT /\ Obj("id").size = 22 /\ EmptyObj \in ObjT /\ EmptyObj.size = 5
        /\ SnapshotObj \in ObjT /\ SnapshotObj.size = 101
    BY DEF Obj, EmptyObj, SnapshotObj, ObjT
  <2>2. 22 \in Nat /\ 5 \in Nat /\ 101 \in Nat
    OBVIOUS
  <2>3. CASE objs = <<>>
    <3>1. One(objs) = EmptyObj /\ Len(objs) # 1
      BY <2>3
    <3>2. Objs(<<>>)
      BY DEF Objs
    <3>3. ObjSizes(<<EmptyObj>>) \in Nat
      BY <2>1, <2>2, OneObject
    <3> HIDE DEF One
    <3>4. ObjSizes(objs) \in Nat
      BY <2>3, NoObject
    <3> QED
      BY <2>3, <3>1, <3>2, <3>3, <3>4
  <2>4. CASE objs = <<EmptyObj>>
    <3>1. One(objs) = EmptyObj
      BY <2>4
    <3>2. Objs(<<EmptyObj>>)
      BY <2>1 DEF Objs
    <3>3. ObjSizes(<<EmptyObj>>) \in Nat
      BY <2>1, <2>2, OneObject
    <3> HIDE DEF One
    <3> QED
      BY <2>4, <3>1, <3>2, <3>3, Zenon
  <2>5. CASE objs = <<Obj("id"), SnapshotObj>>
    <3>1. One(objs) = Obj("id") /\ Len(objs) # 1
      BY <2>5
    <3>2. Objs(<<Obj("id"), SnapshotObj>>)
      BY <2>1 DEF Objs
    <3>3. ObjSizes(<<Obj("id"), SnapshotObj>>) \in Nat
      BY <2>1, <2>2, TwoObjects
    <3>4. ObjSizes(<<Obj("id")>>) \in Nat
      BY <2>1, <2>2, OneObject
    <3> HIDE DEF One
    <3> QED
      BY <2>5, <3>1, <3>2, <3>3, <3>4, Zenon
  <2> QED
    BY <2>3, <2>4, <2>5
<1>2. ASSUME NEW c \in Conn, NEW objs \in Vector
      PROVE  Inverts(objs, One(objs), msgBuildReply(aReply[c], FALSE, "EDB_SYS", objs),
                     msgBuildInsertVector(aReply[c], FALSE, objs),
                     msgBuildCommandVector(aReply[c], FALSE, objs),
                     msgBuildDelete(aReply[c], FALSE, One(objs)),
                     msgBuildQuery(aReply[c], FALSE, One(objs)),
                     msgBuildInsert(aReply[c], FALSE, One(objs)),
                     msgBuildCommand(aReply[c], FALSE, One(objs)))
  <2>1. PICK no : no \in BOOLEAN /\ no = FALSE
    OBVIOUS
  <2>2. aReply[c] \in [size : Nat, content : Message \cup {Uninitialised}]
    BY DEF TypeOK
  <2> DEFINE one == One(objs)
             reply == msgBuildReply(aReply[c], FALSE, "EDB_SYS", objs)
             insert == msgBuildInsertVector(aReply[c], FALSE, objs)
             command == msgBuildCommandVector(aReply[c], FALSE, objs)
             delete == msgBuildDelete(aReply[c], FALSE, one)
             query == msgBuildQuery(aReply[c], FALSE, one)
             insertOne == msgBuildInsert(aReply[c], FALSE, one)
             commandOne == msgBuildCommand(aReply[c], FALSE, one)
             buf == aReply[c]
  <2>3. Objs(objs) /\ ObjSizes(objs) \in Nat /\ ObjSizes(<<one>>) \in Nat /\ (Len(objs) = 1 => objs = <<one>>)
    BY <1>1
  <2> HIDE DEF One, one
  <2>4. /\ reply = Build(buf, no, OP_REPLY, SizeofReply, Len(objs), "EDB_SYS", objs)
        /\ insert = Build(buf, no, OP_INSERT, SizeofInsert, Len(objs), EDB_OK, objs)
        /\ command = Build(buf, no, OP_COMMAND, SizeofCommand, Len(objs), EDB_OK, objs)
        /\ delete = Build(buf, no, OP_DELETE, SizeofKeyed, 0, EDB_OK, <<one>>)
        /\ query = Build(buf, no, OP_QUERY, SizeofKeyed, 0, EDB_OK, <<one>>)
        /\ insertOne = Build(buf, no, OP_INSERT, SizeofInsert, 1, EDB_OK, <<one>>)
        /\ commandOne = Build(buf, no, OP_COMMAND, SizeofCommand, 1, EDB_OK, <<one>>)
    BY <2>1, Zenon DEF msgBuildReply, msgBuildInsertVector, msgBuildCommandVector, msgBuildDelete,
                       msgBuildQuery, msgBuildInsert, msgBuildCommand
  <2> HIDE DEF reply, insert, command, delete, query, insertOne, commandOne, buf
  <2>5. no \in BOOLEAN /\ ~no
    BY <2>1, Zenon
  <2>6. buf \in [size : Nat, content : Message \cup {Uninitialised}]
    BY <2>2 DEF buf
  <2>7. Inverts(objs, one, reply, insert, command, delete, query, insertOne, commandOne)
    BY <2>3, <2>4, <2>5, <2>6, BuildInverts
  <2> QED
    BY <2>7, Zenon DEF one, reply, insert, command, delete, query, insertOne, commandOne
<1> QED
  BY <1>2, Zenon DEF ExtractInvertsBuild, Inverts, Codes, Fits

-----------------------------------------------------------------------------
(* The theorems.                                                           *)

\* The variables of the shell, of the two streams of every connection and of its agent
\* keep their types, and what links them, IInv, holds in every state: for any number of
\* connections and commands, whichever of them break, time out or are forced to end.
THEOREM Invariance == Spec => [](TypeOK /\ IInv)
<1>1. Init => TypeOK /\ IInv
  BY InitHolds
<1>2. TypeOK /\ IInv /\ [Next]_vars => (TypeOK /\ IInv)'
  BY StepKeeps
<1> QED
  BY <1>1, <1>2, PTL DEF Spec

\* TypeOK holds in every state of the client, the sockets and the agents.
THEOREM TypeCorrect == Spec => []TypeOK
BY Invariance, PTL

\* ossSocket's send and recv split messages into parts as they like: what recv reads next,
\* at the agent (pmdRecv) and in recvReply, is always the length of a message or the body
\* that belongs to the length just read.
THEOREM StreamsStayInSync == Spec => []StreamsInSync
<1>1. TypeOK /\ IInv => StreamsInSync
  BY InvMeans
<1> QED
  BY <1>1, Invariance, PTL

\* pReceiveBuffer of pmdAgentEntryPoint holds the packet and the 0 behind it, and the reply
\* in pResultBuffer is not longer than the buffer, whatever its size was at the start.
THEOREM BuffersAlwaysHold == Spec => []BuffersHold
<1>1. TypeOK /\ IInv => BuffersHold
  BY InvMeans
<1> QED
  BY <1>1, Invariance, PTL

\* handleReply never gets the reply to an earlier request, as long as msgBuildReply has not
\* failed on this connection.
THEOREM ReplyAnswersRequest == Spec => []ReplyIsForRequest
<1>1. TypeOK /\ IInv => ReplyIsForRequest
  BY InvMeans
<1> QED
  BY <1>1, Invariance, PTL

\* An insert whose whole reply the shell read and reported as EDB_OK is in the store, as
\* long as msgBuildReply has not failed.
THEOREM AckedIsStored == Spec => []AckIsTrue
<1>1. TypeOK /\ IInv => AckIsTrue
  BY InvMeans
<1> QED
  BY <1>1, Invariance, PTL

\* pmdProcessAgentRequest runs at most once for a command, and not at all for one that the
\* shell refused or reported as not sent, even when a part of it had gone out.
THEOREM RequestsAtMostOnce == Spec => []AtMostOnce
<1>1. TypeOK /\ IInv => AtMostOnce
  BY InvMeans
<1> QED
  BY <1>1, Invariance, PTL

\* Whatever buffer they are given, the builders of msg.cpp make a message that fits it, and
\* of the extractors only the one of its operation takes the message, and gives back what
\* was built in: none, one or two objects, their number and the return code.
THEOREM ExtractorsInvertBuilders == Spec => []ExtractInvertsBuild
<1>1. TypeOK => ExtractInvertsBuild
  BY BuildersInvert
<1> QED
  BY <1>1, TypeCorrect, PTL

====
