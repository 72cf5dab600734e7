------------------------- MODULE EDUHandoverProofs --------------------------
(***************************************************************************)
(* More theorems of EDUMgr, under the same assumptions: what becomes of a  *)
(* connection that startEDU accepted, and what is left when _destroyAll is *)
(* done.  They rest on the invariant of EDUMgrProofs.                      *)
(***************************************************************************)
EXTENDS EDUMgrProofs, SequenceTheorems

-----------------------------------------------------------------------------
(* The inductive invariant.                                                *)

\* A thread takes itself for forced only when it is.
ForcedSeen == \A e \in EDU : isForced[e] => forced[e]

\* A thread ends only when its control block is deleted.
ExitedIsGone == \A e \in EDU : pc[e] = "exited" => status[e] = "DESTROY"

\* The EDU a startEDU call has chosen is not gone before the post, unless forced.
ChosenLives ==
  \A p \in Caller : callPc[p] = "post" /\ pc[callEdu[p]] = "exited" => forced[callEdu[p]]

\* Only agents get connections.
AgentsGetConns ==
  /\ callArg["main"] = NoConn
  /\ \A p \in Caller : callPc[p] \in InCall => type[callEdu[p]] = CallType(p)
  /\ \A e \in EDU : \A i \in 1..Len(queue[e]) : queue[e][i] \in Conn => type[e] = "AGENT"
  /\ \A e \in EDU : pc[e] \in {"resume", "entry"} /\ data[e] \in Conn => type[e] = "AGENT"

\* A call of startEDU is made by a thread that waits for it.
ListenerCalls == callPc["listener"] # "off" => \E e \in EDU : pc[e] = "lsnCall"
MainCalls == callPc["main"] # "off" => mainPc = "starting"

\* A session that was taken up has its agent until the socket is closed.
ServedByAgent ==
  \A c \in Conn : conn[c] = "served" => \E e \in EDU : pc[e] \in Serving /\ data[e] = c

HInv ==
  /\ ForcedSeen
  /\ ExitedIsGone
  /\ ChosenLives
  /\ AgentsGetConns
  /\ ListenerCalls
  /\ MainCalls
  /\ ServedByAgent
  /\ HandedIsKept
  /\ DestroyAllIsComplete

-----------------------------------------------------------------------------
(* The steps of EDU threads.                                               *)

\* While a thread runs, _destroyAll is not done.
LEMMA NotDone ==
  ASSUME HInv, NEW e \in EDU, pc[e] \notin {"none", "exited"}
  PROVE  mainPc # "done"
  BY DEF HInv, DestroyAllIsComplete

\* A step of a thread that takes up no event and no connection, keeps its control
\* block and stays in its session if it is in one.
LEMMA PlainMove ==
  ASSUME TypeOK, IInv, HInv, NEW e \in EDU, NEW x,
         pc[e] \notin {"none", "exited"}, x # "exited",
         pc' = [pc EXCEPT ![e] = x],
         pc[e] = "lsnCall" => callPc["listener"] = "off",
         pc[e] \in Serving => x \in Serving \/ \A c \in Conn : c = data[e] => conn[c] # "served",
         pc[e] \in {"resume", "entry"} <=> x \in {"resume", "entry"},
         status'[e] \in Live, \A f \in EDU : f # e => status'[f] = status[f],
         UNCHANGED <<type, forced, queue, isForced, data, callPc, callEdu, callArg, mainPc, conn>>
  PROVE  HInv'
<1>1. \A f \in EDU : f # e => pc'[f] = pc[f]
  BY DEF TypeOK
<1>2. pc'[e] = x
  BY DEF TypeOK
<1>3. ForcedSeen' /\ ExitedIsGone' /\ MainCalls'
  BY <1>1, <1>2 DEF HInv, ForcedSeen, ExitedIsGone, MainCalls
<1>4. ChosenLives'
  <2> SUFFICES ASSUME NEW p \in Caller, callPc[p] = "post", pc'[callEdu[p]] = "exited"
               PROVE  forced[callEdu[p]]
    BY DEF ChosenLives
  <2>1. callEdu[p] \in EDU
    BY DEF IInv, CallOwns, InCall
  <2> QED
    BY <1>1, <1>2, <2>1 DEF HInv, ChosenLives
<1>5. AgentsGetConns'
  BY <1>1, <1>2 DEF HInv, AgentsGetConns
<1>6. ListenerCalls'
  BY <1>1, <1>2 DEF HInv, ListenerCalls
<1>7. ServedByAgent'
  BY <1>1, <1>2 DEF HInv, ServedByAgent
<1>8. HandedIsKept'
  BY <1>1, <1>2 DEF HInv, HandedIsKept, InGoodHands
<1>9. DestroyAllIsComplete'
  BY NotDone DEF DestroyAllIsComplete
<1> QED
  BY <1>3, <1>4, <1>5, <1>6, <1>7, <1>8, <1>9 DEF HInv

\* A queue of at most one event, when there is one.
LEMMA OneElement ==
  ASSUME NEW S, NEW q \in Seq(S), q # <<>>, Len(q) <= 1
  PROVE  Len(q) = 1 /\ Head(q) = q[1] /\ Len(Tail(q)) = 0
<1>1. Len(q) = 1
  <2>1. Len(q) \in Nat \ {0}
    BY EmptySeq
  <2> QED
    BY <2>1
<1> QED
  BY <1>1

\* The loop of a thread: waiting, taking an event, calling the entry function and
\* returning the EDU.
LEMMA ThreadLoopHands ==
  ASSUME TypeOK, IInv, HInv, NEW e \in EDU, ThreadLoop(e)
  PROVE  HInv'
<1> USE DEF mgrVars, cbVars, callVars, mainVars, Goto
<1>0. /\ pc[e] \notin {"none", "exited"} /\ status[e] \in Live /\ e \in run \cup idle
      /\ mainPc # "done"
  <2>1. pc[e] \notin {"none", "exited"}
    BY DEF ThreadLoop, WaitBegin, EventArrives, WaitTimeout, Resume, EntryCall, EntryReturn,
           ReturnCheck, SizeCheck, DeactivateEDU, DestroyEDU
  <2> QED
    BY <2>1, NotDone DEF IInv, ThreadHasBlock, QueuesMatchStatus, Live
<1>1. CASE WaitBegin(e)
  <2>1. status'[e] \in Live /\ \A f \in EDU : f # e => status'[f] = status[f]
    BY <1>0, <1>1 DEF WaitBegin, Live, TypeOK
  <2> QED
    BY <1>0, <1>1, <2>1, PlainMove DEF WaitBegin, Serving
<1>2. CASE Resume(e) \/ EntryReturn(e)
  <2>1. status'[e] \in Live /\ \A f \in EDU : f # e => status'[f] = status[f]
    BY <1>0, <1>2 DEF Resume, EntryReturn, AfterWaitEDU, Live, TypeOK
  <2> QED
    BY <1>0, <1>2, <2>1, PlainMove DEF Resume, EntryReturn, Serving
<1>3. CASE ReturnCheck(e) \/ SizeCheck(e)
  <2>1. \E x \in {"top", "destroy", "size", "pool"} : pc' = [pc EXCEPT ![e] = x]
    BY <1>3 DEF ReturnCheck, SizeCheck
  <2>2. pc[e] \in {"return", "size"}
        /\ UNCHANGED <<type, status, forced, queue, isForced, data, callPc, callEdu, callArg, mainPc, conn>>
    BY <1>3 DEF ReturnCheck, SizeCheck
  <2> QED
    BY <1>0, <2>1, <2>2, PlainMove DEF Serving
<1>4. CASE DeactivateEDU(e)
  <2>1. status'[e] \in Live /\ \A f \in EDU : f # e => status'[f] = status[f]
    BY <1>0, <1>4 DEF DeactivateEDU, Live, TypeOK
  <2>2. /\ pc[e] = "pool" /\ pc' = [pc EXCEPT ![e] = "top"]
        /\ UNCHANGED <<type, forced, queue, isForced, data, callPc, callEdu, callArg, mainPc, conn>>
    BY <1>0, <1>4 DEF DeactivateEDU
  <2> QED
    BY <1>0, <2>1, <2>2, PlainMove DEF Serving
<1>5. CASE EventArrives(e)
  <2>1. /\ queue[e] # <<>> /\ pc[e] \in {"wait", "ready"}
        /\ pc'[e] = (IF isForced[e] THEN "return" ELSE "resume") /\ status'[e] = "RUNNING"
        /\ data'[e] = Head(queue[e]) /\ queue'[e] = Tail(queue[e])
        /\ \A f \in EDU : f # e => /\ pc'[f] = pc[f] /\ data'[f] = data[f]
                                   /\ queue'[f] = queue[f] /\ status'[f] = status[f]
        /\ UNCHANGED <<type, forced, isForced, callPc, callEdu, callArg, mainPc, conn>>
    BY <1>5 DEF EventArrives, TypeOK
  <2>2. Len(queue[e]) = 1 /\ Head(queue[e]) = queue[e][1] /\ Len(Tail(queue[e])) = 0
    <3>1. queue[e] \in Seq(Arg) /\ Len(queue[e]) <= 1
      BY DEF IInv, WorkOwns, TypeOK
    <3> QED
      BY <2>1, <3>1, OneElement
  <2>3. ForcedSeen' /\ ExitedIsGone' /\ MainCalls'
    BY <2>1 DEF HInv, ForcedSeen, ExitedIsGone, MainCalls
  <2>4. ChosenLives'
    BY <2>1 DEF HInv, ChosenLives, IInv, CallOwns, InCall
  <2>5. AgentsGetConns'
    <3>1. ASSUME NEW f \in EDU, NEW i \in 1..Len(queue'[f]), queue'[f][i] \in Conn
          PROVE  type[f] = "AGENT"
      <4>1. f = e => FALSE
        <5>1. Len(queue'[e]) = 0
          BY <2>1, <2>2
        <5> QED
          BY <3>1, <5>1
      <4> QED
        BY <2>1, <3>1, <4>1 DEF HInv, AgentsGetConns
    <3>2. ASSUME NEW f \in EDU, pc'[f] \in {"resume", "entry"}, data'[f] \in Conn
          PROVE  type[f] = "AGENT"
      <4>1. CASE f = e
        BY <2>1, <2>2, <3>2, <4>1 DEF HInv, AgentsGetConns
      <4>2. CASE f # e
        BY <2>1, <3>2, <4>2 DEF HInv, AgentsGetConns
      <4> QED
        BY <4>1, <4>2
    <3> QED
      BY <2>1, <3>1, <3>2 DEF HInv, AgentsGetConns
  <2>6. ListenerCalls' /\ ServedByAgent'
    BY <2>1 DEF HInv, ListenerCalls, ServedByAgent, Serving
  <2>7. HandedIsKept'
    <3> SUFFICES ASSUME \A f \in EDU : ~forced[f], NEW c \in Conn, conn[c] = "handed"
                 PROVE  InGoodHands(c)'
      BY <2>1 DEF HandedIsKept
    <3>1. PICK f \in EDU : /\ status[f] \in Live
                           /\ \/ \E i \in 1..Len(queue[f]) : queue[f][i] = c
                              \/ pc[f] \in {"resume", "entry"} /\ data[f] = c
      BY DEF HInv, HandedIsKept, InGoodHands
    <3>2. CASE f = e
      BY <2>1, <2>2, <3>1, <3>2 DEF HInv, ForcedSeen, InGoodHands, Live
    <3>3. CASE f # e
      BY <2>1, <3>1, <3>3 DEF InGoodHands
    <3> QED
      BY <3>2, <3>3
  <2>8. DestroyAllIsComplete'
    BY <1>0, <2>1 DEF DestroyAllIsComplete
  <2> QED
    BY <2>3, <2>4, <2>5, <2>6, <2>7, <2>8 DEF HInv
<1>6. CASE WaitTimeout(e)
  <2>1. /\ pc[e] = "wait"
        /\ pc'[e] = (IF forced[e] THEN "return" ELSE "top")
        /\ isForced'[e] = (isForced[e] \/ forced[e])
        /\ \A f \in EDU : f # e => pc'[f] = pc[f] /\ isForced'[f] = isForced[f]
        /\ UNCHANGED <<type, status, forced, queue, data, callPc, callEdu, callArg, mainPc, conn>>
    BY <1>6 DEF WaitTimeout, TypeOK
  <2>2. ForcedSeen' /\ ExitedIsGone' /\ MainCalls'
    BY <2>1 DEF HInv, ForcedSeen, ExitedIsGone, MainCalls
  <2>3. ChosenLives'
    BY <2>1 DEF HInv, ChosenLives, IInv, CallOwns, InCall
  <2>4. AgentsGetConns' /\ ListenerCalls' /\ ServedByAgent'
    BY <2>1 DEF HInv, AgentsGetConns, ListenerCalls, ServedByAgent, Serving
  <2>5. HandedIsKept'
    BY <2>1 DEF HInv, HandedIsKept, InGoodHands
  <2>6. DestroyAllIsComplete'
    BY <1>0, <2>1 DEF DestroyAllIsComplete
  <2> QED
    BY <2>2, <2>3, <2>4, <2>5, <2>6 DEF HInv
<1>7. CASE EntryCall(e)
  <2>1. /\ pc[e] = "entry" /\ pc'[e] \notin {"exited", "resume", "entry"}
        /\ (type[e] = "AGENT" => pc'[e] = "agtPoll")
        /\ \A f \in EDU : f # e => pc'[f] = pc[f]
        /\ \A c \in Conn : conn'[c] = IF c = data[e] /\ type[e] = "AGENT" THEN "served" ELSE conn[c]
        /\ UNCHANGED <<type, status, forced, queue, isForced, data, callPc, callEdu, callArg, mainPc>>
    BY <1>7 DEF EntryCall, TypeOK
  <2>2. ForcedSeen' /\ ExitedIsGone' /\ MainCalls'
    BY <2>1 DEF HInv, ForcedSeen, ExitedIsGone, MainCalls
  <2>3. ChosenLives'
    BY <2>1 DEF HInv, ChosenLives, IInv, CallOwns, InCall
  <2>4. AgentsGetConns' /\ ListenerCalls'
    BY <2>1 DEF HInv, AgentsGetConns, ListenerCalls
  <2>5. ServedByAgent'
    BY <2>1 DEF HInv, ServedByAgent, Serving
  <2>6. HandedIsKept'
    BY <2>1 DEF HInv, HandedIsKept, InGoodHands, AgentsGetConns
  <2>7. DestroyAllIsComplete'
    BY <1>0, <2>1 DEF DestroyAllIsComplete
  <2> QED
    BY <2>2, <2>3, <2>4, <2>5, <2>6, <2>7 DEF HInv
<1>8. CASE DestroyEDU(e)
  <2>1. /\ pc[e] = "destroy" /\ pc'[e] \in {"exited", "top"}
        /\ pc'[e] = "exited" => status'[e] = "DESTROY"
        /\ \A f \in EDU : f # e => pc'[f] = pc[f] /\ status'[f] = status[f]
        /\ UNCHANGED <<type, forced, queue, isForced, data, callPc, callEdu, callArg, mainPc, conn>>
    BY <1>0, <1>8 DEF DestroyEDU, TypeOK
  <2>2. ~isForced[e] => queue[e] = <<>> /\ \A p \in Caller : callPc[p] \in InCall => callEdu[p] # e
    BY <2>1 DEF IInv, WorkOwns, CallOwns, Busy
  <2>3. ForcedSeen' /\ ExitedIsGone' /\ MainCalls'
    BY <2>1 DEF HInv, ForcedSeen, ExitedIsGone, MainCalls
  <2>4. ChosenLives'
    BY <2>1, <2>2 DEF HInv, ChosenLives, ForcedSeen, IInv, CallOwns, InCall
  <2>5. AgentsGetConns' /\ ListenerCalls' /\ ServedByAgent'
    BY <2>1 DEF HInv, AgentsGetConns, ListenerCalls, ServedByAgent, Serving
  <2>6. HandedIsKept'
    <3> SUFFICES ASSUME \A f \in EDU : ~forced[f], NEW c \in Conn, conn[c] = "handed"
                 PROVE  InGoodHands(c)'
      BY <2>1 DEF HandedIsKept
    <3>1. PICK f \in EDU : /\ status[f] \in Live
                           /\ \/ \E i \in 1..Len(queue[f]) : queue[f][i] = c
                              \/ pc[f] \in {"resume", "entry"} /\ data[f] = c
      BY DEF HInv, HandedIsKept, InGoodHands
    <3>2. f # e
      BY <2>1, <2>2, <3>1 DEF HInv, ForcedSeen
    <3> QED
      BY <2>1, <3>1, <3>2 DEF InGoodHands
  <2>7. DestroyAllIsComplete'
    BY <1>0, <2>1 DEF DestroyAllIsComplete
  <2> QED
    BY <2>3, <2>4, <2>5, <2>6, <2>7 DEF HInv
<1> QED
  BY <1>1, <1>2, <1>3, <1>4, <1>5, <1>6, <1>7, <1>8 DEF ThreadLoop

\* The listener: only it calls startEDU for a connection, and it waits for the call.
LEMMA ListenerHands ==
  ASSUME TypeOK, IInv, HInv, NEW e \in EDU, Listener(e)
  PROVE  HInv'
<1> USE DEF mgrVars, cbVars, callVars, mainVars, Goto
<1>0. pc[e] \in Session \ {"resume", "entry"} /\ pc[e] \notin Serving /\ status[e] \in Live /\ mainPc # "done"
  <2>1. pc[e] \in Session \ {"resume", "entry"} /\ pc[e] \notin Serving
    BY DEF Listener, LsnOpen, LsnGiveUp, LsnLoop, LsnTimeout, LsnAccept, LsnError, LsnStarted,
           LsnReject, LsnBreak, Session, Serving
  <2> QED
    BY <2>1, NotDone DEF IInv, ThreadHasBlock, Session
<1>1. CASE LsnOpen(e) \/ LsnBreak(e)
  <2>1. status'[e] \in Live /\ \A f \in EDU : f # e => status'[f] = status[f]
    BY <1>0, <1>1 DEF LsnOpen, LsnBreak, Activate, AfterWaitEDU, Live, TypeOK
  <2>2. \E x \in {"lsnLoop", "lsnOpen", "entryRet"} : pc' = [pc EXCEPT ![e] = x]
    BY <1>1 DEF LsnOpen, LsnBreak
  <2>3. /\ pc[e] # "lsnCall"
        /\ UNCHANGED <<type, forced, queue, isForced, data, callPc, callEdu, callArg, mainPc, conn>>
    BY <1>1 DEF LsnOpen, LsnBreak
  <2> QED
    BY <1>0, <2>1, <2>2, <2>3, PlainMove DEF Session
<1>2. CASE LsnGiveUp(e) \/ LsnLoop(e) \/ LsnTimeout(e) \/ LsnError(e) \/ LsnStarted(e)
  <2>1. \E x \in {"lsnLoop", "lsnAccept", "lsnBreak", "entryRet"} : pc' = [pc EXCEPT ![e] = x]
    BY <1>2 DEF LsnGiveUp, LsnLoop, LsnTimeout, LsnError, LsnStarted
  <2>2. /\ pc[e] = "lsnCall" => callPc["listener"] = "off"
        /\ UNCHANGED <<type, status, forced, queue, isForced, data, callPc, callEdu, callArg, mainPc, conn>>
    BY <1>2 DEF LsnGiveUp, LsnLoop, LsnTimeout, LsnError, LsnStarted
  <2> QED
    BY <1>0, <2>1, <2>2, PlainMove DEF Session
<1>3. CASE LsnAccept(e) \/ LsnReject(e)
  <2>1. /\ pc'[e] \in {"lsnCall", "lsnLoop"}
        /\ callPc'["listener"] # "off" => pc'[e] = "lsnCall"
        /\ callPc'["listener"] \in {"quiesce", "off"}
        /\ callPc'["main"] = callPc["main"] /\ callArg'["main"] = callArg["main"]
        /\ \A f \in EDU : f # e => pc'[f] = pc[f]
        /\ \A c \in Conn : conn'[c] \in {"handed", "served"} => conn'[c] = conn[c]
        /\ UNCHANGED <<type, status, forced, queue, isForced, data, callEdu, mainPc>>
    BY <1>3 DEF LsnAccept, LsnReject, CallGoto, Caller, TypeOK
  <2>2. \A p \in Caller : callPc'[p] \in InCall => callPc[p] = callPc'[p]
    BY <2>1 DEF Caller, InCall
  <2>3. ForcedSeen' /\ ExitedIsGone' /\ MainCalls' /\ ListenerCalls'
    BY <2>1 DEF HInv, ForcedSeen, ExitedIsGone, MainCalls, ListenerCalls
  <2>4. ChosenLives'
    BY <1>0, <2>1, <2>2 DEF HInv, ChosenLives, IInv, CallOwns, InCall
  <2>5. AgentsGetConns'
    BY <2>1, <2>2 DEF HInv, AgentsGetConns
  <2>6. ServedByAgent' /\ HandedIsKept'
    BY <1>0, <2>1 DEF HInv, ServedByAgent, HandedIsKept, InGoodHands
  <2>7. DestroyAllIsComplete'
    BY <1>0, <2>1 DEF DestroyAllIsComplete
  <2> QED
    BY <2>3, <2>4, <2>5, <2>6, <2>7 DEF HInv
<1> QED
  BY <1>1, <1>2, <1>3 DEF Listener

\* An agent keeps its session until it has closed the socket.
LEMMA AgentHands ==
  ASSUME TypeOK, IInv, HInv, NEW e \in EDU, Agent(e)
  PROVE  HInv'
<1> USE DEF mgrVars, cbVars, callVars, mainVars, Goto
<1>0. pc[e] \in Serving /\ status[e] \in Live /\ mainPc # "done"
  <2>1. pc[e] \in Serving
    BY DEF Agent, AgtPoll, AgtTimeout, AgtData, AgtLength, AgtFail, AgtRequest, AgtSend, AgtReply,
           AgtDisconnect, AgtSendFail, AgtClose, Serving
  <2> QED
    BY <2>1, NotDone DEF IInv, ThreadHasBlock, Serving
<1>1. CASE \/ AgtPoll(e) \/ AgtTimeout(e) \/ AgtData(e) \/ AgtLength(e) \/ AgtFail(e)
           \/ AgtSend(e) \/ AgtSendFail(e)
  <2>1. \E x \in Serving : pc' = [pc EXCEPT ![e] = x]
    BY <1>1 DEF AgtPoll, AgtTimeout, AgtData, AgtLength, AgtFail, AgtSend, AgtSendFail, Serving
  <2>2. UNCHANGED <<type, status, forced, queue, isForced, data, callPc, callEdu, callArg, mainPc, conn>>
    BY <1>1 DEF AgtPoll, AgtTimeout, AgtData, AgtLength, AgtFail, AgtSend, AgtSendFail
  <2> QED
    BY <1>0, <2>1, <2>2, PlainMove DEF Serving
<1>2. CASE AgtRequest(e) \/ AgtReply(e) \/ AgtDisconnect(e)
  <2>1. status'[e] \in Live /\ \A f \in EDU : f # e => status'[f] = status[f]
    BY <1>0, <1>2 DEF AgtRequest, AgtReply, AgtDisconnect, Activate, AfterWaitEDU, Live, TypeOK
  <2>2. \E x \in Serving : pc' = [pc EXCEPT ![e] = x]
    BY <1>2 DEF AgtRequest, AgtReply, AgtDisconnect, Serving
  <2>3. UNCHANGED <<type, forced, queue, isForced, data, callPc, callEdu, callArg, mainPc, conn>>
    BY <1>2 DEF AgtRequest, AgtReply, AgtDisconnect
  <2> QED
    BY <1>0, <2>1, <2>2, <2>3, PlainMove DEF Serving
<1>3. CASE AgtClose(e)
  <2>1. /\ pc[e] = "agtClose" /\ pc'[e] = "entryRet"
        /\ \A f \in EDU : f # e => pc'[f] = pc[f]
        /\ \A c \in Conn : conn'[c] = IF c = data[e] THEN "closed" ELSE conn[c]
        /\ UNCHANGED <<type, status, forced, queue, isForced, data, callPc, callEdu, callArg, mainPc>>
    BY <1>3 DEF AgtClose, TypeOK
  <2>2. ForcedSeen' /\ ExitedIsGone' /\ MainCalls' /\ ListenerCalls'
    BY <2>1 DEF HInv, ForcedSeen, ExitedIsGone, MainCalls, ListenerCalls
  <2>3. ChosenLives'
    BY <2>1 DEF HInv, ChosenLives, IInv, CallOwns, InCall
  <2>4. AgentsGetConns' /\ ServedByAgent'
    BY <2>1 DEF HInv, AgentsGetConns, ServedByAgent
  <2>5. HandedIsKept'
    BY <2>1 DEF HInv, HandedIsKept, InGoodHands
  <2>6. DestroyAllIsComplete'
    BY <1>0, <2>1 DEF DestroyAllIsComplete
  <2> QED
    BY <2>2, <2>3, <2>4, <2>5, <2>6 DEF HInv
<1> QED
  BY <1>1, <1>2, <1>3 DEF Agent

-----------------------------------------------------------------------------
(* The steps of startEDU calls, of the main thread and of the signal.      *)

\* A startEDU call that goes on changes no connection, and while it chooses no EDU
\* and ends no thread nothing is lost.
LEMMA CallHands ==
  ASSUME TypeOK, IInv, HInv, NEW p \in Caller, NEW x,
         callPc[p] # "off", callPc' = [callPc EXCEPT ![p] = x], x \notin InCall,
         UNCHANGED <<type, status, forced, queue, pc, isForced, data, callEdu, callArg, mainPc, conn>>
  PROVE  HInv'
<1>1. \A q \in Caller : q # p => callPc'[q] = callPc[q]
  BY DEF TypeOK
<1>2. callPc'[p] = x
  BY DEF TypeOK
<1>3. ForcedSeen' /\ ExitedIsGone' /\ ServedByAgent'
  BY DEF HInv, ForcedSeen, ExitedIsGone, ServedByAgent
<1>4. ListenerCalls' /\ MainCalls'
  BY <1>1 DEF HInv, ListenerCalls, MainCalls, Caller
<1>5. ChosenLives'
  BY <1>1, <1>2 DEF HInv, ChosenLives, InCall
<1>6. AgentsGetConns'
  BY <1>1, <1>2 DEF HInv, AgentsGetConns
<1>7. HandedIsKept'
  BY DEF HInv, HandedIsKept, InGoodHands
<1>8. DestroyAllIsComplete'
  BY DEF HInv, DestroyAllIsComplete
<1> QED
  BY <1>3, <1>4, <1>5, <1>6, <1>7, <1>8 DEF HInv

\* startEDU chooses an EDU, from the pool or a new one: it has no work, and its type
\* becomes that of the call.
LEMMA ChooseHands ==
  ASSUME TypeOK, IInv, HInv, NEW p \in Caller, NEW e \in EDU, NEW x \in InCall, NEW st \in Live,
         callPc[p] \notin InCall \cup {"off"}, callPc' = [callPc EXCEPT ![p] = x],
         callEdu' = [callEdu EXCEPT ![p] = e],
         type' = [type EXCEPT ![e] = CallType(p)],
         status' = [status EXCEPT ![e] = st],
         pc[e] # "exited", queue[e] = <<>>, pc[e] \notin {"resume", "entry"},
         \A q \in Caller : callPc[q] \in InCall => callEdu[q] # e,
         UNCHANGED <<forced, queue, pc, isForced, data, callArg, mainPc, conn>>
  PROVE  HInv'
<1>1. /\ \A q \in Caller : q # p => callPc'[q] = callPc[q] /\ callEdu'[q] = callEdu[q]
      /\ callPc'[p] = x /\ callEdu'[p] = e
  BY DEF TypeOK
<1>2. /\ \A f \in EDU : f # e => type'[f] = type[f] /\ status'[f] = status[f]
      /\ type'[e] = CallType(p) /\ status'[e] = st
  BY DEF TypeOK
<1>3. Len(queue[e]) = 0
  OBVIOUS
<1>4. ForcedSeen' /\ ExitedIsGone' /\ ServedByAgent'
  BY <1>2 DEF HInv, ForcedSeen, ExitedIsGone, ServedByAgent
<1>5. ListenerCalls' /\ MainCalls'
  BY <1>1 DEF HInv, ListenerCalls, MainCalls, Caller
<1>6. ChosenLives'
  BY <1>1 DEF HInv, ChosenLives
<1>7. AgentsGetConns'
  <2>1. ASSUME NEW q \in Caller, callPc'[q] \in InCall
        PROVE  type'[callEdu'[q]] = CallType(q)
    <3>1. CASE q = p
      BY <1>1, <1>2, <3>1
    <3>2. CASE q # p
      <4>1. callEdu[q] \in EDU /\ callEdu[q] # e
        BY <1>1, <2>1, <3>2 DEF IInv, CallOwns
      <4> QED
        BY <1>1, <1>2, <2>1, <3>2, <4>1 DEF HInv, AgentsGetConns
    <3> QED
      BY <3>1, <3>2
  <2>2. ASSUME NEW f \in EDU, NEW i \in 1..Len(queue[f]), queue[f][i] \in Conn
        PROVE  type'[f] = "AGENT"
    <3>1. f # e
      BY <1>3, <2>2
    <3> QED
      BY <1>2, <2>2, <3>1 DEF HInv, AgentsGetConns
  <2>3. ASSUME NEW f \in EDU, pc[f] \in {"resume", "entry"}, data[f] \in Conn
        PROVE  type'[f] = "AGENT"
    BY <1>2, <2>3 DEF HInv, AgentsGetConns
  <2> QED
    BY <2>1, <2>2, <2>3 DEF HInv, AgentsGetConns
<1>8. HandedIsKept'
  BY <1>2 DEF HInv, HandedIsKept, InGoodHands
<1>9. DestroyAllIsComplete'
  BY DEF HInv, DestroyAllIsComplete
<1> QED
  BY <1>4, <1>5, <1>6, <1>7, <1>8, <1>9 DEF HInv

\* The thread of a new EDU starts, or cannot be started and the EDU is deleted
\* before anybody posted to it.
LEMMA ThreadHands ==
  ASSUME TypeOK, IInv, HInv, NEW p \in Caller, ThreadStart(p) \/ ThreadFail(p)
  PROVE  HInv'
<1> USE DEF mgrVars, cbVars, threadVars, mainVars, CallGoto
<1> DEFINE e == callEdu[p]
<1>1. /\ callPc[p] = "thread" /\ callPc'[p] \in {"post", "rejected"}
      /\ \A q \in Caller : q # p => callPc'[q] = callPc[q]
      /\ UNCHANGED <<type, forced, queue, isForced, data, callEdu, callArg, mainPc, conn>>
  BY DEF ThreadStart, ThreadFail, TypeOK
<1>2. e \in EDU /\ queue[e] = <<>> /\ pc[e] = "none"
  BY <1>1 DEF IInv, CallOwns, InCall
<1>3. /\ \A f \in EDU : f # e => pc'[f] = pc[f] /\ status'[f] = status[f]
      /\ pc'[e] \in {"none", "top"}
  BY <1>2 DEF ThreadStart, ThreadFail, TypeOK
<1>4. Len(queue[e]) = 0
  BY <1>2
<1>5. \A q \in Caller : callPc[q] \in InCall /\ q # p => callEdu[q] # e
  BY <1>1 DEF IInv, CallsApart, InCall
<1>6. ForcedSeen' /\ ExitedIsGone' /\ ServedByAgent'
  BY <1>1, <1>2, <1>3 DEF HInv, ForcedSeen, ExitedIsGone, ServedByAgent, Serving
<1>7. ListenerCalls' /\ MainCalls'
  BY <1>1, <1>2, <1>3 DEF HInv, ListenerCalls, MainCalls, Caller
<1>8. ChosenLives'
  <2> SUFFICES ASSUME NEW q \in Caller, callPc'[q] = "post", pc'[callEdu[q]] = "exited"
               PROVE  forced[callEdu[q]]
    BY <1>1 DEF ChosenLives
  <2>1. q # p
    BY <1>3
  <2>2. callEdu[q] \in EDU /\ callEdu[q] # e
    BY <1>1, <1>5, <2>1 DEF IInv, CallOwns, InCall
  <2> QED
    BY <1>1, <1>3, <2>1, <2>2 DEF HInv, ChosenLives
<1>9. AgentsGetConns'
  BY <1>1, <1>2, <1>3 DEF HInv, AgentsGetConns, InCall
<1>10. HandedIsKept'
  BY <1>1, <1>2, <1>3, <1>4 DEF HInv, HandedIsKept, InGoodHands
<1>11. DestroyAllIsComplete'
  BY <1>1 DEF HInv, DestroyAllIsComplete
<1> QED
  BY <1>6, <1>7, <1>8, <1>9, <1>10, <1>11 DEF HInv

\* startEDU posts the connection: unless somebody was forced, the chosen EDU is
\* alive and its queue takes the event.
LEMMA PostHands ==
  ASSUME TypeOK, IInv, HInv, NEW p \in Caller, Post(p)
  PROVE  HInv'
<1> USE DEF mgrVars, cbVars, threadVars, mainVars, CallGoto
<1> DEFINE e == callEdu[p]
<1>1. /\ callPc[p] = "post" /\ callPc'[p] = "off"
      /\ \A q \in Caller : q # p => callPc'[q] = callPc[q]
      /\ \A c \in Conn : conn'[c] = IF c = callArg[p] THEN "handed" ELSE conn[c]
      /\ UNCHANGED <<type, status, forced, pc, isForced, data, callEdu, callArg, mainPc>>
  BY DEF Post, TypeOK
<1>2. e \in EDU /\ queue[e] = <<>> /\ pc[e] # "none"
  BY <1>1 DEF IInv, CallOwns, InCall
<1>3. /\ \A f \in EDU : f # e => queue'[f] = queue[f]
      /\ queue'[e] = IF status[e] \in Live THEN Append(queue[e], callArg[p]) ELSE queue[e]
  BY <1>2 DEF Post, TypeOK
<1>4. /\ Len(queue[e]) = 0
      /\ Len(Append(queue[e], callArg[p])) = 1
      /\ Append(queue[e], callArg[p])[1] = callArg[p]
  BY <1>2
<1>5. ForcedSeen' /\ ExitedIsGone'
  BY <1>1 DEF HInv, ForcedSeen, ExitedIsGone
<1>6. ListenerCalls' /\ MainCalls'
  BY <1>1 DEF HInv, ListenerCalls, MainCalls, Caller
<1>7. ChosenLives'
  BY <1>1 DEF HInv, ChosenLives
<1>8. AgentsGetConns'
  <2>1. ASSUME NEW f \in EDU, NEW i \in 1..Len(queue'[f]), queue'[f][i] \in Conn
        PROVE  type[f] = "AGENT"
    <3>1. CASE f # e
      BY <1>3, <2>1, <3>1 DEF HInv, AgentsGetConns
    <3>2. CASE f = e
      <4>1. Len(queue'[e]) # 0
        BY <2>1, <3>2
      <4>2. queue'[e] = Append(queue[e], callArg[p])
        BY <1>3, <1>4, <4>1
      <4>3. i = 1
        BY <1>4, <2>1, <3>2, <4>2
      <4>4. callArg[p] \in Conn
        BY <1>4, <2>1, <3>2, <4>2, <4>3
      <4>5. p = "listener"
        BY <4>4, ConnAssumption DEF HInv, AgentsGetConns, Caller
      <4> QED
        BY <1>1, <3>2, <4>5 DEF HInv, AgentsGetConns, CallType, InCall
    <3> QED
      BY <3>1, <3>2
  <2>2. ASSUME NEW q \in Caller, callPc'[q] \in InCall
        PROVE  type[callEdu[q]] = CallType(q)
    BY <1>1, <2>2 DEF HInv, AgentsGetConns, InCall
  <2> QED
    BY <1>1, <2>1, <2>2 DEF HInv, AgentsGetConns
<1>9. ServedByAgent'
  BY <1>1 DEF HInv, ServedByAgent
<1>10. HandedIsKept'
  <2> SUFFICES ASSUME \A f \in EDU : ~forced[f], NEW c \in Conn, conn'[c] = "handed"
               PROVE  InGoodHands(c)'
    BY <1>1 DEF HandedIsKept
  <2>1. CASE c = callArg[p]
    <3>1. pc[e] # "exited"
      BY <1>1, <1>2 DEF HInv, ChosenLives
    <3>2. status[e] \in Live
      BY <1>2, <3>1 DEF IInv, ThreadHasBlock
    <3>3. Len(queue'[e]) = 1 /\ queue'[e][1] = c
      BY <1>3, <1>4, <2>1, <3>2
    <3> QED
      BY <1>1, <1>2, <3>2, <3>3 DEF InGoodHands
  <2>2. CASE c # callArg[p]
    <3>1. PICK f \in EDU : /\ status[f] \in Live
                           /\ \/ \E i \in 1..Len(queue[f]) : queue[f][i] = c
                              \/ pc[f] \in {"resume", "entry"} /\ data[f] = c
      BY <1>1, <2>2 DEF HInv, HandedIsKept, InGoodHands
    <3>2. CASE pc[f] \in {"resume", "entry"} /\ data[f] = c
      BY <1>1, <3>1, <3>2 DEF InGoodHands
    <3>3. CASE \E i \in 1..Len(queue[f]) : queue[f][i] = c
      <4>1. f # e
        BY <1>4, <3>3
      <4> QED
        BY <1>1, <1>3, <3>1, <3>3, <4>1 DEF InGoodHands
    <3> QED
      BY <3>1, <3>2, <3>3
  <2> QED
    BY <2>1, <2>2
<1>11. DestroyAllIsComplete'
  BY <1>1 DEF HInv, DestroyAllIsComplete
<1> QED
  BY <1>5, <1>6, <1>7, <1>8, <1>9, <1>10, <1>11 DEF HInv

\* Every step of a startEDU call.
LEMMA StartEDUHands ==
  ASSUME TypeOK, IInv, HInv, NEW p \in Caller, StartEDU(p)
  PROVE  HInv'
<1> USE DEF mgrVars, cbVars, threadVars, mainVars, CallGoto
<1>1. CASE StartCheck(p) \/ NeedNew(p) \/ CreateCheck(p) \/ CreateOOM(p)
  <2>1. \E x \in CallPc \ InCall : callPc' = [callPc EXCEPT ![p] = x]
    BY <1>1 DEF StartCheck, NeedNew, CreateCheck, CreateOOM, CallPc, InCall
  <2>2. /\ callPc[p] # "off"
        /\ UNCHANGED <<type, status, forced, queue, pc, isForced, data, callEdu, callArg, mainPc, conn>>
    BY <1>1 DEF StartCheck, NeedNew, CreateCheck, CreateOOM
  <2> QED
    BY <2>1, <2>2, CallHands
<1>2. CASE ReusePooled(p)
  <2>1. PICK e \in Ready : /\ type' = [type EXCEPT ![e] = CallType(p)]
                           /\ status' = [status EXCEPT ![e] = "WAITING"]
                           /\ callEdu' = [callEdu EXCEPT ![p] = e]
    BY <1>2 DEF ReusePooled
  <2>2. /\ callPc[p] = "latch" /\ callPc' = [callPc EXCEPT ![p] = "post"]
        /\ UNCHANGED <<forced, queue, pc, isForced, data, callArg, mainPc, conn>>
    BY <1>2 DEF ReusePooled
  <2>3. e \in EDU /\ e \in idle /\ status[e] = "IDLE"
    BY DEF Ready, TypeOK
  <2>4. /\ pc[e] # "exited" /\ queue[e] = <<>> /\ ~Busy(e)
        /\ \A q \in Caller : callPc[q] \in InCall => callEdu[q] # e
    BY <2>3 DEF HInv, ExitedIsGone, IInv, WorkOwns, CallOwns
  <2>5. pc[e] \notin {"resume", "entry"}
    BY <2>4 DEF Busy
  <2>6. "post" \in InCall /\ "WAITING" \in Live /\ callPc[p] \notin InCall \cup {"off"}
    BY <2>2 DEF InCall, Live
  <2> QED
    BY <2>1, <2>2, <2>3, <2>4, <2>5, <2>6, ChooseHands
<1>3. CASE CreateInsert(p)
  <2> DEFINE e == nextId
  <2>1. /\ type' = [type EXCEPT ![e] = CallType(p)]
        /\ status' = [status EXCEPT ![e] = "CREATING"]
        /\ callEdu' = [callEdu EXCEPT ![p] = e]
        /\ callPc[p] = "insert" /\ callPc' = [callPc EXCEPT ![p] = "thread"] /\ e \in EDU
        /\ UNCHANGED <<forced, queue, pc, isForced, data, callArg, mainPc, conn>>
    BY <1>3 DEF CreateInsert
  <2>2. pc[e] = "none" /\ queue[e] = <<>>
    BY <2>1 DEF IInv, FreshIds, TypeOK
  <2>3. \A q \in Caller : callPc[q] \in InCall => callEdu[q] # e
    BY DEF IInv, CallOwns, TypeOK
  <2>4. "thread" \in InCall /\ "CREATING" \in Live /\ callPc[p] \notin InCall \cup {"off"}
    BY <2>1 DEF InCall, Live
  <2> HIDE DEF e
  <2> QED
    BY <2>1, <2>2, <2>3, <2>4, ChooseHands
<1> QED
  BY <1>1, <1>2, <1>3, ThreadHands, PostHands DEF StartEDU

\* The main thread: _destroyAll leaves only when both queues are empty, and then
\* no thread is left that could be in a session or call startEDU.
LEMMA MainHands ==
  ASSUME TypeOK, IInv, HInv, Main \/ Signal
  PROVE  HInv'
<1> USE DEF mgrVars, cbVars, threadVars, callVars, mainVars, CallGoto, MainGoto
<1>1. /\ UNCHANGED <<run, idle, type, status, queue, pc, isForced, data, callEdu, callArg, conn>>
      /\ \A e \in EDU : forced[e] => forced'[e]
      /\ callPc'["listener"] = callPc["listener"]
      /\ callPc'["main"] # "off" => mainPc' = "starting"
      /\ callPc'["main"] \in {callPc["main"], "quiesce", "off"}
      /\ mainPc' = "done" => \/ mainPc = "done" /\ UNCHANGED callPc
                             \/ MainCount /\ run \cup idle = {}
  <2>1. CASE MainStart \/ MainUp
    BY <2>1 DEF MainStart, MainUp, Caller, TypeOK
  <2>2. CASE MainLeave \/ MainQuiesce \/ Signal
    BY <2>2 DEF MainLeave, MainQuiesce, Signal, HInv, MainCalls
  <2>3. CASE MainCount
    BY <2>3 DEF MainCount, EDUsOf, SystemEDUs, HInv, MainCalls
  <2>4. CASE MainForce
    BY <2>4 DEF MainForce, HInv, MainCalls, TypeOK
  <2> QED
    BY <2>1, <2>2, <2>3, <2>4 DEF Main
<1>2. \A q \in Caller : callPc'[q] \in InCall => callPc'[q] = callPc[q]
  BY <1>1 DEF Caller, InCall
<1>3. ForcedSeen' /\ ExitedIsGone' /\ ServedByAgent' /\ ListenerCalls' /\ MainCalls'
  BY <1>1 DEF HInv, ForcedSeen, ExitedIsGone, ServedByAgent, ListenerCalls, MainCalls
<1>4. ChosenLives'
  BY <1>1, <1>2 DEF HInv, ChosenLives, IInv, CallOwns, InCall
<1>5. AgentsGetConns'
  BY <1>1, <1>2 DEF HInv, AgentsGetConns
<1>6. HandedIsKept'
  BY <1>1 DEF HInv, HandedIsKept, InGoodHands
<1>7. DestroyAllIsComplete'
  <2> SUFFICES ASSUME mainPc' = "done"
               PROVE  /\ run = {} /\ idle = {}
                      /\ \A e \in EDU : pc[e] \in {"none", "exited"}
                      /\ \A p \in Caller : callPc'[p] = "off"
                      /\ \A c \in Conn : conn[c] # "served"
    BY <1>1 DEF DestroyAllIsComplete
  <2>1. CASE mainPc = "done" /\ UNCHANGED callPc
    BY <2>1 DEF HInv, DestroyAllIsComplete
  <2>2. CASE MainCount /\ run \cup idle = {}
    <3>1. \A e \in EDU : status[e] \notin Live
      BY <2>2 DEF IInv, QueuesMatchStatus, Live
    <3>2. \A e \in EDU : pc[e] \in {"none", "exited"}
      BY <3>1 DEF IInv, ThreadHasBlock
    <3>3. \A c \in Conn : conn[c] # "served"
      BY <3>2 DEF HInv, ServedByAgent, Serving
    <3>4. callPc["listener"] = "off"
      BY <3>2 DEF HInv, ListenerCalls
    <3>5. callPc'["main"] = "off"
      BY <1>1
    <3> QED
      BY <1>1, <2>2, <3>2, <3>3, <3>4, <3>5 DEF Caller
  <2> QED
    BY <1>1, <2>1, <2>2
<1> QED
  BY <1>3, <1>4, <1>5, <1>6, <1>7 DEF HInv

-----------------------------------------------------------------------------
(* The theorems.                                                           *)

\* The invariant of the hand-over holds in every run of the program.
THEOREM HandInvariance == Spec => []HInv
<1>1. Init => HInv
  <2> SUFFICES ASSUME Init PROVE HInv
    OBVIOUS
  <2>1. ForcedSeen /\ ExitedIsGone /\ ChosenLives /\ ListenerCalls /\ MainCalls /\ ServedByAgent
    BY DEF Init, ForcedSeen, ExitedIsGone, ChosenLives, ListenerCalls, MainCalls, ServedByAgent, Caller
  <2>2. AgentsGetConns
    <3>1. \A e \in EDU : Len(queue[e]) = 0
      BY DEF Init
    <3> QED
      BY <3>1 DEF Init, AgentsGetConns, Caller, InCall
  <2>3. HandedIsKept /\ DestroyAllIsComplete
    BY DEF Init, HandedIsKept, DestroyAllIsComplete
  <2> QED
    BY <2>1, <2>2, <2>3 DEF HInv
<1>2. TypeOK /\ IInv /\ HInv /\ [Next]_vars => HInv'
  <2> SUFFICES ASSUME TypeOK, IInv, HInv, [Next]_vars PROVE HInv'
    OBVIOUS
  <2>1. CASE UNCHANGED vars
    BY <2>1 DEF vars, HInv, ForcedSeen, ExitedIsGone, ChosenLives, AgentsGetConns, ListenerCalls,
                MainCalls, ServedByAgent, HandedIsKept, InGoodHands, DestroyAllIsComplete
  <2>2. CASE \E e \in EDU : Thread(e)
    BY <2>2, ThreadLoopHands, ListenerHands, AgentHands DEF Thread
  <2>3. CASE \E p \in Caller : StartEDU(p)
    BY <2>3, StartEDUHands
  <2>4. CASE Main \/ Signal
    BY <2>4, MainHands
  <2> QED
    BY <2>1, <2>2, <2>3, <2>4 DEF Next, Exited
<1> QED
  BY <1>1, <1>2, TypeCorrect, Invariance, PTL DEF Spec

\* Until _destroyAll forces its first EDU, a connection that startEDU accepted is in
\* the queue of a live EDU or in the hands of its thread: reuse, creation, and the
\* return of EDUs to the pool never lose it.
THEOREM HandedConnIsKept == Spec => []HandedIsKept
<1>1. HInv => HandedIsKept
  BY DEF HInv
<1> QED
  BY <1>1, HandInvariance, PTL

\* When _destroyAll is done, no thread, no startEDU call and no open session is left.
THEOREM ShutdownIsComplete == Spec => []DestroyAllIsComplete
<1>1. HInv => DestroyAllIsComplete
  BY DEF HInv
<1> QED
  BY <1>1, HandInvariance, PTL

=============================================================================
