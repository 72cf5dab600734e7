--------------------------- MODULE EDUMovesProofs ---------------------------
(***************************************************************************)
(* The action properties of EDUMgr: the order in which the status of a     *)
(* control block changes, and the owners a socket goes through.  They rest *)
(* on the invariants of EDUMgrProofs and EDUHandoverProofs.                *)
(***************************************************************************)
EXTENDS EDUHandoverProofs

-----------------------------------------------------------------------------
(* The inductive invariant.                                                *)

ListenerPc == {"lsnOpen", "lsnLoop", "lsnAccept", "lsnCall", "lsnBreak"}

\* A thread that has waited for an event is CREATING no more, and not RUNNING while
\* it waits.
StatusAtWork ==
  \A e \in EDU : /\ pc[e] \notin {"none", "top"} => status[e] # "CREATING"
                 /\ pc[e] \in {"wait", "ready"} => status[e] # "RUNNING"

\* An EDU gets its type with its id.
TypeIsKnown == \A e \in EDU : e < nextId => type[e] # "UNKNOWN"

\* There is one listener: the main thread calls startEDU once.
Before == {"quiesce", "latch", "quiesce2", "insert"}
NoListener == \A e \in EDU : type[e] # "TCPLISTENER"
OneListener ==
  /\ \A e, f \in EDU : type[e] = "TCPLISTENER" /\ type[f] = "TCPLISTENER" => e = f
  /\ mainPc = "boot" => NoListener
  /\ callPc["main"] \in Before => NoListener
  /\ \A e \in EDU : pc[e] \in ListenerPc => type[e] = "TCPLISTENER"

LInv == TypeIsKnown /\ OneListener

\* EDU e is to serve, or serves, connection c.
Queued(e, c) == \E i \in 1..Len(queue[e]) : queue[e][i] = c
Taken(e, c) == pc[e] \in {"resume", "entry"} /\ data[e] = c
Serves(e, c) == pc[e] \in Serving /\ data[e] = c
Holds(e, c) == Queued(e, c) \/ Taken(e, c) \/ Serves(e, c)

\* The argument of the listener's call is a connection it has accepted.
ArgOK == callPc["listener"] # "off" => /\ callArg["listener"] \in Conn
                                       /\ conn[callArg["listener"]] = "listener"

\* Whose hands a connection is in is what the state of its socket says, and no two
\* EDUs have the same one.
ConnOK(c) ==
  /\ conn[c] = "listener" => callPc["listener"] # "off" /\ callArg["listener"] = c
  /\ conn[c] = "served" => \E e \in EDU : Serves(e, c)
  /\ \A e \in EDU : Queued(e, c) \/ Taken(e, c) => conn[c] = "handed"
  /\ \A e \in EDU : Serves(e, c) => conn[c] = "served"
  /\ \A e, f \in EDU : Holds(e, c) /\ Holds(f, c) => e = f

CInv == ArgOK /\ \A c \in Conn : ConnOK(c)

-----------------------------------------------------------------------------
(* The status of a control block.                                          *)

\* A step of a thread that leaves the statuses alone, or changes its own: when it
\* goes to wait, it is not RUNNING and not CREATING.
LEMMA OwnStatus ==
  ASSUME TypeOK, StatusAtWork, NEW e \in EDU, NEW x,
         pc' = [pc EXCEPT ![e] = x], pc[e] # "none",
         \A f \in EDU : f # e => status'[f] = status[f],
         x = "top" \/ status'[e] # "CREATING",
         x \in {"wait", "ready"} => status'[e] # "RUNNING"
  PROVE  StatusAtWork'
<1>1. pc'[e] = x /\ \A f \in EDU : f # e => pc'[f] = pc[f]
  BY DEF TypeOK
<1> QED
  BY <1>1 DEF StatusAtWork

\* A step moves the status of EDU e as the table allows.
MovesOne(e) == <<status[e], status'[e]>> \in StatusMove \/ status'[e] = status[e]

\* waitEDU changes one status, from RUNNING to WAITING.
LEMMA WaitStatus ==
  ASSUME TypeOK, NEW e \in EDU, status' = AfterWaitEDU(e)
  PROVE  /\ \/ status'[e] = status[e]
            \/ status[e] = "RUNNING" /\ status'[e] = "WAITING"
         /\ \A f \in EDU : f # e => status'[f] = status[f]
  BY DEF AfterWaitEDU, TypeOK

\* activateEDU makes an EDU RUNNING that works, so it was WAITING or RUNNING.
LEMMA ActivateStatus ==
  ASSUME TypeOK, IInv, StatusAtWork, NEW e \in EDU, Activate(e),
         Busy(e), pc[e] \notin {"none", "top", "exited"}
  PROVE  /\ status[e] \in {"WAITING", "RUNNING"} /\ status'[e] = "RUNNING"
         /\ \A f \in EDU : f # e => status'[f] = status[f]
<1>1. status'[e] = "RUNNING" /\ \A f \in EDU : f # e => status'[f] = status[f]
  BY DEF Activate, TypeOK
<1>2. status[e] \in Live /\ status[e] # "CREATING"
  BY DEF IInv, ThreadHasBlock, StatusAtWork
<1>3. status[e] # "IDLE"
  BY DEF IInv, WorkOwns, QueuesMatchStatus
<1> QED
  BY <1>1, <1>2, <1>3 DEF Live

\* The loop of a thread.
LEMMA LoopStatus ==
  ASSUME TypeOK, IInv, StatusAtWork, NEW e \in EDU, ThreadLoop(e)
  PROVE  StatusAtWork' /\ (\A f \in EDU : MovesOne(f))
<1> USE DEF mgrVars, cbVars, callVars, mainVars, Goto
<1>0. /\ pc[e] \notin {"none", "exited"} /\ status[e] \in Live
      /\ e \in idle <=> status[e] = "IDLE"
  <2>1. pc[e] \notin {"none", "exited"}
    BY DEF ThreadLoop, WaitBegin, EventArrives, WaitTimeout, Resume, EntryCall, EntryReturn,
           ReturnCheck, SizeCheck, DeactivateEDU, DestroyEDU
  <2> QED
    BY <2>1 DEF IInv, ThreadHasBlock, QueuesMatchStatus
<1>1. CASE WaitBegin(e)
  <2>1. /\ pc' = [pc EXCEPT ![e] = IF queue[e] = <<>> THEN "wait" ELSE "ready"]
        /\ status'[e] = IF status[e] = "IDLE" THEN "IDLE" ELSE "WAITING"
        /\ \A f \in EDU : f # e => status'[f] = status[f]
    BY <1>1 DEF WaitBegin, TypeOK
  <2>2. StatusAtWork'
    BY <1>0, <2>1, OwnStatus
  <2>3. \A f \in EDU : MovesOne(f)
    BY <1>0, <2>1 DEF MovesOne, StatusMove, Live
  <2> QED
    BY <2>2, <2>3
<1>2. CASE EventArrives(e)
  <2>1. /\ pc[e] \in {"wait", "ready"} /\ queue[e] # <<>>
        /\ pc' = [pc EXCEPT ![e] = IF isForced[e] THEN "return" ELSE "resume"]
        /\ status'[e] = "RUNNING"
        /\ \A f \in EDU : f # e => status'[f] = status[f]
    BY <1>2 DEF EventArrives, TypeOK
  <2>2. StatusAtWork'
    BY <1>0, <2>1, OwnStatus
  <2>3. status[e] = "WAITING"
    BY <1>0, <2>1 DEF StatusAtWork, Live, IInv, WorkOwns
  <2>4. \A f \in EDU : MovesOne(f)
    BY <2>1, <2>3 DEF MovesOne, StatusMove
  <2> QED
    BY <2>2, <2>4
<1>3. CASE WaitTimeout(e) \/ EntryCall(e) \/ ReturnCheck(e) \/ SizeCheck(e)
  <2>1. PICK x \in ThreadPc \ {"wait", "ready"} : pc' = [pc EXCEPT ![e] = x]
    BY <1>3 DEF ThreadPc, WaitTimeout, EntryCall, ReturnCheck, SizeCheck
  <2>2. status' = status /\ pc[e] # "top"
    BY <1>3 DEF WaitTimeout, EntryCall, ReturnCheck, SizeCheck
  <2>3. StatusAtWork'
    BY <1>0, <2>1, <2>2, OwnStatus DEF StatusAtWork
  <2> QED
    BY <2>2, <2>3 DEF MovesOne
<1>4. CASE Resume(e) \/ EntryReturn(e)
  <2>1. PICK x \in {"entry", "return"} : pc' = [pc EXCEPT ![e] = x]
    BY <1>4 DEF Resume, EntryReturn
  <2>2. status' = AfterWaitEDU(e)
    BY <1>4 DEF Resume, EntryReturn
  <2>3. pc[e] # "top"
    BY <1>4 DEF Resume, EntryReturn
  <2>4. StatusAtWork'
    BY <1>0, <2>1, <2>2, <2>3, WaitStatus, OwnStatus DEF StatusAtWork
  <2>5. \A f \in EDU : MovesOne(f)
    BY <2>2, WaitStatus DEF MovesOne, StatusMove
  <2> QED
    BY <2>4, <2>5
<1>5. CASE DeactivateEDU(e)
  <2>1. PICK x \in {"top", "exited"} : pc' = [pc EXCEPT ![e] = x]
    BY <1>5 DEF DeactivateEDU
  <2>2. /\ \/ status'[e] = status[e]
           \/ status[e] \in {"WAITING", "CREATING"} /\ status'[e] = "IDLE"
        /\ \A f \in EDU : f # e => status'[f] = status[f]
    BY <1>5 DEF DeactivateEDU, TypeOK
  <2>3. status[e] # "CREATING" /\ pc[e] = "pool"
    BY <1>5 DEF DeactivateEDU, StatusAtWork
  <2>4. StatusAtWork'
    BY <1>0, <2>1, <2>2, <2>3, OwnStatus
  <2>5. \A f \in EDU : MovesOne(f)
    BY <2>2, <2>3 DEF MovesOne, StatusMove
  <2> QED
    BY <2>4, <2>5
<1>6. CASE DestroyEDU(e)
  <2>1. PICK x \in {"top", "exited"} : pc' = [pc EXCEPT ![e] = x]
    BY <1>6 DEF DestroyEDU
  <2>2. /\ \/ status'[e] = status[e]
           \/ status[e] \in {"WAITING", "CREATING", "IDLE"} /\ status'[e] = "DESTROY"
        /\ \A f \in EDU : f # e => status'[f] = status[f]
    BY <1>6 DEF DestroyEDU, TypeOK
  <2>3. status[e] # "CREATING" /\ pc[e] = "destroy"
    BY <1>6 DEF DestroyEDU, StatusAtWork
  <2>4. StatusAtWork'
    BY <1>0, <2>1, <2>2, <2>3, OwnStatus
  <2>5. \A f \in EDU : MovesOne(f)
    BY <2>2, <2>3 DEF MovesOne, StatusMove
  <2> QED
    BY <2>4, <2>5
<1> QED
  BY <1>1, <1>2, <1>3, <1>4, <1>5, <1>6 DEF ThreadLoop

\* The listener and the agents.
LEMMA SessionStatus ==
  ASSUME TypeOK, IInv, StatusAtWork, NEW e \in EDU, Listener(e) \/ Agent(e)
  PROVE  StatusAtWork' /\ (\A f \in EDU : MovesOne(f))
<1> USE DEF mgrVars, cbVars, callVars, mainVars, Goto
<1> DEFINE Step(x) == pc' = [pc EXCEPT ![e] = x]
<1>0. Busy(e) /\ pc[e] \notin {"none", "top", "exited"} /\ status[e] # "CREATING"
  <2>1. pc[e] \in ListenerPc \cup Serving
    BY DEF Listener, LsnOpen, LsnGiveUp, LsnLoop, LsnTimeout, LsnAccept, LsnError, LsnStarted,
           LsnReject, LsnBreak, Agent, AgtPoll, AgtTimeout, AgtData, AgtLength, AgtFail,
           AgtRequest, AgtSend, AgtReply, AgtDisconnect, AgtSendFail, AgtClose, ListenerPc, Serving
  <2> QED
    BY <2>1 DEF Busy, ListenerPc, Serving, StatusAtWork
<1>1. \E x \in ListenerPc \cup Serving \cup {"entryRet"} : Step(x)
  <2>1. CASE Listener(e)
    BY <2>1 DEF Listener, LsnOpen, LsnGiveUp, LsnLoop, LsnTimeout, LsnAccept, LsnError, LsnStarted,
           LsnReject, LsnBreak, ListenerPc
  <2>2. CASE Agent(e)
    BY <2>2 DEF Agent, AgtPoll, AgtTimeout, AgtData, AgtLength, AgtFail, AgtRequest, AgtSend,
           AgtReply, AgtDisconnect, AgtSendFail, AgtClose, Serving
  <2> QED
    BY <2>1, <2>2
<1>2. status' = status \/ status' = AfterWaitEDU(e) \/ Activate(e)
  BY DEF Listener, LsnOpen, LsnGiveUp, LsnLoop, LsnTimeout, LsnAccept, LsnError, LsnStarted,
         LsnReject, LsnBreak, Agent, AgtPoll, AgtTimeout, AgtData, AgtLength, AgtFail, AgtRequest,
         AgtSend, AgtReply, AgtDisconnect, AgtSendFail, AgtClose
<1>3. /\ \/ status'[e] = status[e]
         \/ status[e] = "RUNNING" /\ status'[e] = "WAITING"
         \/ status[e] \in {"WAITING", "RUNNING"} /\ status'[e] = "RUNNING"
      /\ \A f \in EDU : f # e => status'[f] = status[f]
  BY <1>0, <1>2, WaitStatus, ActivateStatus
<1>4. StatusAtWork'
  BY <1>0, <1>1, <1>3, OwnStatus DEF ListenerPc, Serving
<1>5. \A f \in EDU : MovesOne(f)
  BY <1>3 DEF MovesOne, StatusMove
<1> QED
  BY <1>4, <1>5

\* The steps of a startEDU call.
LEMMA CallStatus ==
  ASSUME TypeOK, IInv, StatusAtWork, NEW p \in Caller, StartEDU(p)
  PROVE  StatusAtWork' /\ (\A f \in EDU : MovesOne(f))
<1> USE DEF mgrVars, cbVars, threadVars, mainVars, CallGoto
<1>1. CASE StartCheck(p) \/ NeedNew(p) \/ CreateCheck(p) \/ CreateOOM(p) \/ Post(p)
  <2>1. UNCHANGED <<pc, status>>
    BY <1>1 DEF StartCheck, NeedNew, CreateCheck, CreateOOM, Post
  <2> QED
    BY <2>1 DEF StatusAtWork, MovesOne
<1>2. CASE ReusePooled(p)
  <2>1. pc' = pc
    BY <1>2 DEF ReusePooled
  <2>2. PICK e \in idle : status[e] = "IDLE" /\ status' = [status EXCEPT ![e] = "WAITING"]
    BY <1>2 DEF ReusePooled, Ready
  <2>3. e \in EDU
    BY <2>2 DEF TypeOK
  <2>4. status'[e] = "WAITING" /\ \A f \in EDU : f # e => status'[f] = status[f]
    BY <2>2, <2>3 DEF TypeOK
  <2>5. StatusAtWork'
    BY <2>1, <2>4 DEF StatusAtWork
  <2>6. \A f \in EDU : MovesOne(f)
    BY <2>2, <2>4 DEF MovesOne, StatusMove
  <2> QED
    BY <2>5, <2>6
<1>3. CASE CreateInsert(p)
  <2>1. pc' = pc /\ nextId \in EDU /\ status' = [status EXCEPT ![nextId] = "CREATING"]
    BY <1>3 DEF CreateInsert
  <2>2. status'[nextId] = "CREATING" /\ \A f \in EDU : f # nextId => status'[f] = status[f]
    BY <2>1 DEF TypeOK
  <2>3. pc[nextId] = "none" /\ status[nextId] = "NONE"
    <3>1. nextId >= nextId
      BY DEF TypeOK
    <3> QED
      BY <2>1, <3>1 DEF IInv, FreshIds
  <2>4. StatusAtWork'
    BY <2>1, <2>2, <2>3 DEF StatusAtWork
  <2>5. \A f \in EDU : MovesOne(f)
    BY <2>2, <2>3 DEF MovesOne, StatusMove
  <2> QED
    BY <2>4, <2>5
<1>4. CASE ThreadStart(p) \/ ThreadFail(p)
  <2>1. callEdu[p] \in EDU /\ pc[callEdu[p]] = "none" /\ status[callEdu[p]] = "CREATING"
    BY <1>4 DEF ThreadStart, ThreadFail, IInv, CallOwns, InCall
  <2>2. \/ pc' = [pc EXCEPT ![callEdu[p]] = "top"] /\ status' = status
        \/ pc' = pc /\ status' = [status EXCEPT ![callEdu[p]] = "DESTROY"]
    BY <1>4 DEF ThreadStart, ThreadFail
  <2>3. /\ \A f \in EDU : f # callEdu[p] => pc'[f] = pc[f] /\ status'[f] = status[f]
        /\ \/ pc'[callEdu[p]] = "top" /\ status'[callEdu[p]] = "CREATING"
           \/ pc'[callEdu[p]] = "none" /\ status'[callEdu[p]] = "DESTROY"
    BY <2>1, <2>2 DEF TypeOK
  <2>4. StatusAtWork'
    BY <2>1, <2>3 DEF StatusAtWork
  <2>5. \A f \in EDU : MovesOne(f)
    BY <2>1, <2>3 DEF MovesOne, StatusMove
  <2> QED
    BY <2>4, <2>5
<1> QED
  BY <1>1, <1>2, <1>3, <1>4 DEF StartEDU

\* Every step.
LEMMA StepStatus ==
  ASSUME TypeOK, IInv, StatusAtWork, [Next]_vars
  PROVE  StatusAtWork' /\ (\A f \in EDU : MovesOne(f))
<1>1. CASE UNCHANGED vars \/ Main \/ Signal
  <2>1. UNCHANGED <<pc, status>>
    BY <1>1 DEF vars, Main, MainStart, MainUp, MainLeave, MainQuiesce, MainCount, MainForce, Signal,
                cbVars, threadVars
  <2> QED
    BY <2>1 DEF StatusAtWork, MovesOne
<1> QED
  BY <1>1, LoopStatus, SessionStatus, CallStatus DEF Next, Thread, Exited

\* The status of a thread that has waited holds in every run of the program.
THEOREM StatusInvariance == Spec => []StatusAtWork
<1>1. Init => StatusAtWork
  BY DEF Init, StatusAtWork
<1>2. TypeOK /\ IInv /\ StatusAtWork /\ [Next]_vars => StatusAtWork'
  BY StepStatus
<1> QED
  BY <1>1, <1>2, TypeCorrect, Invariance, PTL DEF Spec

-----------------------------------------------------------------------------
(* The listener.                                                           *)

\* A step that makes no EDU, starts no listener and does not go back in main.
LEMMA QuietListener ==
  ASSUME LInv, UNCHANGED <<nextId, type>>,
         \A e \in EDU : pc'[e] \in ListenerPc => pc[e] \in ListenerPc,
         mainPc' = "boot" => mainPc = "boot",
         callPc'["main"] \in Before => callPc["main"] \in Before
  PROVE  LInv'
  BY DEF LInv, TypeIsKnown, OneListener, NoListener

\* The entry function of the listener is called for an EDU of its type.
LEMMA LoopListener ==
  ASSUME TypeOK, IInv, LInv, NEW e \in EDU, ThreadLoop(e)
  PROVE  LInv'
<1> USE DEF mgrVars, cbVars, callVars, mainVars, Goto
<1>1. UNCHANGED <<nextId, type, mainPc, callPc>>
  BY DEF ThreadLoop, WaitBegin, EventArrives, WaitTimeout, Resume, EntryCall, EntryReturn,
         ReturnCheck, SizeCheck, DeactivateEDU, DestroyEDU
<1>2. CASE EntryCall(e)
  <2>1. /\ pc[e] = "entry" /\ (pc'[e] \in ListenerPc => type[e] # "AGENT")
        /\ \A f \in EDU : f # e => pc'[f] = pc[f]
    BY <1>2 DEF EntryCall, TypeOK, ListenerPc
  <2>2. e < nextId
    <3>1. ~(e >= nextId)
      BY <2>1 DEF IInv, FreshIds
    <3> QED
      BY <3>1, EDUAssumption DEF TypeOK
  <2>3. pc'[e] \in ListenerPc => type[e] = "TCPLISTENER"
    BY <2>1, <2>2 DEF LInv, TypeIsKnown, TypeOK, Type
  <2> QED
    BY <1>1, <2>1, <2>3 DEF LInv, TypeIsKnown, OneListener, NoListener
<1>3. CASE ~EntryCall(e)
  <2>1. \E x \in ThreadPc \ ListenerPc : pc' = [pc EXCEPT ![e] = x]
    BY <1>3 DEF ThreadLoop, WaitBegin, EventArrives, WaitTimeout, Resume, EntryReturn,
           ReturnCheck, SizeCheck, DeactivateEDU, DestroyEDU, ThreadPc, ListenerPc
  <2>2. \A f \in EDU : pc'[f] \in ListenerPc => pc[f] \in ListenerPc
    BY <2>1 DEF TypeOK
  <2> QED
    BY <1>1, <2>2, QuietListener
<1> QED
  BY <1>2, <1>3

LEMMA SessionListener ==
  ASSUME TypeOK, LInv, NEW e \in EDU, Listener(e) \/ Agent(e)
  PROVE  LInv'
<1> USE DEF mgrVars, cbVars, callVars, mainVars, Goto
<1>1. UNCHANGED <<nextId, type, mainPc>>
  BY DEF Listener, LsnOpen, LsnGiveUp, LsnLoop, LsnTimeout, LsnAccept, LsnError, LsnStarted,
         LsnReject, LsnBreak, Agent, AgtPoll, AgtTimeout, AgtData, AgtLength, AgtFail, AgtRequest,
         AgtSend, AgtReply, AgtDisconnect, AgtSendFail, AgtClose
<1>2. callPc'["main"] = callPc["main"]
  BY DEF Listener, LsnOpen, LsnGiveUp, LsnLoop, LsnTimeout, LsnAccept, LsnError, LsnStarted,
         LsnReject, LsnBreak, Agent, AgtPoll, AgtTimeout, AgtData, AgtLength, AgtFail, AgtRequest,
         AgtSend, AgtReply, AgtDisconnect, AgtSendFail, AgtClose, CallGoto, Caller, TypeOK
<1>3. CASE Listener(e)
  <2>1. /\ pc[e] \in ListenerPc
        /\ \E x : pc' = [pc EXCEPT ![e] = x]
    BY <1>3 DEF Listener, LsnOpen, LsnGiveUp, LsnLoop, LsnTimeout, LsnAccept, LsnError, LsnStarted,
           LsnReject, LsnBreak, ListenerPc
  <2>2. \A f \in EDU : pc'[f] \in ListenerPc => pc[f] \in ListenerPc
    BY <2>1 DEF TypeOK
  <2> QED
    BY <1>1, <1>2, <2>2, QuietListener
<1>4. CASE Agent(e)
  <2>1. \E x \in ThreadPc \ ListenerPc : pc' = [pc EXCEPT ![e] = x]
    BY <1>4 DEF Agent, AgtPoll, AgtTimeout, AgtData, AgtLength, AgtFail, AgtRequest, AgtSend,
           AgtReply, AgtDisconnect, AgtSendFail, AgtClose, ThreadPc, ListenerPc
  <2>2. \A f \in EDU : pc'[f] \in ListenerPc => pc[f] \in ListenerPc
    BY <2>1 DEF TypeOK
  <2> QED
    BY <1>1, <1>2, <2>2, QuietListener
<1> QED
  BY <1>3, <1>4

\* The one listener is made by the one call of the main thread.
LEMMA CallListener ==
  ASSUME TypeOK, IInv, HInv, LInv, NEW p \in Caller, StartEDU(p)
  PROVE  LInv'
<1> USE DEF mgrVars, cbVars, threadVars, mainVars, CallGoto
<1>1. mainPc' = mainPc
  BY DEF StartEDU, StartCheck, ReusePooled, NeedNew, CreateCheck, CreateOOM, CreateInsert,
         ThreadStart, ThreadFail, Post
<1>2. CASE StartCheck(p) \/ NeedNew(p) \/ CreateCheck(p) \/ CreateOOM(p) \/ Post(p)
           \/ ThreadStart(p) \/ ThreadFail(p)
  <2>1. UNCHANGED <<nextId, type>>
    BY <1>2 DEF StartCheck, NeedNew, CreateCheck, CreateOOM, Post, ThreadStart, ThreadFail
  <2>2. callPc'["main"] \in Before => callPc["main"] \in Before
    BY <1>2 DEF StartCheck, NeedNew, CreateCheck, CreateOOM, Post, ThreadStart, ThreadFail,
                Before, Caller, TypeOK
  <2>3. pc' = pc \/ pc' = [pc EXCEPT ![callEdu[p]] = "top"]
    BY <1>2 DEF StartCheck, NeedNew, CreateCheck, CreateOOM, Post, ThreadStart, ThreadFail
  <2>4. \A e \in EDU : pc'[e] \in ListenerPc => pc[e] \in ListenerPc
    BY <2>3 DEF TypeOK, ListenerPc
  <2> QED
    BY <1>1, <2>1, <2>2, <2>4, QuietListener
<1>3. CASE ReusePooled(p)
  <2>1. p = "listener"
    BY <1>3 DEF ReusePooled, IsPoolable, CallType, Caller
  <2>2. UNCHANGED <<nextId, pc>> /\ callPc'["main"] = callPc["main"]
    BY <1>3, <2>1 DEF ReusePooled, Caller, TypeOK
  <2>3. PICK e \in EDU : e \in idle /\ type' = [type EXCEPT ![e] = "AGENT"]
    BY <1>3, <2>1 DEF ReusePooled, Ready, CallType, TypeOK
  <2>4. type'[e] = "AGENT" /\ \A f \in EDU : f # e => type'[f] = type[f]
    BY <2>3 DEF TypeOK
  <2>5. pc[e] \notin ListenerPc
    BY <2>3 DEF IInv, WorkOwns, Busy, ListenerPc
  <2> QED
    BY <1>1, <2>2, <2>4, <2>5 DEF LInv, TypeIsKnown, OneListener, NoListener
<1>4. CASE CreateInsert(p)
  <2>1. /\ pc' = pc /\ nextId \in EDU /\ nextId' = nextId + 1 /\ callPc[p] = "insert"
        /\ type' = [type EXCEPT ![nextId] = CallType(p)]
        /\ callPc' = [callPc EXCEPT ![p] = "thread"]
    BY <1>4 DEF CreateInsert
  <2>2. type'[nextId] = CallType(p) /\ \A f \in EDU : f # nextId => type'[f] = type[f]
    BY <2>1 DEF TypeOK
  <2>3. pc[nextId] = "none"
    <3>1. nextId >= nextId
      BY DEF TypeOK
    <3> QED
      BY <2>1, <3>1 DEF IInv, FreshIds
  <2>4. TypeIsKnown'
    <3>1. \A e \in EDU : e < nextId + 1 => e < nextId \/ e = nextId
      BY EDUAssumption DEF TypeOK
    <3>2. CallType(p) # "UNKNOWN"
      BY DEF CallType
    <3> QED
      BY <2>1, <2>2, <3>1, <3>2 DEF LInv, TypeIsKnown
  <2>5. CASE p = "main"
    <3>1. NoListener /\ mainPc # "boot"
      BY <2>1, <2>5 DEF LInv, OneListener, Before, HInv, MainCalls
    <3>2. callPc'["main"] \notin Before
      BY <2>1, <2>5 DEF Before, TypeOK
    <3>3. \A e \in EDU : pc'[e] \notin ListenerPc
      BY <2>1, <3>1 DEF LInv, OneListener, NoListener
    <3>4. \A e, f \in EDU : type'[e] = "TCPLISTENER" /\ type'[f] = "TCPLISTENER" => e = f
      BY <2>2, <3>1 DEF NoListener
    <3>5. OneListener'
      BY <1>1, <3>1, <3>2, <3>3, <3>4 DEF OneListener
    <3> QED
      BY <2>4, <3>5 DEF LInv
  <2>6. CASE p = "listener"
    <3>1. callPc'["main"] = callPc["main"] /\ CallType(p) = "AGENT"
      BY <2>1, <2>6 DEF TypeOK, CallType
    <3>2. pc[nextId] \notin ListenerPc
      BY <2>3 DEF ListenerPc
    <3>3. OneListener'
      BY <1>1, <2>1, <2>2, <3>1, <3>2 DEF LInv, OneListener, NoListener
    <3> QED
      BY <2>4, <3>3 DEF LInv
  <2> QED
    BY <2>5, <2>6 DEF Caller
<1> QED
  BY <1>2, <1>3, <1>4 DEF StartEDU

LEMMA MainListener ==
  ASSUME TypeOK, LInv, Main \/ Signal
  PROVE  LInv'
<1> USE DEF mgrVars, cbVars, threadVars, callVars, mainVars, MainGoto, CallGoto
<1>1. UNCHANGED <<nextId, type, pc>>
  BY DEF Main, MainStart, MainUp, MainLeave, MainQuiesce, MainCount, MainForce, Signal
<1>2. CASE MainStart
  <2>1. mainPc = "boot" /\ mainPc' # "boot"
    BY <1>2 DEF MainStart
  <2> QED
    BY <1>1, <2>1 DEF LInv, TypeIsKnown, OneListener, NoListener
<1>3. CASE ~MainStart
  <2>1. mainPc' = "boot" => mainPc = "boot"
    BY <1>3 DEF Main, MainUp, MainLeave, MainQuiesce, MainCount, MainForce, Signal
  <2>2. callPc'["main"] \in Before => callPc["main"] \in Before
    BY <1>3 DEF Main, MainUp, MainLeave, MainQuiesce, MainCount, MainForce, Signal, Before, Caller,
                TypeOK
  <2> QED
    BY <1>1, <2>1, <2>2, QuietListener
<1> QED
  BY <1>2, <1>3

\* There is one listener, in every run of the program.
THEOREM ListenerInvariance == Spec => []LInv
<1>1. Init => LInv
  <2> SUFFICES ASSUME Init PROVE LInv
    OBVIOUS
  <2>1. TypeIsKnown
    <3>1. \A e \in EDU : ~(e < 1)
      BY EDUAssumption
    <3> QED
      BY <3>1 DEF Init, TypeIsKnown
  <2>2. OneListener
    BY DEF Init, OneListener, NoListener, ListenerPc, Before, Caller
  <2> QED
    BY <2>1, <2>2 DEF LInv
<1>2. TypeOK /\ IInv /\ HInv /\ LInv /\ [Next]_vars => LInv'
  <2> SUFFICES ASSUME TypeOK, IInv, HInv, LInv, [Next]_vars PROVE LInv'
    OBVIOUS
  <2>1. CASE UNCHANGED vars
    BY <2>1 DEF vars, LInv, TypeIsKnown, OneListener, NoListener
  <2> QED
    BY <2>1, LoopListener, SessionListener, CallListener, MainListener DEF Next, Thread, Exited
<1> QED
  BY <1>1, <1>2, TypeCorrect, Invariance, HandInvariance, PTL DEF Spec

-----------------------------------------------------------------------------
(* The owners of a socket.                                                 *)

\* A step moves the socket of c as the table allows.
ConnStep(c) == <<conn[c], conn'[c]>> \in ConnMove \/ conn'[c] = conn[c]

\* The hands of EDU e hold the same connections after the step as before it.
SameHands(e) ==
  /\ UNCHANGED <<queue[e], data[e]>>
  /\ pc'[e] \in Serving <=> pc[e] \in Serving
  /\ pc'[e] \in {"resume", "entry"} <=> pc[e] \in {"resume", "entry"}

LEMMA SameHolds ==
  ASSUME NEW e \in EDU, SameHands(e), NEW c
  PROVE  /\ Queued(e, c)' <=> Queued(e, c)
         /\ Taken(e, c)' <=> Taken(e, c)
         /\ Serves(e, c)' <=> Serves(e, c)
         /\ Holds(e, c)' <=> Holds(e, c)
<1>1. Queued(e, c)' <=> Queued(e, c)
  BY DEF SameHands, Queued
<1>2. Taken(e, c)' <=> Taken(e, c)
  BY DEF SameHands, Taken
<1>3. Serves(e, c)' <=> Serves(e, c)
  BY DEF SameHands, Serves
<1> QED
  BY <1>1, <1>2, <1>3 DEF Holds

\* A step that changes nobody's hands, no socket and no call of the listener.
LEMMA QuietHands ==
  ASSUME CInv,
         \A e \in EDU : SameHands(e),
         callPc'["listener"] # "off" <=> callPc["listener"] # "off",
         callArg'["listener"] = callArg["listener"], conn' = conn
  PROVE  CInv' /\ \A c \in Conn : ConnStep(c)
<1>1. ArgOK'
  BY DEF CInv, ArgOK
<1>2. ASSUME NEW c \in Conn PROVE ConnOK(c)'
  <2>1. \A e \in EDU : /\ Queued(e, c)' <=> Queued(e, c)
                       /\ Taken(e, c)' <=> Taken(e, c)
                       /\ Serves(e, c)' <=> Serves(e, c)
                       /\ Holds(e, c)' <=> Holds(e, c)
    BY SameHolds
  <2> QED
    BY <2>1 DEF CInv, ConnOK
<1> QED
  BY <1>1, <1>2 DEF CInv, ConnStep

\* The same for one connection whose socket a step does not touch: an EDU may take it
\* out of its queue, or drop it, but takes up no other one's.
LEMMA OtherConn ==
  ASSUME NEW c \in Conn, ConnOK(c), conn'[c] = conn[c],
         conn[c] = "listener" => callPc'["listener"] # "off" /\ callArg'["listener"] = c,
         \A e \in EDU : /\ Queued(e, c)' \/ Taken(e, c)' => Queued(e, c) \/ Taken(e, c)
                        /\ Serves(e, c)' <=> Serves(e, c)
  PROVE  ConnOK(c)' /\ ConnStep(c)
  BY DEF ConnOK, Holds, ConnStep

\* Nobody holds a connection that is at the client or at the listener.
LEMMA NotHeld ==
  ASSUME CInv, NEW c \in Conn, conn[c] \in {"client", "listener"}, NEW e \in EDU
  PROVE  ~Queued(e, c) /\ ~Taken(e, c) /\ ~Serves(e, c)
  BY DEF CInv, ConnOK

\* A thread takes the event out of its queue.
LEMMA EventOwner ==
  ASSUME TypeOK, IInv, CInv, NEW e \in EDU, EventArrives(e)
  PROVE  CInv' /\ \A c \in Conn : ConnStep(c)
<1> USE DEF mgrVars, callVars, mainVars, Goto
<1>1. /\ pc[e] \in {"wait", "ready"} /\ pc'[e] \in {"return", "resume"} /\ queue[e] # <<>>
      /\ data'[e] = Head(queue[e]) /\ queue'[e] = Tail(queue[e])
      /\ \A f \in EDU : f # e => SameHands(f)
      /\ UNCHANGED <<callPc, callArg, conn>>
  BY DEF EventArrives, TypeOK, SameHands
<1>2. Head(queue[e]) = queue[e][1] /\ Len(queue[e]) = 1 /\ Len(Tail(queue[e])) = 0
  <2>1. queue[e] \in Seq(Arg) /\ Len(queue[e]) <= 1
    BY DEF TypeOK, IInv, WorkOwns
  <2> QED
    BY <1>1, <2>1, OneElement
<1>3. ASSUME NEW c \in Conn PROVE ConnOK(c)' /\ ConnStep(c)
  <2>1. ~Queued(e, c)'
    BY <1>1, <1>2 DEF Queued
  <2>2. Taken(e, c)' => Queued(e, c)
    BY <1>1, <1>2 DEF Taken, Queued
  <2>3. ~Serves(e, c)' /\ ~Serves(e, c)
    BY <1>1 DEF Serves, Serving
  <2>4. \A f \in EDU : /\ Queued(f, c)' \/ Taken(f, c)' => Queued(f, c) \/ Taken(f, c)
                       /\ Serves(f, c)' <=> Serves(f, c)
    BY <1>1, <2>1, <2>2, <2>3, SameHolds
  <2>5. ConnOK(c)
    BY DEF CInv
  <2>6. conn[c] = "listener" => callPc'["listener"] # "off" /\ callArg'["listener"] = c
    BY <1>1, <2>5 DEF ConnOK
  <2> QED
    BY <1>1, <2>4, <2>5, <2>6, OtherConn
<1>4. ArgOK'
  BY <1>1 DEF CInv, ArgOK
<1> QED
  BY <1>3, <1>4 DEF CInv

\* The entry function takes up the connection of the event.
LEMMA EntryOwner ==
  ASSUME TypeOK, IInv, HInv, CInv, NEW e \in EDU, EntryCall(e)
  PROVE  CInv' /\ \A c \in Conn : ConnStep(c)
<1> USE DEF mgrVars, cbVars, callVars, mainVars, Goto
<1>1. /\ pc[e] = "entry" /\ pc'[e] \in {"agtPoll", "lsnOpen", "entryRet"}
      /\ type[e] = "AGENT" => pc'[e] = "agtPoll"
      /\ \A f \in EDU : f # e => SameHands(f)
      /\ UNCHANGED <<queue, data, callPc, callArg>>
      /\ \A c \in Conn : conn'[c] = IF c = data[e] /\ type[e] = "AGENT" THEN "served" ELSE conn[c]
  BY DEF EntryCall, TypeOK, SameHands
<1>2. Len(queue[e]) = 0
  <2>1. queue[e] = <<>>
    BY <1>1 DEF IInv, WorkOwns, Busy
  <2> QED
    BY <2>1
<1>3. ASSUME NEW c \in Conn PROVE ~Queued(e, c)' /\ ~Taken(e, c)'
  BY <1>1, <1>2 DEF Queued, Taken
<1>4. ASSUME NEW c \in Conn, c = data[e] PROVE ConnOK(c)' /\ ConnStep(c) /\ conn[c] = "handed"
  <2>1. type[e] = "AGENT"
    BY <1>1, <1>4 DEF HInv, AgentsGetConns
  <2>2. Taken(e, c) /\ Serves(e, c)'
    BY <1>1, <1>4, <2>1 DEF Taken, Serves, Serving
  <2>3. conn[c] = "handed" /\ conn'[c] = "served"
    BY <1>1, <1>4, <2>1, <2>2 DEF CInv, ConnOK
  <2>4. \A f \in EDU : f # e => ~Holds(f, c)
    BY <2>2 DEF CInv, ConnOK, Holds
  <2>5. \A f \in EDU : f # e => ~Queued(f, c)' /\ ~Taken(f, c)' /\ ~Serves(f, c)'
    BY <1>1, <2>4, SameHolds DEF Holds
  <2>6. ConnOK(c)'
    BY <1>3, <2>2, <2>3, <2>5 DEF ConnOK, Holds
  <2> QED
    BY <2>3, <2>6 DEF ConnStep, ConnMove
<1>5. ASSUME NEW c \in Conn, c # data[e] PROVE ConnOK(c)' /\ ConnStep(c)
  <2>1. ~Serves(e, c)' /\ ~Serves(e, c)
    BY <1>1, <1>5 DEF Serves, Serving
  <2>2. \A f \in EDU : /\ Queued(f, c)' \/ Taken(f, c)' => Queued(f, c) \/ Taken(f, c)
                       /\ Serves(f, c)' <=> Serves(f, c)
    BY <1>1, <1>3, <2>1, SameHolds
  <2>3. ConnOK(c) /\ conn'[c] = conn[c]
    BY <1>1, <1>5 DEF CInv
  <2>4. conn[c] = "listener" => callPc'["listener"] # "off" /\ callArg'["listener"] = c
    BY <1>1, <2>3 DEF ConnOK
  <2> QED
    BY <2>2, <2>3, <2>4, OtherConn
<1>6. ArgOK'
  BY <1>1, <1>4 DEF CInv, ArgOK
<1> QED
  BY <1>4, <1>5, <1>6 DEF CInv

\* The other steps of the loop of a thread change nobody's hands.
LEMMA LoopOwner ==
  ASSUME TypeOK, IInv, HInv, CInv, NEW e \in EDU, ThreadLoop(e)
  PROVE  CInv' /\ \A c \in Conn : ConnStep(c)
<1> USE DEF mgrVars, cbVars, callVars, mainVars, Goto
<1>1. CASE WaitBegin(e) \/ WaitTimeout(e) \/ Resume(e) \/ EntryReturn(e) \/ ReturnCheck(e)
           \/ SizeCheck(e) \/ DeactivateEDU(e) \/ DestroyEDU(e)
  <2>1. UNCHANGED <<queue, data, callPc, callArg, conn>>
    BY <1>1 DEF WaitBegin, WaitTimeout, Resume, EntryReturn, ReturnCheck, SizeCheck, DeactivateEDU,
                DestroyEDU
  <2>2. Resume(e) => \A f \in EDU : SameHands(f)
    <3> SUFFICES ASSUME Resume(e) PROVE \A f \in EDU : SameHands(f)
      OBVIOUS
    <3>1. pc[e] = "resume" /\ pc' = [pc EXCEPT ![e] = "entry"]
      BY DEF Resume
    <3> QED
      BY <2>1, <3>1 DEF SameHands, TypeOK, Serving
  <2>3. ~Resume(e) => \A f \in EDU : SameHands(f)
    <3> SUFFICES ASSUME ~Resume(e) PROVE \A f \in EDU : SameHands(f)
      OBVIOUS
    <3>1. pc[e] \notin Serving \cup {"resume", "entry"}
      BY <1>1 DEF WaitBegin, WaitTimeout, EntryReturn, ReturnCheck, SizeCheck,
                        DeactivateEDU, DestroyEDU, Serving
    <3>2. \E x \in {"wait", "ready", "top", "return", "destroy", "size", "pool", "exited"} :
            pc' = [pc EXCEPT ![e] = x]
      BY <1>1 DEF WaitBegin, WaitTimeout, EntryReturn, ReturnCheck, SizeCheck,
                        DeactivateEDU, DestroyEDU
    <3> QED
      BY <2>1, <3>1, <3>2 DEF SameHands, TypeOK, Serving
  <2>4. \A f \in EDU : SameHands(f)
    BY <2>2, <2>3
  <2> QED
    BY <2>1, <2>4, QuietHands
<1> QED
  BY <1>1, EventOwner, EntryOwner DEF ThreadLoop

\* The listener has one socket in its hands while its call of startEDU is open.
LEMMA ListenerOwner ==
  ASSUME TypeOK, IInv, HInv, LInv, CInv, NEW e \in EDU, Listener(e)
  PROVE  CInv' /\ \A c \in Conn : ConnStep(c)
<1> USE DEF mgrVars, cbVars, callVars, mainVars, Goto
<1>1. /\ UNCHANGED <<queue, data>>
      /\ \A f \in EDU : SameHands(f)
  <2>1. /\ UNCHANGED <<queue, data>>
        /\ pc[e] \in ListenerPc
        /\ \E x \in ListenerPc \cup {"entryRet"} : pc' = [pc EXCEPT ![e] = x]
    BY DEF Listener, LsnOpen, LsnGiveUp, LsnLoop, LsnTimeout, LsnAccept, LsnError, LsnStarted,
           LsnReject, LsnBreak, ListenerPc
  <2> QED
    BY <2>1 DEF SameHands, TypeOK, ListenerPc, Serving
<1>2. CASE LsnOpen(e) \/ LsnGiveUp(e) \/ LsnLoop(e) \/ LsnTimeout(e) \/ LsnError(e)
           \/ LsnStarted(e) \/ LsnBreak(e)
  <2>1. UNCHANGED <<callPc, callArg, conn>>
    BY <1>2 DEF LsnOpen, LsnGiveUp, LsnLoop, LsnTimeout, LsnError, LsnStarted, LsnBreak
  <2> QED
    BY <1>1, <2>1, QuietHands
<1>3. CASE LsnAccept(e)
  <2>1. PICK c \in Conn : /\ conn[c] = "client"
                          /\ conn' = [conn EXCEPT ![c] = "listener"]
                          /\ callArg' = [callArg EXCEPT !["listener"] = c]
    BY <1>3 DEF LsnAccept
  <2>2. /\ conn'[c] = "listener" /\ \A d \in Conn : d # c => conn'[d] = conn[d]
        /\ callArg'["listener"] = c /\ callPc'["listener"] = "quiesce"
    BY <1>3, <2>1 DEF LsnAccept, CallGoto, Caller, TypeOK
  <2>3. callPc["listener"] = "off"
    BY <1>3 DEF LsnAccept, HInv, ListenerCalls, LInv, OneListener, ListenerPc
  <2>4. ConnOK(c)' /\ ConnStep(c)
    <3>1. \A f \in EDU : ~Queued(f, c)' /\ ~Taken(f, c)' /\ ~Serves(f, c)'
      BY <1>1, <2>1, NotHeld, SameHolds
    <3> QED
      BY <2>1, <2>2, <3>1 DEF ConnOK, Holds, ConnStep, ConnMove
  <2>5. ASSUME NEW d \in Conn, d # c PROVE ConnOK(d)' /\ ConnStep(d)
    <3>1. ConnOK(d) /\ conn[d] # "listener" /\ conn'[d] = conn[d]
      BY <2>2, <2>3, <2>5 DEF CInv, ConnOK
    <3> QED
      BY <1>1, <3>1, OtherConn, SameHolds
  <2>6. ArgOK'
    BY <2>2 DEF ArgOK
  <2> QED
    BY <2>4, <2>5, <2>6 DEF CInv
<1>4. CASE LsnReject(e)
  <2>1. /\ callPc["listener"] # "off" /\ callPc'["listener"] = "off"
        /\ \A d \in Conn : conn'[d] = IF d = callArg["listener"] THEN "closed" ELSE conn[d]
    BY <1>4 DEF LsnReject, CallGoto, Caller, TypeOK
  <2>2. PICK c \in Conn : c = callArg["listener"] /\ conn[c] = "listener"
    BY <2>1 DEF CInv, ArgOK
  <2>3. ConnOK(c)' /\ ConnStep(c)
    <3>1. \A f \in EDU : ~Queued(f, c)' /\ ~Taken(f, c)' /\ ~Serves(f, c)'
      BY <1>1, <2>2, NotHeld, SameHolds
    <3> QED
      BY <2>1, <2>2, <3>1 DEF ConnOK, Holds, ConnStep, ConnMove
  <2>4. ASSUME NEW d \in Conn, d # c PROVE ConnOK(d)' /\ ConnStep(d)
    <3>1. ConnOK(d) /\ conn[d] # "listener" /\ conn'[d] = conn[d]
      BY <2>1, <2>2, <2>4 DEF CInv, ConnOK
    <3> QED
      BY <1>1, <3>1, OtherConn, SameHolds
  <2>5. ArgOK'
    BY <2>1 DEF ArgOK
  <2> QED
    BY <2>3, <2>4, <2>5 DEF CInv
<1> QED
  BY <1>2, <1>3, <1>4 DEF Listener

\* An agent keeps its socket until it closes it.
LEMMA AgentOwner ==
  ASSUME TypeOK, IInv, CInv, NEW e \in EDU, Agent(e)
  PROVE  CInv' /\ \A c \in Conn : ConnStep(c)
<1> USE DEF mgrVars, cbVars, callVars, mainVars, Goto
<1>1. UNCHANGED <<queue, data, callPc, callArg>>
  BY DEF Agent, AgtPoll, AgtTimeout, AgtData, AgtLength, AgtFail, AgtRequest, AgtSend, AgtReply,
         AgtDisconnect, AgtSendFail, AgtClose
<1>2. CASE ~AgtClose(e)
  <2>1. /\ conn' = conn /\ pc[e] \in Serving
        /\ \E x \in Serving : pc' = [pc EXCEPT ![e] = x]
    BY <1>2 DEF Agent, AgtPoll, AgtTimeout, AgtData, AgtLength, AgtFail, AgtRequest, AgtSend, AgtReply,
                AgtDisconnect, AgtSendFail, Serving
  <2>2. \A f \in EDU : SameHands(f)
    BY <1>1, <2>1 DEF SameHands, TypeOK, Serving
  <2> QED
    BY <1>1, <2>1, <2>2, QuietHands
<1>3. CASE AgtClose(e)
  <2>1. /\ pc[e] = "agtClose" /\ pc'[e] = "entryRet"
        /\ \A f \in EDU : f # e => SameHands(f)
        /\ \A c \in Conn : conn'[c] = IF c = data[e] THEN "closed" ELSE conn[c]
    BY <1>1, <1>3 DEF AgtClose, TypeOK, SameHands
  <2>2. ASSUME NEW c \in Conn
        PROVE  /\ ~Taken(e, c)' /\ ~Serves(e, c)' /\ (Queued(e, c)' <=> Queued(e, c))
               /\ Serves(e, c) <=> c = data[e]
    <3>1. Queued(e, c)' <=> Queued(e, c)
      BY <1>1 DEF Queued
    <3> QED
      BY <1>1, <2>1, <3>1 DEF Taken, Serves, Serving
  <2>3. ASSUME NEW c \in Conn, c = data[e] PROVE ConnOK(c)' /\ ConnStep(c) /\ conn[c] = "served"
    <3>1. conn[c] = "served" /\ conn'[c] = "closed"
      BY <2>1, <2>2, <2>3 DEF CInv, ConnOK
    <3>2. \A f \in EDU : f # e => ~Holds(f, c)
      BY <2>2, <2>3 DEF CInv, ConnOK, Holds
    <3>3. \A f \in EDU : f # e => ~Queued(f, c)' /\ ~Taken(f, c)' /\ ~Serves(f, c)'
      BY <2>1, <3>2, SameHolds DEF Holds
    <3>4. ~Queued(e, c)'
      BY <2>2, <3>1 DEF CInv, ConnOK
    <3>5. ConnOK(c)'
      BY <2>2, <3>1, <3>3, <3>4 DEF ConnOK, Holds
    <3> QED
      BY <3>1, <3>5 DEF ConnStep, ConnMove
  <2>4. ASSUME NEW c \in Conn, c # data[e] PROVE ConnOK(c)' /\ ConnStep(c)
    <3>1. \A f \in EDU : /\ Queued(f, c)' \/ Taken(f, c)' => Queued(f, c) \/ Taken(f, c)
                         /\ Serves(f, c)' <=> Serves(f, c)
      BY <2>1, <2>2, <2>4, SameHolds
    <3>2. ConnOK(c) /\ conn'[c] = conn[c]
      BY <2>1, <2>4 DEF CInv
    <3>3. conn[c] = "listener" => callPc'["listener"] # "off" /\ callArg'["listener"] = c
      BY <1>1, <3>2 DEF ConnOK
    <3> QED
      BY <3>1, <3>2, <3>3, OtherConn
  <2>5. ArgOK'
    BY <1>1, <2>1, <2>3 DEF CInv, ArgOK
  <2> QED
    BY <2>3, <2>4, <2>5 DEF CInv
<1> QED
  BY <1>2, <1>3

\* A startEDU call that has succeeded gives the connection to the EDU it has chosen.
LEMMA PostOwner ==
  ASSUME TypeOK, IInv, HInv, CInv, NEW p \in Caller, Post(p)
  PROVE  CInv' /\ \A c \in Conn : ConnStep(c)
<1> USE DEF mgrVars, threadVars, mainVars
<1>0. /\ UNCHANGED <<pc, data, callArg>>
      /\ callPc[p] = "post" /\ callPc' = [callPc EXCEPT ![p] = "off"]
      /\ \A c \in Conn : conn'[c] = IF c = callArg[p] THEN "handed" ELSE conn[c]
  BY DEF Post, CallGoto
<1>1. PICK e \in EDU : e = callEdu[p] /\ queue[e] = <<>>
  BY <1>0 DEF IInv, CallOwns, InCall
<1>2. queue' = queue \/ queue' = [queue EXCEPT ![e] = Append(@, callArg[p])]
  BY <1>1 DEF Post
<1>3. queue'[e] = <<>> \/ queue'[e] = <<callArg[p]>>
  BY <1>1, <1>2 DEF TypeOK
<1>4. \A f \in EDU : f # e => SameHands(f)
  <2>1. \A f \in EDU : f # e => queue'[f] = queue[f]
    BY <1>2 DEF TypeOK
  <2> QED
    BY <1>0, <2>1 DEF SameHands
<1>5. \A c \in Conn : Queued(e, c)' => c = callArg[p]
  BY <1>3 DEF Queued
<1>6. \A f \in EDU : \A c \in Conn : (Taken(f, c)' <=> Taken(f, c)) /\ (Serves(f, c)' <=> Serves(f, c))
  BY <1>0 DEF Taken, Serves
<1>7. \A f \in EDU : f # e => \A c \in Conn : Queued(f, c)' <=> Queued(f, c)
  BY <1>4, SameHolds
<1>8. CASE p = "main"
  <2>1. callArg[p] \notin Conn
    BY <1>8, ConnAssumption DEF HInv, AgentsGetConns
  <2>2. callPc'["listener"] = callPc["listener"] /\ callArg' = callArg
    BY <1>0, <1>8 DEF TypeOK, Caller
  <2>3. ASSUME NEW c \in Conn PROVE ConnOK(c)' /\ ConnStep(c) /\ conn'[c] = conn[c]
    <3>1. ConnOK(c) /\ conn'[c] = conn[c] /\ ~Queued(e, c)'
      BY <1>0, <1>5, <2>1 DEF CInv
    <3>2. conn[c] = "listener" => callPc'["listener"] # "off" /\ callArg'["listener"] = c
      BY <2>2, <3>1 DEF ConnOK
    <3>3. \A f \in EDU : /\ Queued(f, c)' \/ Taken(f, c)' => Queued(f, c) \/ Taken(f, c)
                         /\ Serves(f, c)' <=> Serves(f, c)
      BY <1>6, <1>7, <3>1
    <3> QED
      BY <3>1, <3>2, <3>3, OtherConn
  <2>4. ArgOK'
    BY <2>2, <2>3 DEF CInv, ArgOK
  <2> QED
    BY <2>3, <2>4 DEF CInv
<1>9. CASE p = "listener"
  <2>1. callPc["listener"] # "off" /\ callPc'["listener"] = "off"
    BY <1>0, <1>9 DEF TypeOK, Caller
  <2>2. PICK c \in Conn : c = callArg[p] /\ conn[c] = "listener"
    BY <1>9, <2>1 DEF CInv, ArgOK
  <2>3. ConnOK(c)' /\ ConnStep(c)
    <3>1. \A f \in EDU : ~Queued(f, c) /\ ~Taken(f, c) /\ ~Serves(f, c)
      BY <2>2, NotHeld
    <3>2. \A f \in EDU : ~Taken(f, c)' /\ ~Serves(f, c)' /\ (Queued(f, c)' => f = e)
      BY <1>6, <1>7, <3>1
    <3>3. conn'[c] = "handed"
      BY <1>0, <2>2
    <3> QED
      BY <2>2, <3>2, <3>3 DEF ConnOK, Holds, ConnStep, ConnMove
  <2>4. ASSUME NEW d \in Conn, d # c PROVE ConnOK(d)' /\ ConnStep(d)
    <3>1. ConnOK(d) /\ conn[d] # "listener" /\ conn'[d] = conn[d] /\ ~Queued(e, d)'
      BY <1>0, <1>5, <1>9, <2>2, <2>4 DEF CInv, ConnOK
    <3>2. \A f \in EDU : /\ Queued(f, d)' \/ Taken(f, d)' => Queued(f, d) \/ Taken(f, d)
                         /\ Serves(f, d)' <=> Serves(f, d)
      BY <1>6, <1>7, <3>1
    <3> QED
      BY <3>1, <3>2, OtherConn
  <2>5. ArgOK'
    BY <2>1 DEF ArgOK
  <2> QED
    BY <2>3, <2>4, <2>5 DEF CInv
<1> QED
  BY <1>8, <1>9 DEF Caller

\* Before that the call leaves the socket where it is.
LEMMA CallOwner ==
  ASSUME TypeOK, IInv, HInv, CInv, NEW p \in Caller, StartEDU(p)
  PROVE  CInv' /\ \A c \in Conn : ConnStep(c)
<1> USE DEF mgrVars, cbVars, threadVars, mainVars, CallGoto
<1>1. CASE ~Post(p)
  <2>1. UNCHANGED <<queue, data, callArg, conn>>
    BY <1>1 DEF StartEDU, StartCheck, ReusePooled, NeedNew, CreateCheck, CreateOOM, CreateInsert,
                ThreadStart, ThreadFail
  <2>2. callPc[p] # "off" /\ \E x \in CallPc \ {"off"} : callPc' = [callPc EXCEPT ![p] = x]
    BY <1>1 DEF StartEDU, StartCheck, ReusePooled, NeedNew, CreateCheck, CreateOOM, CreateInsert,
                ThreadStart, ThreadFail, CallPc
  <2>3. callPc'["listener"] # "off" <=> callPc["listener"] # "off"
    BY <2>2 DEF TypeOK, Caller
  <2>4. CASE ThreadStart(p)
    <3>1. callEdu[p] \in EDU /\ pc[callEdu[p]] = "none" /\ pc' = [pc EXCEPT ![callEdu[p]] = "top"]
      BY <2>4 DEF ThreadStart, IInv, CallOwns, InCall
    <3>2. \A f \in EDU : SameHands(f)
      BY <2>1, <3>1 DEF SameHands, TypeOK, Serving
    <3> QED
      BY <2>1, <2>3, <3>2, QuietHands
  <2>5. CASE ~ThreadStart(p)
    <3>1. pc' = pc
      BY <1>1, <2>5 DEF StartEDU, StartCheck, ReusePooled, NeedNew, CreateCheck, CreateOOM,
                        CreateInsert, ThreadFail
    <3>2. \A f \in EDU : SameHands(f)
      BY <2>1, <3>1 DEF SameHands
    <3> QED
      BY <2>1, <2>3, <3>2, QuietHands
  <2> QED
    BY <2>4, <2>5
<1> QED
  BY <1>1, PostOwner

\* The main thread and the signal touch no socket.
LEMMA MainOwner ==
  ASSUME TypeOK, CInv, Main \/ Signal
  PROVE  CInv' /\ \A c \in Conn : ConnStep(c)
<1> USE DEF mgrVars, cbVars, threadVars, callVars, CallGoto
<1>1. UNCHANGED <<queue, data, pc, callArg, conn>>
  BY DEF Main, MainStart, MainUp, MainLeave, MainQuiesce, MainCount, MainForce, Signal
<1>2. callPc'["listener"] = callPc["listener"]
  BY DEF Main, MainStart, MainUp, MainLeave, MainQuiesce, MainCount, MainForce, Signal, TypeOK, Caller
<1>3. \A f \in EDU : SameHands(f)
  BY <1>1 DEF SameHands
<1> QED
  BY <1>1, <1>2, <1>3, QuietHands

\* Every step.
LEMMA StepOwner ==
  ASSUME TypeOK, IInv, HInv, LInv, CInv, [Next]_vars
  PROVE  CInv' /\ \A c \in Conn : ConnStep(c)
<1>1. CASE UNCHANGED vars
  <2>1. \A f \in EDU : SameHands(f)
    BY <1>1 DEF vars, SameHands
  <2> QED
    BY <1>1, <2>1, QuietHands DEF vars
<1> QED
  BY <1>1, LoopOwner, ListenerOwner, AgentOwner, CallOwner, MainOwner DEF Next, Thread, Exited

\* Every socket has the owner its state says, in every run of the program.
THEOREM OwnerInvariance == Spec => []CInv
<1>1. Init => CInv
  <2> SUFFICES ASSUME Init PROVE CInv
    OBVIOUS
  <2>1. \A e \in EDU : \A c \in Conn : ~Queued(e, c) /\ ~Taken(e, c) /\ ~Serves(e, c)
    BY DEF Init, Queued, Taken, Serves, Serving
  <2>2. \A c \in Conn : conn[c] = "client"
    BY DEF Init
  <2>3. ArgOK
    BY DEF Init, ArgOK, Caller
  <2>4. \A c \in Conn : ConnOK(c)
    BY <2>1, <2>2 DEF ConnOK, Holds
  <2> QED
    BY <2>3, <2>4 DEF CInv
<1>2. TypeOK /\ IInv /\ HInv /\ LInv /\ CInv /\ [Next]_vars => CInv'
  BY StepOwner
<1> QED
  BY <1>1, <1>2, TypeCorrect, Invariance, HandInvariance, ListenerInvariance, PTL DEF Spec

\* No descriptor leaks: an accepted socket is in the open startEDU call of the listener,
\* and a socket that was taken up stays with an agent until it is closed.
THEOREM OpenSocketsOwned == Spec => []OpenIsOwned
<1>1. CInv => OpenIsOwned
  BY DEF CInv, ConnOK, OpenIsOwned, Serves
<1> QED
  BY <1>1, OwnerInvariance, PTL

\* Control blocks go through their statuses in order, and sockets from owner to owner:
\* none is handed on twice, served by two agents or closed twice, for every number of
\* EDUs and connections.
THEOREM LivesInOrder == Spec => LifeCycles
<1>1. TypeOK /\ IInv /\ HInv /\ LInv /\ StatusAtWork /\ CInv /\ [Next]_vars =>
        [/\ \A e \in EDU : status'[e] # status[e] => <<status[e], status'[e]>> \in StatusMove
         /\ \A c \in Conn : conn'[c] # conn[c] => <<conn[c], conn'[c]>> \in ConnMove]_vars
  BY StepStatus, StepOwner DEF MovesOne, ConnStep
<1> QED
  BY <1>1, TypeCorrect, Invariance, HandInvariance, ListenerInvariance, StatusInvariance,
     OwnerInvariance, PTL DEF Spec, LifeCycles

=============================================================================
