---------------------------- MODULE EDUMgrProofs ----------------------------
(***************************************************************************)
(* Theorems of EDUMgr, for every set of EDU ids, every set of connections, *)
(* every MaxPool and every ForcePeriod.                                    *)
(***************************************************************************)
EXTENDS EDUMgr, FiniteSetTheorems, TLAPS

\* Every step of a startEDU call keeps the types.
LEMMA StartEDUType ==
  ASSUME TypeOK, NEW p \in Caller, StartEDU(p)
  PROVE  TypeOK'
<1> USE DEF TypeOK, mgrVars, cbVars, threadVars, callVars, mainVars, CallGoto, CallPc, Arg
<1>1. CASE StartCheck(p)
  BY <1>1 DEF StartCheck
<1>2. CASE ReusePooled(p)
  BY <1>2 DEF ReusePooled, Ready, CallType, Type, Status
<1>3. CASE NeedNew(p)
  BY <1>3 DEF NeedNew
<1>4. CASE CreateCheck(p)
  BY <1>4 DEF CreateCheck
<1>5. CASE CreateOOM(p)
  BY <1>5 DEF CreateOOM
<1>6. CASE CreateInsert(p)
  BY <1>6 DEF CreateInsert, CallType, Type, Status
<1>7. CASE ThreadStart(p)
  BY <1>7 DEF ThreadStart, ThreadPc
<1>8. CASE ThreadFail(p)
  BY <1>8 DEF ThreadFail, Status
<1>9. CASE Post(p)
  <2>1. queue' \in [EDU -> Seq(Conn \cup {NoConn})]
    <3> DEFINE q == [queue EXCEPT ![callEdu[p]] = Append(@, callArg[p])]
    <3>1. \A s \in Seq(Conn \cup {NoConn}) : Append(s, callArg[p]) \in Seq(Conn \cup {NoConn})
      OBVIOUS
    <3>2. q \in [EDU -> Seq(Conn \cup {NoConn})]
      BY <3>1
    <3> QED
      BY <1>9, <3>2 DEF Post
  <2>2. conn' \in [Conn -> ConnAt]
    BY <1>9 DEF Post, ConnAt
  <2> QED
    BY <1>9, <2>1, <2>2 DEF Post
<1> QED
  BY <1>1, <1>2, <1>3, <1>4, <1>5, <1>6, <1>7, <1>8, <1>9 DEF StartEDU

\* Every step of an EDU thread keeps the types.
LEMMA ThreadType ==
  ASSUME TypeOK, NEW e \in EDU, Thread(e)
  PROVE  TypeOK'
<1> USE DEF TypeOK, mgrVars, cbVars, threadVars, callVars, mainVars, CallGoto, Goto,
            CallPc, ThreadPc, Arg, Status
<1>1. CASE ThreadLoop(e)
  <2>1. CASE WaitBegin(e)
    BY <2>1 DEF WaitBegin
  <2>2. CASE EventArrives(e)
    BY <2>2 DEF EventArrives
  <2>3. CASE WaitTimeout(e)
    BY <2>3 DEF WaitTimeout
  <2>4. CASE Resume(e)
    BY <2>4 DEF Resume, AfterWaitEDU
  <2>5. CASE EntryCall(e)
    BY <2>5 DEF EntryCall, ConnAt
  <2>6. CASE EntryReturn(e)
    BY <2>6 DEF EntryReturn, AfterWaitEDU
  <2>7. CASE ReturnCheck(e)
    BY <2>7 DEF ReturnCheck
  <2>8. CASE SizeCheck(e)
    BY <2>8 DEF SizeCheck
  <2>9. CASE DeactivateEDU(e)
    <3>1. run' \subseteq EDU /\ idle' \subseteq EDU /\ status' \in [EDU -> Status]
      <4>0. run \subseteq EDU /\ idle \subseteq EDU /\ status \in [EDU -> Status]
        OBVIOUS
      <4> HIDE DEF TypeOK, mgrVars, cbVars, threadVars, callVars, mainVars, CallGoto, Goto,
                   CallPc, ThreadPc, Arg
      <4>1. CASE e \in run /\ status[e] \in {"WAITING", "CREATING"}
        BY <2>9, <4>0, <4>1 DEF DeactivateEDU
      <4>2. CASE ~(e \in run /\ status[e] \in {"WAITING", "CREATING"})
        BY <2>9, <4>0, <4>2 DEF DeactivateEDU
      <4> QED
        BY <4>1, <4>2
    <3>2. pc' \in [EDU -> ThreadPc]
      BY <2>9 DEF DeactivateEDU
    <3> QED
      BY <2>9, <3>1, <3>2 DEF DeactivateEDU
  <2>10. CASE DestroyEDU(e)
    BY <2>10 DEF DestroyEDU
  <2> QED
    BY <1>1, <2>1, <2>2, <2>3, <2>4, <2>5, <2>6, <2>7, <2>8, <2>9, <2>10 DEF ThreadLoop
<1>2. CASE Listener(e)
  <2>1. CASE LsnOpen(e)
    BY <2>1 DEF LsnOpen, Activate
  <2>2. CASE LsnGiveUp(e)
    BY <2>2 DEF LsnGiveUp
  <2>3. CASE LsnLoop(e)
    BY <2>3 DEF LsnLoop
  <2>4. CASE LsnTimeout(e)
    BY <2>4 DEF LsnTimeout
  <2>5. CASE LsnAccept(e)
    <3>1. conn' \in [Conn -> ConnAt]
      BY <2>5 DEF LsnAccept, ConnAt
    <3>2. pc' \in [EDU -> ThreadPc]
      BY <2>5 DEF LsnAccept
    <3>3. /\ callPc' \in [Caller -> CallPc] /\ callEdu' \in [Caller -> EDU \cup {0}]
          /\ callArg' \in [Caller -> Arg]
      BY <2>5 DEF LsnAccept, ConnAt
    <3> QED
      BY <2>5, <3>1, <3>2, <3>3 DEF LsnAccept
  <2>6. CASE LsnError(e)
    BY <2>6 DEF LsnError
  <2>7. CASE LsnStarted(e)
    BY <2>7 DEF LsnStarted
  <2>8. CASE LsnReject(e)
    BY <2>8 DEF LsnReject, ConnAt
  <2>9. CASE LsnBreak(e)
    BY <2>9 DEF LsnBreak, AfterWaitEDU
  <2> QED
    BY <1>2, <2>1, <2>2, <2>3, <2>4, <2>5, <2>6, <2>7, <2>8, <2>9 DEF Listener
<1>3. CASE Agent(e)
  <2>1. CASE AgtPoll(e)
    BY <2>1 DEF AgtPoll
  <2>2. CASE AgtTimeout(e)
    BY <2>2 DEF AgtTimeout
  <2>3. CASE AgtFail(e)
    BY <2>3 DEF AgtFail
  <2>4. CASE AgtRequest(e)
    BY <2>4 DEF AgtRequest, Activate
  <2>5. CASE AgtReply(e)
    BY <2>5 DEF AgtReply, AfterWaitEDU
  <2>6. CASE AgtDisconnect(e)
    BY <2>6 DEF AgtDisconnect, AfterWaitEDU
  <2>7. CASE AgtSendFail(e)
    BY <2>7 DEF AgtSendFail
  <2>8. CASE AgtClose(e)
    BY <2>8 DEF AgtClose, ConnAt
  <2>9. CASE AgtData(e) \/ AgtLength(e) \/ AgtSend(e)
    BY <2>9 DEF AgtData, AgtLength, AgtSend
  <2> QED
    BY <1>3, <2>1, <2>2, <2>3, <2>4, <2>5, <2>6, <2>7, <2>8, <2>9 DEF Agent
<1> QED
  BY <1>1, <1>2, <1>3 DEF Thread

\* Every step of the main thread keeps the types.
LEMMA MainType ==
  ASSUME TypeOK, Main
  PROVE  TypeOK'
<1> USE DEF TypeOK, mgrVars, cbVars, threadVars, callVars, mainVars, CallGoto, MainGoto,
            CallPc, MainPc
<1>1. CASE MainStart
  BY <1>1 DEF MainStart
<1>2. CASE MainUp
  BY <1>2 DEF MainUp
<1>3. CASE MainLeave
  BY <1>3 DEF MainLeave
<1>4. CASE MainQuiesce
  BY <1>4 DEF MainQuiesce
<1>5. CASE MainCount
  BY <1>5, ForcePeriodAssumption DEF MainCount
<1>6. CASE MainForce
  BY <1>6, ForcePeriodAssumption DEF MainForce
<1> QED
  BY <1>1, <1>2, <1>3, <1>4, <1>5, <1>6 DEF Main

\* Type correctness: every variable of the EDU manager, of the threads and of
\* _destroyAll keeps its type in every run of the program.
THEOREM TypeCorrect == Spec => []TypeOK
<1>1. Init => TypeOK
  <2> SUFFICES ASSUME Init PROVE TypeOK
    OBVIOUS
  <2>1. tick \in 0..(ForcePeriod - 1) /\ nextId \in Nat
    BY ForcePeriodAssumption DEF Init
  <2>2. queue \in [EDU -> Seq(Arg)]
    BY DEF Init
  <2> QED
    BY <2>1, <2>2 DEF Init, TypeOK, Type, Status, ThreadPc, CallPc, MainPc, ConnAt, Arg
<1>2. TypeOK /\ [Next]_vars => TypeOK'
  <2> SUFFICES ASSUME TypeOK, [Next]_vars PROVE TypeOK'
    OBVIOUS
  <2>1. CASE UNCHANGED vars
    BY <2>1 DEF vars, TypeOK
  <2>2. CASE Signal
    BY <2>2 DEF Signal, TypeOK, mgrVars, cbVars, threadVars, callVars, mainVars
  <2> QED
    BY <2>1, <2>2, StartEDUType, ThreadType, MainType DEF Next, Exited
<1> QED
  BY <1>1, <1>2, PTL DEF Spec

-----------------------------------------------------------------------------
(* The inductive invariant.                                                *)

InRun == {"CREATING", "RUNNING", "WAITING"}
InCall == {"thread", "post"}

\* Ids not given out yet belong to nobody.
FreshIds ==
  \A e \in EDU : e >= nextId => pc[e] = "none" /\ status[e] = "NONE" /\ queue[e] = <<>>

\* Before its thread starts an EDU is neither pooled nor posted to.
NotStarted ==
  \A e \in EDU : pc[e] = "none" => queue[e] = <<>> /\ status[e] \in {"NONE", "CREATING", "DESTROY"}

\* A startEDU call owns the EDU it has chosen until it has posted to it.
CallOwns ==
  \A p \in Caller : callPc[p] \in InCall =>
    /\ callEdu[p] \in EDU
    /\ callEdu[p] < nextId
    /\ callEdu[p] \notin idle
    /\ queue[callEdu[p]] = <<>>
    /\ ~Busy(callEdu[p])
    /\ callPc[p] = "thread" => pc[callEdu[p]] = "none" /\ status[callEdu[p]] = "CREATING"
    /\ callPc[p] = "post" => pc[callEdu[p]] # "none"

CallsApart ==
  \A p, q \in Caller : callPc[p] \in InCall /\ callPc[q] \in InCall /\ callEdu[p] = callEdu[q]
                         => p = q

\* Work in progress leaves no room for queued work, and a pooled EDU has none.
WorkOwns ==
  \A e \in EDU : /\ Busy(e) => queue[e] = <<>> /\ e \notin idle
                 /\ e \in idle => queue[e] = <<>>
                 /\ Len(queue[e]) <= 1

\* A forced thread never asks for a place in the pool.
ForcedIsDestroyed == \A e \in EDU : pc[e] \in {"size", "pool"} => ~isForced[e]

\* The EDUs that are in the pool, or for which returnEDU has decided that they
\* will be.  size() counted them all when the last of them got in.
Approved == idle \cup {e \in EDU : pc[e] = "pool"}

ApprovedBound == Cardinality(Approved) <= MaxPool

IInv ==
  /\ QueuesMatchStatus
  /\ ThreadHasBlock
  /\ FreshIds
  /\ NotStarted
  /\ CallOwns
  /\ CallsApart
  /\ WorkOwns
  /\ ForcedIsDestroyed
  /\ ApprovedBound

\* No startEDU call enters the part in which it owns an EDU.
CallsQuiet ==
  \A p \in Caller : callPc'[p] \in InCall => callPc'[p] = callPc[p] /\ callEdu'[p] = callEdu[p]

\* A step of a call that chooses no EDU preserves the invariant.
LEMMA CallMove ==
  ASSUME TypeOK, IInv, CallsQuiet,
         UNCHANGED <<run, idle, nextId, status, queue, pc, isForced>>
  PROVE  IInv'
<1> USE DEF IInv
<1>1. QueuesMatchStatus' /\ ThreadHasBlock' /\ FreshIds' /\ NotStarted'
  BY DEF QueuesMatchStatus, ThreadHasBlock, FreshIds, NotStarted
<1>2. CallOwns' /\ CallsApart'
  BY DEF CallOwns, CallsApart, CallsQuiet, Busy
<1>3. WorkOwns' /\ ForcedIsDestroyed'
  BY DEF WorkOwns, ForcedIsDestroyed, Busy
<1>4. ApprovedBound'
  BY DEF ApprovedBound, Approved
<1> QED
  BY <1>1, <1>2, <1>3, <1>4

\* A step of a thread within its loop or its entry function, which takes up no
\* work, does not enter the pool and at most makes its EDU RUNNING or WAITING.
LEMMA ThreadMove ==
  ASSUME TypeOK, IInv, CallsQuiet, NEW e \in EDU, NEW x, NEW s,
         pc[e] \notin {"none", "exited"}, x \notin {"none", "exited", "pool"},
         pc' = [pc EXCEPT ![e] = x],
         x = "size" => ~isForced[e],
         Busy(e)' => Busy(e),
         UNCHANGED <<run, idle, nextId, queue, isForced>>,
         status' = [status EXCEPT ![e] = s],
         s = status[e] \/ (s \in {"RUNNING", "WAITING"} /\ e \in run)
  PROVE  IInv'
<1> USE DEF IInv
<1>1. \A f \in EDU : f # e => pc'[f] = pc[f] /\ status'[f] = status[f]
  BY DEF TypeOK
<1>2. pc'[e] = x /\ status'[e] = s
  BY DEF TypeOK
<1>3. \A f \in EDU : Busy(f)' => Busy(f)
  BY <1>1 DEF Busy
<1>4. QueuesMatchStatus'
  BY <1>1, <1>2 DEF QueuesMatchStatus
<1>5. ThreadHasBlock'
  BY <1>1, <1>2 DEF ThreadHasBlock, Live
<1>6. FreshIds' /\ NotStarted'
  BY <1>1, <1>2 DEF FreshIds, NotStarted
<1>7. CallOwns'
  BY <1>1, <1>2, <1>3 DEF CallOwns, CallsQuiet
<1>8. CallsApart'
  BY DEF CallsApart, CallsQuiet
<1>9. WorkOwns'
  BY <1>3 DEF WorkOwns
<1>10. ForcedIsDestroyed'
  BY <1>1, <1>2 DEF ForcedIsDestroyed
<1>11. ApprovedBound'
  <2>1. Approved' \subseteq Approved
    BY <1>1, <1>2 DEF Approved
  <2>2. IsFiniteSet(Approved)
    BY EDUAssumption, FS_Subset DEF Approved, TypeOK
  <2> QED
    BY <2>1, <2>2, FS_Subset, FS_CardinalityType, MaxPoolAssumption DEF ApprovedBound
<1> QED
  BY <1>4, <1>5, <1>6, <1>7, <1>8, <1>9, <1>10, <1>11

\* A set of approved EDUs that has not grown is still within the bound.
LEMMA ApprovedShrinks ==
  ASSUME TypeOK, ApprovedBound, Approved' \subseteq Approved
  PROVE  ApprovedBound'
<1>1. IsFiniteSet(Approved)
  BY EDUAssumption, FS_Subset DEF Approved, TypeOK
<1> QED
  BY <1>1, FS_Subset, FS_CardinalityType, MaxPoolAssumption DEF ApprovedBound

\* Taking an event from the queue, the thread takes up the only work of its EDU.
LEMMA EventArrivesInv ==
  ASSUME TypeOK, IInv, NEW e \in EDU, EventArrives(e)
  PROVE  IInv'
<1> USE DEF IInv
<1>1. /\ pc[e] \in {"wait", "ready"} /\ queue[e] # <<>>
      /\ queue' = [queue EXCEPT ![e] = Tail(queue[e])]
      /\ status' = [status EXCEPT ![e] = "RUNNING"]
      /\ pc' = [pc EXCEPT ![e] = IF isForced[e] THEN "return" ELSE "resume"]
      /\ UNCHANGED <<run, idle, nextId, isForced, callPc, callEdu>>
  BY DEF EventArrives, mgrVars, callVars, Goto
<1>2. /\ \A f \in EDU : f # e => /\ pc'[f] = pc[f] /\ status'[f] = status[f]
                                 /\ queue'[f] = queue[f] /\ (Busy(f)' <=> Busy(f))
      /\ pc'[e] \in {"return", "resume"} /\ status'[e] = "RUNNING"
  BY <1>1 DEF TypeOK, Busy
<1>3. e \notin idle /\ e \in run
  BY <1>1 DEF WorkOwns, ThreadHasBlock, QueuesMatchStatus, Live
<1>4. queue'[e] = <<>>
  <2>1. queue[e] \in Seq(Arg) /\ Len(queue[e]) <= 1
    BY DEF TypeOK, WorkOwns
  <2> QED
    BY <1>1, <2>1 DEF TypeOK
<1>5. \A p \in Caller : callPc[p] \in InCall => callEdu[p] # e
  BY <1>1 DEF CallOwns
<1>6. QueuesMatchStatus' /\ ThreadHasBlock'
  BY <1>1, <1>2, <1>3 DEF QueuesMatchStatus, ThreadHasBlock, Live
<1>7. FreshIds' /\ NotStarted'
  BY <1>1, <1>2 DEF FreshIds, NotStarted
<1>8. CallOwns' /\ CallsApart'
  BY <1>1, <1>2, <1>5 DEF CallOwns, CallsApart
<1>9. WorkOwns' /\ ForcedIsDestroyed'
  BY <1>1, <1>2, <1>3, <1>4 DEF WorkOwns, ForcedIsDestroyed
<1>10. ApprovedBound'
  BY <1>1, <1>2, ApprovedShrinks DEF Approved
<1> QED
  BY <1>6, <1>7, <1>8, <1>9, <1>10

\* A timeout takes up no work, even when it finds the EDU forced.
LEMMA WaitTimeoutInv ==
  ASSUME TypeOK, IInv, NEW e \in EDU, WaitTimeout(e)
  PROVE  IInv'
<1> USE DEF IInv
<1>1. /\ pc[e] = "wait"
      /\ isForced' = [isForced EXCEPT ![e] = isForced[e] \/ forced[e]]
      /\ pc' = [pc EXCEPT ![e] = IF forced[e] THEN "return" ELSE "top"]
      /\ UNCHANGED <<run, idle, nextId, status, queue, callPc, callEdu>>
  BY DEF WaitTimeout, mgrVars, cbVars, callVars, Goto
<1>2. /\ \A f \in EDU : f # e => pc'[f] = pc[f] /\ isForced'[f] = isForced[f]
      /\ pc'[e] = "top" \/ (pc'[e] = "return" /\ isForced'[e])
  BY <1>1 DEF TypeOK
<1>3. \A f \in EDU : Busy(f)' => Busy(f)
  BY <1>2 DEF Busy
<1>4. QueuesMatchStatus' /\ ThreadHasBlock' /\ FreshIds' /\ NotStarted'
  BY <1>1, <1>2 DEF QueuesMatchStatus, ThreadHasBlock, FreshIds, NotStarted
<1>5. CallOwns' /\ CallsApart'
  BY <1>1, <1>2, <1>3 DEF CallOwns, CallsApart
<1>6. WorkOwns' /\ ForcedIsDestroyed'
  BY <1>1, <1>2, <1>3 DEF WorkOwns, ForcedIsDestroyed
<1>7. ApprovedBound'
  BY <1>1, <1>2, ApprovedShrinks DEF Approved
<1> QED
  BY <1>4, <1>5, <1>6, <1>7

\* size() counts every approved EDU and the one that asks: if it finds no more
\* than MaxPool, there is room for the one that asks.
LEMMA SizeCheckInv ==
  ASSUME TypeOK, IInv, NEW e \in EDU, SizeCheck(e)
  PROVE  IInv'
<1> USE DEF IInv
<1>1. /\ pc[e] = "size"
      /\ pc' = [pc EXCEPT ![e] = IF Size > MaxPool THEN "destroy" ELSE "pool"]
      /\ UNCHANGED <<run, idle, nextId, status, queue, isForced, callPc, callEdu>>
  BY DEF SizeCheck, mgrVars, cbVars, callVars, Goto
<1>2. /\ \A f \in EDU : f # e => pc'[f] = pc[f]
      /\ pc'[e] = IF Size > MaxPool THEN "destroy" ELSE "pool"
  BY <1>1 DEF TypeOK
<1>3. \A f \in EDU : Busy(f)' => Busy(f)
  BY <1>1, <1>2 DEF Busy
<1>4. QueuesMatchStatus' /\ ThreadHasBlock' /\ FreshIds' /\ NotStarted'
  BY <1>1, <1>2 DEF QueuesMatchStatus, ThreadHasBlock, FreshIds, NotStarted
<1>5. CallOwns' /\ CallsApart'
  BY <1>1, <1>2, <1>3 DEF CallOwns, CallsApart
<1>6. WorkOwns' /\ ForcedIsDestroyed'
  BY <1>1, <1>2, <1>3 DEF WorkOwns, ForcedIsDestroyed
<1>7. ApprovedBound'
  <2>1. CASE Size > MaxPool
    BY <1>1, <1>2, <2>1, ApprovedShrinks DEF Approved
  <2>2. CASE ~(Size > MaxPool)
    <3>1. Approved' \subseteq run \cup idle
      BY <1>1, <1>2 DEF Approved, ThreadHasBlock, QueuesMatchStatus, Live
    <3>2. IsFiniteSet(run) /\ IsFiniteSet(idle)
      BY EDUAssumption, FS_Subset DEF TypeOK
    <3>3. /\ IsFiniteSet(run \cup idle)
          /\ Cardinality(run \cup idle) <= Size
      <4>1. IsFiniteSet(run \cap idle)
        BY <3>2, FS_Subset
      <4>2. Cardinality(run \cap idle) \in Nat
        BY <4>1, FS_CardinalityType
      <4>3. Cardinality(run) \in Nat /\ Cardinality(idle) \in Nat
        BY <3>2, FS_CardinalityType
      <4>4. /\ IsFiniteSet(run \cup idle)
            /\ Cardinality(run \cup idle)
                 = Cardinality(run) + Cardinality(idle) - Cardinality(run \cap idle)
        BY <3>2, FS_Union
      <4> QED
        BY <4>2, <4>3, <4>4 DEF Size
    <3>4. IsFiniteSet(Approved') /\ Cardinality(Approved') <= Cardinality(run \cup idle)
      BY <3>1, <3>3, FS_Subset
    <3>5. /\ Cardinality(run) \in Nat /\ Cardinality(idle) \in Nat
          /\ Cardinality(run \cup idle) \in Nat /\ Cardinality(Approved') \in Nat
      BY <3>2, <3>3, <3>4, FS_CardinalityType
    <3> QED
      BY <2>2, <3>3, <3>4, <3>5, MaxPoolAssumption DEF ApprovedBound, Size
  <2> QED
    BY <2>1, <2>2
<1> QED
  BY <1>4, <1>5, <1>6, <1>7

\* _deactivateEDU moves an approved EDU from the run queue to the pool.
LEMMA DeactivateInv ==
  ASSUME TypeOK, IInv, NEW e \in EDU, DeactivateEDU(e)
  PROVE  IInv'
<1> USE DEF IInv
<1>1. /\ pc[e] = "pool"
      /\ ~isForced[e]
      /\ Busy(e)
      /\ e \in run /\ e \notin idle
      /\ queue[e] = <<>>
  BY DEF DeactivateEDU, ForcedIsDestroyed, Busy, WorkOwns, ThreadHasBlock, QueuesMatchStatus, Live
<1>2. UNCHANGED <<nextId, queue, isForced, callPc, callEdu>>
  BY DEF DeactivateEDU, callVars
<1>3. \A f \in EDU : f # e => /\ pc'[f] = pc[f] /\ status'[f] = status[f]
                              /\ (f \in run' <=> f \in run) /\ (f \in idle' <=> f \in idle)
  BY DEF DeactivateEDU, Goto, TypeOK
<1>4. /\ pc'[e] = "top"
      /\ \/ e \notin run' /\ e \in idle' /\ status'[e] = "IDLE"
         \/ e \in run' /\ e \notin idle' /\ status'[e] = status[e]
  BY <1>1 DEF DeactivateEDU, Goto, TypeOK
<1>5. run' \subseteq EDU /\ idle' \subseteq EDU
  BY DEF DeactivateEDU, TypeOK
<1>6. \A f \in EDU : Busy(f)' => Busy(f) /\ f # e
  BY <1>2, <1>3, <1>4 DEF Busy
<1>7. \A p \in Caller : callPc[p] \in InCall => callEdu[p] # e
  BY <1>1 DEF CallOwns
<1>8. QueuesMatchStatus'
  <2>1. \A f \in EDU : /\ f \in idle' <=> status'[f] = "IDLE"
                       /\ f \in run' <=> status'[f] \in InRun
    BY <1>1, <1>3, <1>4 DEF QueuesMatchStatus, InRun
  <2> QED
    BY <1>5, <2>1 DEF QueuesMatchStatus, InRun
<1>9. ThreadHasBlock'
  BY <1>1, <1>3, <1>4 DEF ThreadHasBlock, Live
<1>10. FreshIds' /\ NotStarted'
  BY <1>1, <1>2, <1>3, <1>4 DEF FreshIds, NotStarted
<1>11. CallOwns'
  BY <1>2, <1>3, <1>6, <1>7 DEF CallOwns
<1>12. CallsApart'
  BY <1>2 DEF CallsApart
<1>13. WorkOwns' /\ ForcedIsDestroyed'
  BY <1>1, <1>2, <1>3, <1>4, <1>6 DEF WorkOwns, ForcedIsDestroyed
<1>14. ApprovedBound'
  <2>1. Approved' \subseteq Approved
    BY <1>1, <1>3, <1>5 DEF Approved, TypeOK
  <2> QED
    BY <2>1, ApprovedShrinks
<1> QED
  BY <1>8, <1>9, <1>10, <1>11, <1>12, <1>13, <1>14

\* _destroyEDU: when the control block is deleted its thread is on its way out.
LEMMA DestroyInv ==
  ASSUME TypeOK, IInv, NEW e \in EDU, DestroyEDU(e)
  PROVE  IInv'
<1> USE DEF IInv
<1>1. /\ pc[e] = "destroy"
      /\ status[e] \in Live
  BY DEF DestroyEDU, ThreadHasBlock
<1>2. UNCHANGED <<nextId, queue, isForced, callPc, callEdu>>
  BY DEF DestroyEDU, callVars
<1>3. \A f \in EDU : f # e => /\ pc'[f] = pc[f] /\ status'[f] = status[f]
                              /\ (f \in run' <=> f \in run) /\ (f \in idle' <=> f \in idle)
  BY DEF DestroyEDU, Goto, TypeOK
<1>4. \/ /\ pc'[e] = "exited" /\ status'[e] = "DESTROY" /\ e \notin run' /\ e \notin idle'
      \/ /\ pc'[e] = "top" /\ status'[e] = status[e]
         /\ (e \in run' <=> e \in run) /\ (e \in idle' <=> e \in idle)
  BY <1>1 DEF DestroyEDU, Goto, TypeOK, QueuesMatchStatus, Live
<1>5. run' \subseteq run /\ idle' \subseteq idle
  BY DEF DestroyEDU, TypeOK
<1>6. \A f \in EDU : Busy(f)' => Busy(f) /\ f # e
  BY <1>2, <1>3, <1>4 DEF Busy
<1>7. QueuesMatchStatus'
  <2>1. \A f \in EDU : /\ f \in idle' <=> status'[f] = "IDLE"
                       /\ f \in run' <=> status'[f] \in InRun
    BY <1>3, <1>4 DEF QueuesMatchStatus, InRun
  <2> QED
    BY <1>5, <2>1 DEF QueuesMatchStatus, InRun
<1>8. ThreadHasBlock'
  BY <1>1, <1>3, <1>4 DEF ThreadHasBlock
<1>9. FreshIds' /\ NotStarted'
  BY <1>1, <1>2, <1>3, <1>4 DEF FreshIds, NotStarted
<1>10. CallOwns'
  <2> SUFFICES ASSUME NEW p \in Caller, callPc[p] \in InCall
               PROVE  /\ callEdu[p] \notin idle'
                      /\ ~Busy(callEdu[p])'
                      /\ callPc[p] = "thread" => /\ pc'[callEdu[p]] = "none"
                                                 /\ status'[callEdu[p]] = "CREATING"
                      /\ callPc[p] = "post" => pc'[callEdu[p]] # "none"
    BY <1>2 DEF CallOwns
  <2>1. callEdu[p] \in EDU /\ callEdu[p] \notin idle /\ ~Busy(callEdu[p])
    BY DEF CallOwns
  <2>2. callEdu[p] \notin idle' /\ ~Busy(callEdu[p])'
    BY <1>2, <1>5, <1>6, <2>1
  <2>3. ASSUME callPc[p] = "thread"
        PROVE  pc'[callEdu[p]] = "none" /\ status'[callEdu[p]] = "CREATING"
    BY <1>1, <1>3, <2>1, <2>3 DEF CallOwns
  <2>4. ASSUME callPc[p] = "post" PROVE pc'[callEdu[p]] # "none"
    BY <1>3, <1>4, <2>1, <2>4 DEF CallOwns
  <2> QED
    BY <2>2, <2>3, <2>4
<1>11. CallsApart'
  BY <1>2 DEF CallsApart
<1>12. WorkOwns' /\ ForcedIsDestroyed'
  BY <1>1, <1>2, <1>3, <1>4, <1>5, <1>6 DEF WorkOwns, ForcedIsDestroyed
<1>13. ApprovedBound'
  <2>1. Approved' \subseteq Approved
    BY <1>1, <1>3, <1>4, <1>5 DEF Approved
  <2> QED
    BY <2>1, ApprovedShrinks
<1> QED
  BY <1>7, <1>8, <1>9, <1>10, <1>11, <1>12, <1>13

\* startEDU takes an EDU out of the pool: it is idle, so nobody else owns it.
LEMMA ReusePooledInv ==
  ASSUME TypeOK, IInv, NEW p \in Caller, ReusePooled(p)
  PROVE  IInv'
<1> USE DEF IInv
<1>1. PICK e \in Ready : /\ idle' = idle \ {e}
                         /\ run' = run \cup {e}
                         /\ status' = [status EXCEPT ![e] = "WAITING"]
                         /\ callEdu' = [callEdu EXCEPT ![p] = e]
  BY DEF ReusePooled
<1>2. /\ callPc[p] = "latch"
      /\ callPc' = [callPc EXCEPT ![p] = "post"]
      /\ UNCHANGED <<nextId, queue, pc, isForced>>
  BY DEF ReusePooled, CallGoto, threadVars
<1>3. /\ e \in EDU /\ e \in idle /\ e \notin run /\ status[e] = "IDLE"
      /\ queue[e] = <<>> /\ ~Busy(e) /\ e < nextId /\ pc[e] # "none"
  <2>1. e \in EDU /\ e \in idle /\ status[e] = "IDLE"
    BY DEF Ready, TypeOK
  <2>2. e \notin run /\ queue[e] = <<>> /\ ~Busy(e)
    BY <2>1 DEF QueuesMatchStatus, WorkOwns
  <2>3. e < nextId /\ pc[e] # "none"
    BY <2>1, EDUAssumption DEF FreshIds, NotStarted, TypeOK
  <2> QED
    BY <2>1, <2>2, <2>3
<1>4. /\ \A f \in EDU : f # e => status'[f] = status[f]
      /\ status'[e] = "WAITING"
  BY <1>1, <1>3 DEF TypeOK
<1>5. /\ \A q \in Caller : q # p => callPc'[q] = callPc[q] /\ callEdu'[q] = callEdu[q]
      /\ callPc'[p] = "post" /\ callEdu'[p] = e
  BY <1>1, <1>2 DEF TypeOK
<1>6. \A q \in Caller : callPc[q] \in InCall => callEdu[q] # e
  BY <1>3 DEF CallOwns
<1>7. \A f \in EDU : Busy(f)' <=> Busy(f)
  BY <1>2 DEF Busy
<1>8. QueuesMatchStatus'
  BY <1>1, <1>3, <1>4 DEF QueuesMatchStatus
<1>9. ThreadHasBlock' /\ FreshIds' /\ NotStarted'
  BY <1>2, <1>3, <1>4, EDUAssumption DEF ThreadHasBlock, FreshIds, NotStarted, Live, TypeOK
<1>10. CallOwns'
  <2> SUFFICES ASSUME NEW q \in Caller, callPc'[q] \in InCall
               PROVE  /\ callEdu'[q] \in EDU /\ callEdu'[q] < nextId
                      /\ callEdu'[q] \notin idle' /\ queue[callEdu'[q]] = <<>>
                      /\ ~Busy(callEdu[q])'
                      /\ callPc'[q] = "thread" => /\ pc[callEdu'[q]] = "none"
                                                  /\ status'[callEdu'[q]] = "CREATING"
                      /\ callPc'[q] = "post" => pc[callEdu'[q]] # "none"
    BY <1>2 DEF CallOwns
  <2>1. CASE q = p
    BY <1>1, <1>3, <1>5, <1>7, <2>1
  <2>2. CASE q # p
    BY <1>1, <1>4, <1>5, <1>6, <1>7, <2>2 DEF CallOwns
  <2> QED
    BY <2>1, <2>2
<1>11. CallsApart'
  BY <1>5, <1>6 DEF CallsApart
<1>12. WorkOwns' /\ ForcedIsDestroyed'
  BY <1>1, <1>2, <1>7 DEF WorkOwns, ForcedIsDestroyed
<1>13. ApprovedBound'
  BY <1>1, <1>2, ApprovedShrinks DEF Approved
<1> QED
  BY <1>8, <1>9, <1>10, <1>11, <1>12, <1>13

\* _createNewEDU gives the new control block an id nobody has.
LEMMA CreateInsertInv ==
  ASSUME TypeOK, IInv, NEW p \in Caller, CreateInsert(p)
  PROVE  IInv'
<1> USE DEF IInv
<1> DEFINE e == nextId
<1>1. /\ callPc[p] = "insert" /\ e \in EDU
      /\ run' = run \cup {e}
      /\ status' = [status EXCEPT ![e] = "CREATING"]
      /\ callEdu' = [callEdu EXCEPT ![p] = e]
      /\ nextId' = e + 1
      /\ callPc' = [callPc EXCEPT ![p] = "thread"]
      /\ UNCHANGED <<idle, queue, pc, isForced>>
  BY DEF CreateInsert, CallGoto, threadVars
<1>2. pc[e] = "none" /\ status[e] = "NONE" /\ queue[e] = <<>> /\ e \notin idle /\ ~Busy(e)
  BY <1>1 DEF FreshIds, QueuesMatchStatus, Busy, TypeOK
<1>3. /\ \A f \in EDU : f # e => status'[f] = status[f]
      /\ status'[e] = "CREATING"
  BY <1>1 DEF TypeOK
<1>4. /\ \A q \in Caller : q # p => callPc'[q] = callPc[q] /\ callEdu'[q] = callEdu[q]
      /\ callPc'[p] = "thread" /\ callEdu'[p] = e
  BY <1>1 DEF TypeOK
<1>5. \A q \in Caller : callPc[q] \in InCall => callEdu[q] # e
  BY DEF CallOwns, TypeOK
<1>6. \A f \in EDU : Busy(f)' <=> Busy(f)
  BY <1>1 DEF Busy
<1>7. QueuesMatchStatus'
  BY <1>1, <1>2, <1>3 DEF QueuesMatchStatus
<1>8. ThreadHasBlock' /\ NotStarted'
  BY <1>1, <1>2, <1>3 DEF ThreadHasBlock, NotStarted, Live
<1>9. FreshIds'
  BY <1>1, <1>3, EDUAssumption DEF FreshIds, TypeOK
<1>10. CallOwns'
  <2> SUFFICES ASSUME NEW q \in Caller, callPc'[q] \in InCall
               PROVE  /\ callEdu'[q] \in EDU /\ callEdu'[q] < nextId'
                      /\ callEdu'[q] \notin idle /\ queue[callEdu'[q]] = <<>>
                      /\ ~Busy(callEdu[q])'
                      /\ callPc'[q] = "thread" => /\ pc[callEdu'[q]] = "none"
                                                  /\ status'[callEdu'[q]] = "CREATING"
                      /\ callPc'[q] = "post" => pc[callEdu'[q]] # "none"
    BY <1>1 DEF CallOwns
  <2>1. CASE q = p
    BY <1>1, <1>2, <1>3, <1>4, <1>6, <2>1 DEF TypeOK
  <2>2. CASE q # p
    <3>1. callEdu'[q] < nextId'
      <4>1. callEdu[q] \in EDU /\ callEdu[q] < nextId /\ callEdu'[q] = callEdu[q]
        BY <1>4, <2>2 DEF CallOwns
      <4>2. callEdu[q] \in Nat /\ nextId \in Nat
        BY <4>1, EDUAssumption DEF TypeOK
      <4> QED
        BY <1>1, <4>1, <4>2
    <3> QED
      BY <1>1, <1>3, <1>4, <1>5, <1>6, <2>2, <3>1 DEF CallOwns
  <2> QED
    BY <2>1, <2>2
<1>11. CallsApart'
  BY <1>4, <1>5 DEF CallsApart
<1>12. WorkOwns' /\ ForcedIsDestroyed'
  BY <1>1, <1>6 DEF WorkOwns, ForcedIsDestroyed
<1>13. ApprovedBound'
  BY <1>1, ApprovedShrinks DEF Approved
<1> QED
  BY <1>7, <1>8, <1>9, <1>10, <1>11, <1>12, <1>13

\* The thread starts on an EDU that its call still owns.
LEMMA ThreadStartInv ==
  ASSUME TypeOK, IInv, NEW p \in Caller, ThreadStart(p)
  PROVE  IInv'
<1> USE DEF IInv
<1> DEFINE e == callEdu[p]
<1>1. /\ callPc[p] = "thread"
      /\ pc' = [pc EXCEPT ![e] = "top"]
      /\ callPc' = [callPc EXCEPT ![p] = "post"]
      /\ UNCHANGED <<run, idle, nextId, status, queue, isForced, callEdu>>
  BY DEF ThreadStart, CallGoto, mgrVars, cbVars
<1>2. /\ e \in EDU /\ e < nextId /\ e \notin idle /\ queue[e] = <<>> /\ ~Busy(e)
      /\ pc[e] = "none" /\ status[e] = "CREATING"
  BY <1>1 DEF CallOwns, InCall
<1>3. /\ \A f \in EDU : f # e => pc'[f] = pc[f]
      /\ pc'[e] = "top"
  BY <1>1, <1>2 DEF TypeOK
<1>4. /\ \A q \in Caller : q # p => callPc'[q] = callPc[q]
      /\ callPc'[p] = "post"
  BY <1>1 DEF TypeOK
<1>5. \A q \in Caller : callPc[q] \in InCall /\ q # p => callEdu[q] # e
  BY <1>1 DEF CallsApart, InCall
<1>6. \A f \in EDU : Busy(f)' => Busy(f)
  BY <1>1, <1>3 DEF Busy
<1>7. QueuesMatchStatus' /\ ThreadHasBlock'
  BY <1>1, <1>2, <1>3 DEF QueuesMatchStatus, ThreadHasBlock, Live
<1>8. FreshIds' /\ NotStarted'
  BY <1>1, <1>2, <1>3, EDUAssumption DEF FreshIds, NotStarted, TypeOK
<1>9. CallOwns'
  <2> SUFFICES ASSUME NEW q \in Caller, callPc'[q] \in InCall
               PROVE  /\ callEdu[q] \in EDU /\ callEdu[q] < nextId
                      /\ callEdu[q] \notin idle /\ queue[callEdu[q]] = <<>>
                      /\ ~Busy(callEdu[q])'
                      /\ callPc'[q] = "thread" => /\ pc'[callEdu[q]] = "none"
                                                  /\ status[callEdu[q]] = "CREATING"
                      /\ callPc'[q] = "post" => pc'[callEdu[q]] # "none"
    BY <1>1 DEF CallOwns
  <2>1. CASE q = p
    BY <1>1, <1>2, <1>3, <1>4, <1>6, <2>1
  <2>2. CASE q # p
    BY <1>1, <1>3, <1>4, <1>5, <1>6, <2>2 DEF CallOwns
  <2> QED
    BY <2>1, <2>2
<1>10. CallsApart'
  BY <1>1, <1>4, <1>5 DEF CallsApart
<1>11. WorkOwns' /\ ForcedIsDestroyed'
  BY <1>1, <1>3, <1>6 DEF WorkOwns, ForcedIsDestroyed
<1>12. ApprovedBound'
  BY <1>1, <1>3, ApprovedShrinks DEF Approved
<1> QED
  BY <1>7, <1>8, <1>9, <1>10, <1>11, <1>12

\* When the thread cannot be created the EDU has no thread and nobody else owns it.
LEMMA ThreadFailInv ==
  ASSUME TypeOK, IInv, NEW p \in Caller, ThreadFail(p)
  PROVE  IInv'
<1> USE DEF IInv
<1> DEFINE e == callEdu[p]
<1>1. /\ callPc[p] = "thread"
      /\ run' = run \ {e}
      /\ status' = [status EXCEPT ![e] = "DESTROY"]
      /\ callPc' = [callPc EXCEPT ![p] = "rejected"]
      /\ UNCHANGED <<idle, nextId, queue, pc, isForced, callEdu>>
  BY DEF ThreadFail, CallGoto, threadVars
<1>2. /\ e \in EDU /\ e < nextId /\ e \notin idle /\ pc[e] = "none"
  BY <1>1 DEF CallOwns, InCall
<1>3. /\ \A f \in EDU : f # e => status'[f] = status[f]
      /\ status'[e] = "DESTROY"
  BY <1>1, <1>2 DEF TypeOK
<1>4. /\ \A q \in Caller : q # p => callPc'[q] = callPc[q]
      /\ callPc'[p] \notin InCall
  BY <1>1 DEF TypeOK, InCall
<1>5. \A q \in Caller : callPc[q] \in InCall /\ q # p => callEdu[q] # e
  BY <1>1 DEF CallsApart, InCall
<1>6. \A f \in EDU : Busy(f)' => Busy(f)
  BY <1>1 DEF Busy
<1>7. QueuesMatchStatus' /\ ThreadHasBlock'
  BY <1>1, <1>2, <1>3 DEF QueuesMatchStatus, ThreadHasBlock
<1>8. FreshIds' /\ NotStarted'
  BY <1>1, <1>2, <1>3, EDUAssumption DEF FreshIds, NotStarted, TypeOK
<1>9. CallOwns'
  BY <1>1, <1>3, <1>4, <1>5, <1>6 DEF CallOwns
<1>10. CallsApart'
  BY <1>1, <1>4 DEF CallsApart
<1>11. WorkOwns' /\ ForcedIsDestroyed'
  BY <1>1, <1>6 DEF WorkOwns, ForcedIsDestroyed
<1>12. ApprovedBound'
  BY <1>1, ApprovedShrinks DEF Approved
<1> QED
  BY <1>7, <1>8, <1>9, <1>10, <1>11, <1>12

\* The posted event is the only work of its EDU.
LEMMA PostInv ==
  ASSUME TypeOK, IInv, NEW p \in Caller, Post(p)
  PROVE  IInv'
<1> USE DEF IInv
<1> DEFINE e == callEdu[p]
<1>1. /\ callPc[p] = "post"
      /\ queue' = IF status[e] \in Live
                  THEN [queue EXCEPT ![e] = Append(queue[e], callArg[p])]
                  ELSE queue
      /\ callPc' = [callPc EXCEPT ![p] = "off"]
      /\ UNCHANGED <<run, idle, nextId, status, pc, isForced, callEdu>>
  BY DEF Post, CallGoto, mgrVars, threadVars
<1>2. /\ e \in EDU /\ e < nextId /\ e \notin idle /\ queue[e] = <<>> /\ ~Busy(e)
      /\ pc[e] # "none"
  BY <1>1 DEF CallOwns, InCall
<1>3. /\ \A f \in EDU : f # e => queue'[f] = queue[f]
      /\ Len(queue'[e]) <= 1
  <2>1. Len(Append(queue[e], callArg[p])) = 1
    BY <1>2
  <2> QED
    BY <1>1, <1>2, <2>1 DEF TypeOK
<1>4. /\ \A q \in Caller : q # p => callPc'[q] = callPc[q]
      /\ callPc'[p] \notin InCall
  BY <1>1 DEF TypeOK, InCall
<1>5. \A q \in Caller : callPc[q] \in InCall /\ q # p => callEdu[q] # e
  BY <1>1 DEF CallsApart, InCall
<1>6. \A f \in EDU : Busy(f)' <=> Busy(f)
  BY <1>1 DEF Busy
<1>7. QueuesMatchStatus' /\ ThreadHasBlock'
  BY <1>1 DEF QueuesMatchStatus, ThreadHasBlock
<1>8. FreshIds' /\ NotStarted'
  BY <1>1, <1>2, <1>3, EDUAssumption DEF FreshIds, NotStarted, TypeOK
<1>9. CallOwns'
  BY <1>1, <1>3, <1>4, <1>5, <1>6 DEF CallOwns
<1>10. CallsApart'
  BY <1>1, <1>4 DEF CallsApart
<1>11. WorkOwns' /\ ForcedIsDestroyed'
  BY <1>1, <1>2, <1>3, <1>6 DEF WorkOwns, ForcedIsDestroyed
<1>12. ApprovedBound'
  BY <1>1, ApprovedShrinks DEF Approved
<1> QED
  BY <1>7, <1>8, <1>9, <1>10, <1>11, <1>12

\* The places of a thread between the event it got and the return of its EDU.
Session == {"resume", "entry", "entryRet", "lsnOpen", "lsnLoop", "lsnAccept", "lsnCall",
            "lsnBreak", "agtPoll", "agtRecv", "agtRead", "agtWork", "agtWrite", "agtClose"}

\* A step of an entry function: the thread keeps its work, its EDU stays in the
\* run queue, and waitEDU and activateEDU change its status only.
LEMMA SessionMove ==
  ASSUME TypeOK, IInv, CallsQuiet, NEW e \in EDU, NEW x \in Session \cup {"return"},
         pc[e] \in Session,
         pc' = [pc EXCEPT ![e] = x],
         UNCHANGED <<nextId, queue, isForced>>,
         \/ UNCHANGED <<run, idle, status>>
         \/ UNCHANGED <<run, idle>> /\ status' = AfterWaitEDU(e)
         \/ Activate(e)
  PROVE  IInv'
<1>1. Busy(e)
  BY DEF Busy, Session
<1>2. e \in run /\ e \notin idle
  BY <1>1 DEF IInv, WorkOwns, ThreadHasBlock, QueuesMatchStatus, Live, Session
<1>3. PICK s : /\ status' = [status EXCEPT ![e] = s]
               /\ s = status[e] \/ s \in {"RUNNING", "WAITING"}
  BY <1>2 DEF AfterWaitEDU, Activate, TypeOK
<1>4. UNCHANGED <<run, idle>>
  BY <1>2 DEF Activate
<1>5. /\ pc[e] \notin {"none", "exited"} /\ x \notin {"none", "exited", "pool"}
      /\ x # "size"
  BY DEF Session
<1> QED
  BY <1>1, <1>2, <1>3, <1>4, <1>5, ThreadMove

\* Every step of a startEDU call preserves the invariant.
LEMMA StartEDUInv ==
  ASSUME TypeOK, IInv, NEW p \in Caller, StartEDU(p)
  PROVE  IInv'
<1>1. CASE StartCheck(p) \/ NeedNew(p) \/ CreateCheck(p) \/ CreateOOM(p)
  <2>1. CallsQuiet
    BY <1>1 DEF StartCheck, NeedNew, CreateCheck, CreateOOM, CallGoto, CallsQuiet, InCall, TypeOK
  <2>2. UNCHANGED <<run, idle, nextId, status, queue, pc, isForced>>
    BY <1>1 DEF StartCheck, NeedNew, CreateCheck, CreateOOM, mgrVars, cbVars, threadVars
  <2> QED
    BY <2>1, <2>2, CallMove
<1> QED
  BY <1>1, ReusePooledInv, CreateInsertInv, ThreadStartInv, ThreadFailInv, PostInv DEF StartEDU

\* Every step of pmdEDUEntryPoint preserves the invariant.
LEMMA ThreadLoopInv ==
  ASSUME TypeOK, IInv, NEW e \in EDU, ThreadLoop(e)
  PROVE  IInv'
<1>1. CASE WaitBegin(e)
  <2> DEFINE s == IF status[e] = "IDLE" THEN "IDLE" ELSE "WAITING"
             x == IF queue[e] = <<>> THEN "wait" ELSE "ready"
  <2>1. CallsQuiet /\ UNCHANGED <<run, idle, nextId, queue, isForced>>
    BY <1>1 DEF WaitBegin, CallsQuiet, callVars, mgrVars
  <2>2. /\ pc[e] = "top" /\ pc' = [pc EXCEPT ![e] = x]
        /\ status' = [status EXCEPT ![e] = s]
    BY <1>1 DEF WaitBegin, Goto
  <2>3. s = status[e] \/ (s \in {"RUNNING", "WAITING"} /\ e \in run)
    BY <2>2 DEF IInv, ThreadHasBlock, QueuesMatchStatus, Live
  <2>4. ~Busy(e)'
    BY <2>2 DEF Busy, TypeOK
  <2> QED
    BY <2>1, <2>2, <2>3, <2>4, ThreadMove
<1>2. CASE Resume(e) \/ EntryCall(e) \/ EntryReturn(e)
  <2>1. CallsQuiet /\ UNCHANGED <<run, idle, nextId, queue, isForced>>
    BY <1>2 DEF Resume, EntryCall, EntryReturn, CallsQuiet, callVars, mgrVars, cbVars
  <2>2. pc[e] \in Session
    BY <1>2 DEF Resume, EntryCall, EntryReturn, Session
  <2>3. \E x \in Session \cup {"return"} : pc' = [pc EXCEPT ![e] = x]
    BY <1>2 DEF Resume, EntryCall, EntryReturn, Session, Goto
  <2>4. UNCHANGED status \/ status' = AfterWaitEDU(e)
    BY <1>2 DEF Resume, EntryCall, EntryReturn, cbVars
  <2> QED
    BY <2>1, <2>2, <2>3, <2>4, SessionMove
<1>3. CASE ReturnCheck(e)
  <2> DEFINE x == IF ~IsPoolable(type[e]) \/ isForced[e] \/ destroyed THEN "destroy" ELSE "size"
  <2>1. CallsQuiet /\ UNCHANGED <<run, idle, nextId, queue, isForced, status>>
    BY <1>3 DEF ReturnCheck, CallsQuiet, callVars, mgrVars, cbVars
  <2>0. pc[e] = "return" /\ e \in run \cup idle
    BY <1>3 DEF ReturnCheck, IInv, ThreadHasBlock, QueuesMatchStatus, Live
  <2> HIDE DEF x
  <2>2. pc[e] = "return" /\ pc' = [pc EXCEPT ![e] = x]
    BY <1>3, <2>0 DEF ReturnCheck, Goto, x
  <2>3. status' = [status EXCEPT ![e] = status[e]]
    BY <2>1 DEF TypeOK
  <2>4. Busy(e)' => Busy(e)
    BY <2>1, <2>2 DEF Busy, TypeOK, x
  <2>5. x \in {"destroy", "size"} /\ (x = "size" => ~isForced[e])
    BY DEF TypeOK, x
  <2> QED
    BY <2>1, <2>2, <2>3, <2>4, <2>5, ThreadMove
<1> QED
  BY <1>1, <1>2, <1>3, EventArrivesInv, WaitTimeoutInv, SizeCheckInv, DeactivateInv, DestroyInv
  DEF ThreadLoop

\* Every step of the listener preserves the invariant.
LEMMA ListenerInv ==
  ASSUME TypeOK, IInv, NEW e \in EDU, Listener(e)
  PROVE  IInv'
<1> USE DEF LsnOpen, LsnGiveUp, LsnLoop, LsnTimeout, LsnAccept, LsnError, LsnStarted,
            LsnReject, LsnBreak
<1>1. CallsQuiet
  <2>1. CASE LsnAccept(e) \/ LsnReject(e)
    BY <2>1 DEF CallGoto, CallsQuiet, InCall, TypeOK
  <2>2. CASE ~(LsnAccept(e) \/ LsnReject(e))
    <3>1. UNCHANGED <<callPc, callEdu>>
      BY <2>2 DEF Listener, callVars
    <3> QED
      BY <3>1 DEF CallsQuiet
  <2> QED
    BY <2>1, <2>2
<1>2. pc[e] \in Session
  BY DEF Listener, Session
<1>3. \E x \in Session \cup {"return"} : pc' = [pc EXCEPT ![e] = x]
  BY DEF Listener, Session, Goto
<1>4. UNCHANGED <<nextId, queue, isForced>>
  BY DEF Listener, mgrVars, cbVars
<1>5. \/ UNCHANGED <<run, idle, status>>
      \/ UNCHANGED <<run, idle>> /\ status' = AfterWaitEDU(e)
      \/ Activate(e)
  BY DEF Listener, mgrVars, cbVars
<1> QED
  BY <1>1, <1>2, <1>3, <1>4, <1>5, SessionMove

\* Every step of an agent's session preserves the invariant.
LEMMA AgentInv ==
  ASSUME TypeOK, IInv, NEW e \in EDU, Agent(e)
  PROVE  IInv'
<1> USE DEF AgtPoll, AgtTimeout, AgtData, AgtLength, AgtFail, AgtRequest, AgtSend, AgtReply,
            AgtDisconnect, AgtSendFail, AgtClose
<1>1. CallsQuiet
  BY DEF Agent, callVars, CallsQuiet
<1>2. pc[e] \in Session
  BY DEF Agent, Session
<1>3. \E x \in Session \cup {"return"} : pc' = [pc EXCEPT ![e] = x]
  BY DEF Agent, Session, Goto
<1>4. UNCHANGED <<nextId, queue, isForced>>
  BY DEF Agent, mgrVars, cbVars
<1>5. \/ UNCHANGED <<run, idle, status>>
      \/ UNCHANGED <<run, idle>> /\ status' = AfterWaitEDU(e)
      \/ Activate(e)
  BY DEF Agent, mgrVars, cbVars
<1> QED
  BY <1>1, <1>2, <1>3, <1>4, <1>5, SessionMove

\* The main thread and the signal handler preserve the invariant.
LEMMA MainInv ==
  ASSUME TypeOK, IInv, Main \/ Signal
  PROVE  IInv'
<1> USE DEF MainStart, MainUp, MainLeave, MainQuiesce, MainCount, MainForce, Signal
<1>1. CallsQuiet
  <2>1. CASE MainStart \/ MainUp
    BY <2>1 DEF CallGoto, CallsQuiet, InCall, TypeOK
  <2>2. CASE ~(MainStart \/ MainUp)
    <3>1. UNCHANGED <<callPc, callEdu>>
      BY <2>2 DEF Main, callVars
    <3> QED
      BY <3>1 DEF CallsQuiet
  <2> QED
    BY <2>1, <2>2
<1>2. UNCHANGED <<run, idle, nextId, status, queue, pc, isForced>>
  BY DEF Main, mgrVars, cbVars, threadVars
<1> QED
  BY <1>1, <1>2, CallMove

-----------------------------------------------------------------------------
(* The theorems.                                                           *)

\* The inductive invariant holds in every run of the program.
THEOREM Invariance == Spec => []IInv
<1>1. Init => IInv
  <2> SUFFICES ASSUME Init PROVE IInv
    OBVIOUS
  <2>1. QueuesMatchStatus /\ ThreadHasBlock /\ FreshIds /\ NotStarted
    BY DEF Init, QueuesMatchStatus, ThreadHasBlock, FreshIds, NotStarted
  <2>2. CallOwns /\ CallsApart /\ ForcedIsDestroyed
    BY DEF Init, CallOwns, CallsApart, ForcedIsDestroyed, InCall
  <2>3. WorkOwns
    <3>1. \A e \in EDU : Len(queue[e]) = 0
      BY DEF Init
    <3> QED
      BY <3>1 DEF Init, WorkOwns
  <2>4. ApprovedBound
    <3>1. Approved = {}
      BY DEF Init, Approved
    <3> QED
      BY <3>1, FS_EmptySet, MaxPoolAssumption DEF ApprovedBound
  <2> QED
    BY <2>1, <2>2, <2>3, <2>4 DEF IInv
<1>2. TypeOK /\ IInv /\ [Next]_vars => IInv'
  <2> SUFFICES ASSUME TypeOK, IInv, [Next]_vars PROVE IInv'
    OBVIOUS
  <2>1. CASE UNCHANGED vars
    <3>1. CallsQuiet
      BY <2>1 DEF vars, CallsQuiet
    <3> QED
      BY <2>1, <3>1, CallMove DEF vars
  <2>2. CASE \E e \in EDU : Thread(e)
    BY <2>2, ThreadLoopInv, ListenerInv, AgentInv DEF Thread
  <2>3. CASE \E p \in Caller : StartEDU(p)
    BY <2>3, StartEDUInv
  <2>4. CASE Main \/ Signal
    BY <2>4, MainInv
  <2> QED
    BY <2>1, <2>2, <2>3, <2>4 DEF Next, Exited
<1> QED
  BY <1>1, <1>2, TypeCorrect, PTL DEF Spec

\* The pool never holds more than MaxPool idle threads: returnEDU's test of
\* size() bounds the pool although the latch is dropped after it.
THEOREM PoolBounded == Spec => []PoolBound
<1>1. TypeOK /\ IInv => PoolBound
  <2> SUFFICES ASSUME TypeOK, IInv PROVE PoolBound
    OBVIOUS
  <2>1. IsFiniteSet(Approved) /\ idle \subseteq Approved
    BY EDUAssumption, FS_Subset DEF Approved, TypeOK
  <2> QED
    BY <2>1, FS_Subset, FS_CardinalityType, MaxPoolAssumption
    DEF IInv, ApprovedBound, PoolBound
<1> QED
  BY <1>1, TypeCorrect, Invariance, PTL

\* The queue an EDU is in and its status always agree, whatever waitEvent writes
\* without the latch.
THEOREM QueuesAgree == Spec => []QueuesMatchStatus
<1>1. IInv => QueuesMatchStatus
  BY DEF IInv
<1> QED
  BY <1>1, Invariance, PTL

\* The control block of an EDU lives as long as its thread uses it.
THEOREM BlockOutlivesThread == Spec => []ThreadHasBlock
<1>1. IInv => ThreadHasBlock
  BY DEF IInv
<1> QED
  BY <1>1, Invariance, PTL

\* No EDU is ever given a second piece of work before it is done with the first.
THEOREM WorkIsExclusive == Spec => []OneWork
<1>1. TypeOK /\ IInv => OneWork
  <2> SUFFICES ASSUME TypeOK, IInv, NEW e \in EDU
               PROVE  /\ Cardinality(Posting(e)) + Len(queue[e]) + (IF Busy(e) THEN 1 ELSE 0) <= 1
                      /\ e \in idle => Posting(e) = {} /\ queue[e] = <<>> /\ ~Busy(e)
    BY DEF OneWork
  <2>1. Len(queue[e]) \in Nat /\ Len(queue[e]) <= 1 /\ (queue[e] = <<>> => Len(queue[e]) = 0)
    BY DEF IInv, WorkOwns, TypeOK
  <2>2. \A p \in Posting(e) : /\ p \in Caller /\ callPc[p] \in InCall /\ callEdu[p] = e
                              /\ e \notin idle /\ queue[e] = <<>> /\ ~Busy(e)
    BY DEF IInv, CallOwns, Posting, InCall
  <2>3. CASE Posting(e) = {}
    <3>1. Cardinality(Posting(e)) = 0
      BY <2>3, FS_EmptySet
    <3> QED
      BY <2>1, <2>3, <3>1 DEF IInv, WorkOwns
  <2>4. CASE Posting(e) # {}
    <3>1. PICK p \in Posting(e) : Posting(e) = {p}
      BY <2>2, <2>4 DEF IInv, CallsApart
    <3>2. Cardinality(Posting(e)) = 1
      BY <3>1, FS_Singleton
    <3>3. e \notin idle /\ ~Busy(e) /\ Len(queue[e]) = 0
      BY <2>1, <2>2, <2>4
    <3> QED
      BY <3>2, <3>3
  <2> QED
    BY <2>3, <2>4
<1> QED
  BY <1>1, TypeCorrect, Invariance, PTL

=============================================================================
