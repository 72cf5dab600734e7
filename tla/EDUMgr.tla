------------------------------- MODULE EDUMgr -------------------------------
(***************************************************************************)
(* The engine dispatchable units (EDUs) of emeralddb: the pool manager     *)
(* pmdEDUMgr, the control blocks pmdEDUCB, the loop every EDU thread runs  *)
(* (pmdEDUEntryPoint), the two callers of startEDU (the main thread, which *)
(* starts the listener, and the listener, which starts an agent for every  *)
(* connection), the agent's session and the shutdown by _destroyAll.       *)
(*                                                                         *)
(* A step is one critical section of the manager's latch, or one unlatched *)
(* access to something another thread uses: _isQuiesced, _isDestroyed, the *)
(* database status, a control block's event queue or its _isForced.        *)
(***************************************************************************)
EXTENDS Naturals, Sequences, FiniteSets

CONSTANTS
  EDU,          \* the EDU ids the model can give out (BOUND on _EDUID)
  Conn,         \* client connections
  NoConn,       \* the NULL argument of the listener
  MaxPool,      \* krcb->getMaxPool(), option poolnum
  ForcePeriod   \* _destroyAll forces on every ForcePeriod-th round, 50 in the code

ASSUME EDUAssumption == EDU \subseteq Nat \ {0} /\ IsFiniteSet(EDU)
ASSUME ConnAssumption == NoConn \notin Conn
ASSUME MaxPoolAssumption == MaxPool \in Nat
ASSUME ForcePeriodAssumption == ForcePeriod \in Nat \ {0}

VARIABLES
  run, idle,             \* the ids in _runQueue and in _idleQueue
  nextId,                \* _EDUID
  quiesced, destroyed,   \* _isQuiesced, _isDestroyed
  type, status, forced,  \* of each control block: _type, _status, _isForced
  queue,                 \* of each control block: the data of its RESUME events
  pc, isForced, data,    \* of each EDU thread: place, local isForced, event._Data
  callPc, callEdu,       \* of each startEDU call: place, the EDU it got
  callArg,               \*   and the argument it passes on
  mainPc, phase, tick,   \* of the main thread; phase and timeCounter of _destroyAll
  dbUp,                  \* EDB_IS_DB_UP
  conn                   \* where each connection's socket is

mgrVars    == <<run, idle, nextId, quiesced, destroyed>>
cbVars     == <<type, status, forced, queue>>
threadVars == <<pc, isForced, data>>
callVars   == <<callPc, callEdu, callArg>>
mainVars   == <<mainPc, phase, tick>>
vars == <<run, idle, nextId, quiesced, destroyed, type, status, forced, queue,
          pc, isForced, data, callPc, callEdu, callArg, mainPc, phase, tick,
          dbUp, conn>>

Arg    == Conn \cup {NoConn}
Type   == {"UNKNOWN", "TCPLISTENER", "AGENT"}
\* "NONE": not allocated yet.  "DESTROY" is set in the critical section that
\* also deletes the control block, so it stands for freed memory.
Status == {"NONE", "CREATING", "RUNNING", "WAITING", "IDLE", "DESTROY"}
Live   == {"CREATING", "RUNNING", "WAITING", "IDLE"}
Caller == {"main", "listener"}

ThreadPc == {"none", "top", "wait", "ready", "resume", "entry",
             "lsnOpen", "lsnLoop", "lsnAccept", "lsnCall", "lsnBreak",
             "agtPoll", "agtRecv", "agtRead", "agtWork", "agtWrite", "agtClose",
             "entryRet", "return", "size", "pool", "destroy", "exited"}
CallPc   == {"off", "quiesce", "latch", "quiesce2", "insert", "thread", "post",
             "rejected"}
MainPc   == {"boot", "starting", "up", "quiescing", "count", "force", "done"}
ConnAt   == {"client", "listener", "handed", "served", "closed"}

IsPoolable(t) == t = "AGENT"
isSystemEDU(t) == t = "TCPLISTENER"
\* regSystemEDU has no caller: the manager's map of system EDUs stays empty.
SystemEDUs == {}
\* Variant: the loop over the idle queue is missing.
EDUsOf_RunOnly(p) == IF p = "user" THEN run \ SystemEDUs ELSE run

\* The EDUs _forceEDUs and _getEDUCount select for EDU_USER and for EDU_ALL.
EDUsOf(p) == IF p = "user" THEN (run \ SystemEDUs) \cup idle ELSE run \cup idle
\* Variant: only the run queue is counted.
Size_RunOnly == Cardinality(run)

\* size()
Size == Cardinality(run) + Cardinality(idle)

CallType(p) == IF p = "main" THEN "TCPLISTENER" ELSE "AGENT"

Init ==
  /\ run = {} /\ idle = {} /\ nextId = 1
  /\ quiesced = FALSE /\ destroyed = FALSE
  /\ type = [e \in EDU |-> "UNKNOWN"]
  /\ status = [e \in EDU |-> "NONE"]
  /\ forced = [e \in EDU |-> FALSE]
  /\ queue = [e \in EDU |-> <<>>]
  /\ pc = [e \in EDU |-> "none"]
  /\ isForced = [e \in EDU |-> FALSE]
  /\ data = [e \in EDU |-> NoConn]
  /\ callPc = [p \in Caller |-> "off"]
  /\ callEdu = [p \in Caller |-> 0]
  /\ callArg = [p \in Caller |-> NoConn]
  /\ mainPc = "boot" /\ phase = "user" /\ tick = 0
  /\ dbUp = TRUE
  /\ conn = [c \in Conn |-> "client"]

-----------------------------------------------------------------------------
(* startEDU and _createNewEDU, run by the main thread or by the listener.  *)

CallGoto(p, place) == callPc' = [callPc EXCEPT ![p] = place]

\* isQuiesced() is read before the latch is taken.
StartCheck(p) ==
  /\ callPc[p] = "quiesce"
  /\ CallGoto(p, IF quiesced THEN "rejected" ELSE "latch")
  /\ UNCHANGED <<mgrVars, cbVars, threadVars, callEdu, callArg, mainVars, dbUp, conn>>

Ready == {e \in idle : status[e] = "IDLE"}

\* Variant: _idleQueue.erase is missing.
ReusePooled_NoErase(p) ==
  /\ callPc[p] = "latch" /\ IsPoolable(CallType(p))
  /\ \E e \in Ready : /\ \A f \in Ready : e <= f
                      /\ run' = run \cup {e}
                      /\ type' = [type EXCEPT ![e] = CallType(p)]
                      /\ status' = [status EXCEPT ![e] = "WAITING"]
                      /\ callEdu' = [callEdu EXCEPT ![p] = e]
  /\ CallGoto(p, "post")
  /\ UNCHANGED <<idle, nextId, quiesced, destroyed, forced, queue, threadVars,
                 callArg, mainVars, dbUp, conn>>

\* Under the latch: take the first idle EDU out of the pool.
ReusePooled(p) ==
  /\ callPc[p] = "latch"
  /\ IsPoolable(CallType(p))
  /\ \E e \in Ready :
       /\ \A f \in Ready : e <= f
       /\ idle' = idle \ {e}
       /\ run' = run \cup {e}
       /\ type' = [type EXCEPT ![e] = CallType(p)]
       /\ status' = [status EXCEPT ![e] = "WAITING"]
       /\ callEdu' = [callEdu EXCEPT ![p] = e]
  /\ CallGoto(p, "post")
  /\ UNCHANGED <<nextId, quiesced, destroyed, forced, queue, threadVars,
                 callArg, mainVars, dbUp, conn>>

\* Under the latch: nothing to reuse, so the latch is dropped for _createNewEDU.
NeedNew(p) ==
  /\ callPc[p] = "latch"
  /\ ~IsPoolable(CallType(p)) \/ Ready = {}
  /\ CallGoto(p, "quiesce2")
  /\ UNCHANGED <<mgrVars, cbVars, threadVars, callEdu, callArg, mainVars, dbUp, conn>>

CreateCheck(p) ==
  /\ callPc[p] = "quiesce2"
  /\ CallGoto(p, IF quiesced THEN "rejected" ELSE "insert")
  /\ UNCHANGED <<mgrVars, cbVars, threadVars, callEdu, callArg, mainVars, dbUp, conn>>

\* new(std::nothrow) returned NULL.
CreateOOM(p) ==
  /\ callPc[p] = "insert"
  /\ CallGoto(p, "rejected")
  /\ UNCHANGED <<mgrVars, cbVars, threadVars, callEdu, callArg, mainVars, dbUp, conn>>

\* Under the latch: the new control block enters the run queue with a fresh id.
CreateInsert(p) ==
  /\ callPc[p] = "insert"
  /\ nextId \in EDU
  /\ nextId \notin run \cup idle
  /\ run' = run \cup {nextId}
  /\ type' = [type EXCEPT ![nextId] = CallType(p)]
  /\ status' = [status EXCEPT ![nextId] = "CREATING"]
  /\ callEdu' = [callEdu EXCEPT ![p] = nextId]
  /\ nextId' = nextId + 1
  /\ CallGoto(p, "thread")
  /\ UNCHANGED <<idle, quiesced, destroyed, forced, queue, threadVars,
                 callArg, mainVars, dbUp, conn>>

ThreadStart(p) ==
  /\ callPc[p] = "thread"
  /\ pc' = [pc EXCEPT ![callEdu[p]] = "top"]
  /\ CallGoto(p, "post")
  /\ UNCHANGED <<mgrVars, cbVars, isForced, data, callEdu, callArg, mainVars, dbUp, conn>>

\* boost::thread threw: the block leaves the run queue (here without the latch)
\* and is deleted.
ThreadFail(p) ==
  /\ callPc[p] = "thread"
  /\ run' = run \ {callEdu[p]}
  /\ status' = [status EXCEPT ![callEdu[p]] = "DESTROY"]
  /\ CallGoto(p, "rejected")
  /\ UNCHANGED <<idle, nextId, quiesced, destroyed, type, forced, queue, threadVars,
                 callEdu, callArg, mainVars, dbUp, conn>>

\* Variant: an agent's RESUME event is not posted.
Post_NoEvent(p) ==
  /\ callPc[p] = "post"
  /\ queue' = IF p = "main" THEN [queue EXCEPT ![callEdu[p]] = Append(@, callArg[p])] ELSE queue
  /\ conn' = [c \in Conn |-> IF c = callArg[p] THEN "handed" ELSE conn[c]]
  /\ CallGoto(p, "off")
  /\ UNCHANGED <<mgrVars, type, status, forced, threadVars, callEdu, callArg, mainVars, dbUp>>

\* postEvent(RESUME, arg), after the latch was dropped.  When the block has been
\* deleted meanwhile, the event is written to freed memory and nobody gets it.
Post(p) ==
  /\ callPc[p] = "post"
  /\ queue' = IF status[callEdu[p]] \in Live
              THEN [queue EXCEPT ![callEdu[p]] = Append(@, callArg[p])]
              ELSE queue
  /\ conn' = [c \in Conn |-> IF c = callArg[p] THEN "handed" ELSE conn[c]]
  /\ CallGoto(p, "off")
  /\ UNCHANGED <<mgrVars, type, status, forced, threadVars, callEdu, callArg,
                 mainVars, dbUp>>

StartEDU(p) ==
  \/ StartCheck(p) \/ ReusePooled(p) \/ NeedNew(p) \/ CreateCheck(p)
  \/ CreateOOM(p) \/ CreateInsert(p) \/ ThreadStart(p) \/ ThreadFail(p) \/ Post(p)

-----------------------------------------------------------------------------
(* The loop of an EDU thread, pmdEDUEntryPoint.                            *)

Goto(e, place) == pc' = [pc EXCEPT ![e] = place]

\* Variant: the test for IDLE is missing.
WaitBegin_NoIdleTest(e) ==
  /\ pc[e] = "top"
  /\ status' = [status EXCEPT ![e] = "WAITING"]
  /\ Goto(e, IF queue[e] = <<>> THEN "wait" ELSE "ready")
  /\ UNCHANGED <<mgrVars, type, forced, queue, isForced, data, callVars, mainVars, dbUp, conn>>

\* waitEvent sets the status without the latch; a pooled EDU stays IDLE.
WaitBegin(e) ==
  /\ pc[e] = "top"
  /\ status' = [status EXCEPT ![e] = IF @ = "IDLE" THEN @ ELSE "WAITING"]
  /\ Goto(e, IF queue[e] = <<>> THEN "wait" ELSE "ready")
  /\ UNCHANGED <<mgrVars, type, forced, queue, isForced, data, callVars, mainVars, dbUp, conn>>

\* timed_wait_and_pop delivered an event.
EventArrives(e) ==
  /\ pc[e] \in {"wait", "ready"}
  /\ queue[e] # <<>>
  /\ data' = [data EXCEPT ![e] = Head(queue[e])]
  /\ queue' = [queue EXCEPT ![e] = Tail(@)]
  /\ status' = [status EXCEPT ![e] = "RUNNING"]
  /\ Goto(e, IF isForced[e] THEN "return" ELSE "resume")
  /\ UNCHANGED <<mgrVars, type, forced, isForced, callVars, mainVars, dbUp, conn>>

\* The second is over.  The condition variable reports a timeout even when an
\* event was pushed at the last moment.
WaitTimeout(e) ==
  /\ pc[e] = "wait"
  /\ isForced' = [isForced EXCEPT ![e] = @ \/ forced[e]]
  /\ Goto(e, IF forced[e] THEN "return" ELSE "top")
  /\ UNCHANGED <<mgrVars, cbVars, data, callVars, mainVars, dbUp, conn>>

\* waitEDU under the shared latch: RUNNING becomes WAITING, in the run queue only.
AfterWaitEDU(e) ==
  [status EXCEPT ![e] = IF e \in run /\ @ = "RUNNING" THEN "WAITING" ELSE @]

Resume(e) ==
  /\ pc[e] = "resume"
  /\ status' = AfterWaitEDU(e)
  /\ Goto(e, "entry")
  /\ UNCHANGED <<mgrVars, type, forced, queue, isForced, data, callVars, mainVars, dbUp, conn>>

\* The entry function of the EDU's type is called with the event's data.
EntryCall(e) ==
  /\ pc[e] = "entry"
  /\ Goto(e, IF type[e] = "AGENT" THEN "agtPoll"
             ELSE IF dbUp THEN "lsnOpen" ELSE "entryRet")
  /\ conn' = [c \in Conn |-> IF c = data[e] /\ type[e] = "AGENT" THEN "served" ELSE conn[c]]
  /\ UNCHANGED <<mgrVars, cbVars, isForced, data, callVars, mainVars, dbUp>>

\* The entry function returned: a system EDU may not end while the database is up.
EntryReturn(e) ==
  /\ pc[e] = "entryRet"
  /\ dbUp' = (dbUp /\ ~isSystemEDU(type[e]))
  /\ status' = AfterWaitEDU(e)
  /\ Goto(e, "return")
  /\ UNCHANGED <<mgrVars, type, forced, queue, isForced, data, callVars, mainVars, conn>>

\* returnEDU, the tests before size(): unknown, not poolable, forced, or manager
\* destroyed.
ReturnCheck(e) ==
  /\ pc[e] = "return"
  /\ Goto(e, IF e \notin run \cup idle THEN "top"
             ELSE IF ~IsPoolable(type[e]) \/ isForced[e] \/ destroyed THEN "destroy"
             ELSE "size")
  /\ UNCHANGED <<mgrVars, cbVars, isForced, data, callVars, mainVars, dbUp, conn>>

\* Variant: the EDU is pooled first, and size() tested after that.
SizeCheck_PoolFirst(e) ==
  /\ pc[e] = "size"
  /\ run' = run \ {e} /\ idle' = idle \cup {e}
  /\ status' = [status EXCEPT ![e] = "IDLE"]
  /\ Goto(e, IF Size > MaxPool THEN "destroy" ELSE "top")
  /\ UNCHANGED <<nextId, quiesced, destroyed, type, forced, queue, isForced, data,
                 callVars, mainVars, dbUp, conn>>

\* size() takes the shared latch for itself and drops it before the EDU is pooled.
SizeCheck(e) ==
  /\ pc[e] = "size"
  /\ Goto(e, IF Size > MaxPool THEN "destroy" ELSE "pool")
  /\ UNCHANGED <<mgrVars, cbVars, isForced, data, callVars, mainVars, dbUp, conn>>

\* _deactivateEDU under the latch.
DeactivateEDU(e) ==
  /\ pc[e] = "pool"
  /\ IF e \in run /\ status[e] \in {"WAITING", "CREATING"}
     THEN /\ run' = run \ {e}
          /\ idle' = idle \cup {e}
          /\ status' = [status EXCEPT ![e] = "IDLE"]
     ELSE UNCHANGED <<run, idle, status>>
  /\ Goto(e, IF e \in run \cup idle THEN "top" ELSE "exited")
  /\ UNCHANGED <<nextId, quiesced, destroyed, type, forced, queue, isForced, data,
                 callVars, mainVars, dbUp, conn>>

\* Variant: returnEDU reports *destroyed only for EDB_SYS.
DestroyEDU_Unreported(e) ==
  /\ pc[e] = "destroy" /\ e \in run \cup idle
  /\ run' = run \ {e} /\ idle' = idle \ {e}
  /\ status' = [status EXCEPT ![e] = "DESTROY"]
  /\ Goto(e, "top")
  /\ UNCHANGED <<nextId, quiesced, destroyed, type, forced, queue, isForced, data,
                 callVars, mainVars, dbUp, conn>>

\* _destroyEDU under the latch.  The thread ends when the block is gone.
DestroyEDU(e) ==
  /\ pc[e] = "destroy"
  /\ LET ok == \/ e \in run /\ status[e] \in {"WAITING", "CREATING"}
               \/ e \notin run /\ e \in idle /\ status[e] = "IDLE"
     IN /\ IF ok
           THEN /\ run' = run \ {e}
                /\ idle' = IF e \in run THEN idle ELSE idle \ {e}
                /\ status' = [status EXCEPT ![e] = "DESTROY"]
           ELSE UNCHANGED <<run, idle, status>>
        /\ Goto(e, IF ok \/ e \notin run \cup idle THEN "exited" ELSE "top")
  /\ UNCHANGED <<nextId, quiesced, destroyed, type, forced, queue, isForced, data,
                 callVars, mainVars, dbUp, conn>>

ThreadLoop(e) ==
  \/ WaitBegin(e) \/ EventArrives(e) \/ WaitTimeout(e) \/ Resume(e) \/ EntryCall(e)
  \/ EntryReturn(e) \/ ReturnCheck(e) \/ SizeCheck(e) \/ DeactivateEDU(e) \/ DestroyEDU(e)

-----------------------------------------------------------------------------
(* pmdTcpListenerEntryPoint, run by the EDU of type TCPLISTENER.           *)

\* activateEDU under the latch: the EDU is RUNNING and in the run queue.
Activate(e) ==
  /\ idle' = idle \ {e}
  /\ run' = run \cup {e}
  /\ status' = [status EXCEPT ![e] = "RUNNING"]

\* Socket created, bound and listening.
LsnOpen(e) ==
  /\ pc[e] = "lsnOpen"
  /\ Activate(e)
  /\ Goto(e, "lsnLoop")
  /\ UNCHANGED <<nextId, quiesced, destroyed, type, forced, queue, isForced, data,
                 callVars, mainVars, dbUp, conn>>

\* The socket cannot be opened, or the retries are used up.
LsnGiveUp(e) ==
  /\ pc[e] = "lsnOpen"
  /\ Goto(e, "entryRet")
  /\ UNCHANGED <<mgrVars, cbVars, isForced, data, callVars, mainVars, dbUp, conn>>

\* The test of the accept loop.
LsnLoop(e) ==
  /\ pc[e] = "lsnLoop"
  /\ Goto(e, IF dbUp THEN "lsnAccept" ELSE "lsnBreak")
  /\ UNCHANGED <<mgrVars, cbVars, isForced, data, callVars, mainVars, dbUp, conn>>

\* Nobody came within the accept timeout.
LsnTimeout(e) ==
  /\ pc[e] = "lsnAccept"
  /\ Goto(e, "lsnLoop")
  /\ UNCHANGED <<mgrVars, cbVars, isForced, data, callVars, mainVars, dbUp, conn>>

\* A client connected: startEDU(EDU_TYPE_AGENT, socket) is called.
LsnAccept(e) ==
  /\ pc[e] = "lsnAccept"
  /\ \E c \in Conn :
       /\ conn[c] = "client"
       /\ conn' = [conn EXCEPT ![c] = "listener"]
       /\ callArg' = [callArg EXCEPT !["listener"] = c]
  /\ CallGoto("listener", "quiesce")
  /\ Goto(e, "lsnCall")
  /\ UNCHANGED <<mgrVars, cbVars, isForced, data, callEdu, mainVars, dbUp>>

\* accept failed: done when the database is down, else the socket is restarted.
LsnError(e) ==
  /\ pc[e] = "lsnAccept"
  /\ Goto(e, IF dbUp THEN "lsnBreak" ELSE "entryRet")
  /\ UNCHANGED <<mgrVars, cbVars, isForced, data, callVars, mainVars, dbUp, conn>>

\* Variant: the socket is closed whatever startEDU returned.
LsnStarted_Closes(e) ==
  /\ pc[e] = "lsnCall" /\ callPc["listener"] = "off"
  /\ conn' = [c \in Conn |-> IF c = callArg["listener"] THEN "closed" ELSE conn[c]]
  /\ Goto(e, "lsnLoop")
  /\ UNCHANGED <<mgrVars, cbVars, isForced, data, callVars, mainVars, dbUp>>

\* startEDU returned EDB_OK.
LsnStarted(e) ==
  /\ pc[e] = "lsnCall"
  /\ callPc["listener"] = "off"
  /\ Goto(e, "lsnLoop")
  /\ UNCHANGED <<mgrVars, cbVars, isForced, data, callVars, mainVars, dbUp, conn>>

\* startEDU failed: the connection is closed.
LsnReject(e) ==
  /\ pc[e] = "lsnCall"
  /\ callPc["listener"] = "rejected"
  /\ conn' = [c \in Conn |-> IF c = callArg["listener"] THEN "closed" ELSE conn[c]]
  /\ CallGoto("listener", "off")
  /\ Goto(e, "lsnLoop")
  /\ UNCHANGED <<mgrVars, cbVars, isForced, data, callEdu, callArg, mainVars, dbUp>>

\* waitEDU after the accept loop, then the test of the retry loop.
LsnBreak(e) ==
  /\ pc[e] = "lsnBreak"
  /\ status' = AfterWaitEDU(e)
  /\ Goto(e, IF dbUp THEN "lsnOpen" ELSE "entryRet")
  /\ UNCHANGED <<mgrVars, type, forced, queue, isForced, data, callVars, mainVars, dbUp, conn>>

Listener(e) ==
  \/ LsnOpen(e) \/ LsnGiveUp(e) \/ LsnLoop(e) \/ LsnTimeout(e) \/ LsnAccept(e)
  \/ LsnError(e) \/ LsnStarted(e) \/ LsnReject(e) \/ LsnBreak(e)
-----------------------------------------------------------------------------
(* pmdAgentEntryPoint: one client session on the socket data[e].           *)

\* pmdRecv looks at _isForced before every attempt to receive.
AgtPoll(e) ==
  /\ pc[e] = "agtPoll"
  /\ Goto(e, IF forced[e] THEN "agtClose" ELSE "agtRecv")
  /\ UNCHANGED <<mgrVars, cbVars, isForced, data, callVars, mainVars, dbUp, conn>>

\* select reported nothing within the timeout, and pmdRecv tries again.
AgtTimeout(e) ==
  /\ pc[e] = "agtRecv"
  /\ Goto(e, "agtPoll")
  /\ UNCHANGED <<mgrVars, cbVars, isForced, data, callVars, mainVars, dbUp, conn>>

\* select reported data: from now on ::recv waits, without a timeout, until the piece
\* asked for is complete.
AgtData(e) ==
  /\ pc[e] = "agtRecv"
  /\ Goto(e, "agtRead")
  /\ UNCHANGED <<mgrVars, cbVars, isForced, data, callVars, mainVars, dbUp, conn>>

\* The length is complete; pmdRecv is called again for the body.
AgtLength(e) ==
  /\ pc[e] = "agtRead"
  /\ Goto(e, "agtPoll")
  /\ UNCHANGED <<mgrVars, cbVars, isForced, data, callVars, mainVars, dbUp, conn>>

\* The client closed, the network failed, the length was bad, or malloc failed.
AgtFail(e) ==
  /\ pc[e] \in {"agtPoll", "agtRecv", "agtRead"}
  /\ Goto(e, "agtClose")
  /\ UNCHANGED <<mgrVars, cbVars, isForced, data, callVars, mainVars, dbUp, conn>>

\* A whole request is in the buffer: activateEDU.
AgtRequest(e) ==
  /\ pc[e] = "agtRead"
  /\ Activate(e)
  /\ Goto(e, "agtWork")
  /\ UNCHANGED <<nextId, quiesced, destroyed, type, forced, queue, isForced, data,
                 callVars, mainVars, dbUp, conn>>

\* The request is done, and select reported room for the reply (pmdSend sends only
\* while not forced): from now on ::send waits, without a timeout, for the client.
AgtSend(e) ==
  /\ pc[e] = "agtWork"
  /\ ~forced[e]
  /\ Goto(e, "agtWrite")
  /\ UNCHANGED <<mgrVars, cbVars, isForced, data, callVars, mainVars, dbUp, conn>>

\* The reply was sent.
AgtReply(e) ==
  /\ pc[e] = "agtWrite"
  /\ status' = AfterWaitEDU(e)
  /\ Goto(e, "agtPoll")
  /\ UNCHANGED <<mgrVars, type, forced, queue, isForced, data, callVars, mainVars, dbUp, conn>>

\* The request was a disconnect message: no reply.
AgtDisconnect(e) ==
  /\ pc[e] = "agtWork"
  /\ status' = AfterWaitEDU(e)
  /\ Goto(e, "agtClose")
  /\ UNCHANGED <<mgrVars, type, forced, queue, isForced, data, callVars, mainVars, dbUp, conn>>

\* Variant: a reply that cannot be sent ends the session past the close.
AgtSendFail_NoClose(e) ==
  /\ pc[e] \in {"agtWork", "agtWrite"}
  /\ Goto(e, "entryRet")
  /\ UNCHANGED <<mgrVars, cbVars, isForced, data, callVars, mainVars, dbUp, conn>>

\* The reply could not be sent, or the agent was forced: the EDU is still RUNNING.
AgtSendFail(e) ==
  /\ pc[e] \in {"agtWork", "agtWrite"}
  /\ Goto(e, "agtClose")
  /\ UNCHANGED <<mgrVars, cbVars, isForced, data, callVars, mainVars, dbUp, conn>>

AgtClose(e) ==
  /\ pc[e] = "agtClose"
  /\ conn' = [c \in Conn |-> IF c = data[e] THEN "closed" ELSE conn[c]]
  /\ Goto(e, "entryRet")
  /\ UNCHANGED <<mgrVars, cbVars, isForced, data, callVars, mainVars, dbUp>>

Agent(e) ==
  \/ AgtPoll(e) \/ AgtTimeout(e) \/ AgtData(e) \/ AgtLength(e) \/ AgtFail(e) \/ AgtRequest(e)
  \/ AgtSend(e) \/ AgtReply(e) \/ AgtDisconnect(e) \/ AgtSendFail(e) \/ AgtClose(e)

-----------------------------------------------------------------------------
(* pmdMasterThreadMain, the signal handler, and _destroyAll, which the     *)
(* destructor of the manager runs in the main thread after main returned.  *)

MainGoto(place) == mainPc' = place

MainStart ==
  /\ mainPc = "boot"
  /\ MainGoto("starting")
  /\ CallGoto("main", "quiesce")
  /\ UNCHANGED <<mgrVars, cbVars, threadVars, callEdu, callArg, phase, tick, dbUp, conn>>

\* startEDU returned; whatever it returned is not looked at.
MainUp ==
  /\ mainPc = "starting"
  /\ callPc["main"] \in {"off", "rejected"}
  /\ MainGoto("up")
  /\ CallGoto("main", "off")
  /\ UNCHANGED <<mgrVars, cbVars, threadVars, callEdu, callArg, phase, tick, dbUp, conn>>

\* main returns (help or bad options, or the database is down): _destroyAll starts.
MainLeave ==
  /\ mainPc = "boot" \/ (mainPc = "up" /\ ~dbUp)
  /\ destroyed' = TRUE
  /\ MainGoto("quiescing")
  /\ UNCHANGED <<run, idle, nextId, quiesced, cbVars, threadVars, callVars, phase, tick,
                 dbUp, conn>>

MainQuiesce ==
  /\ mainPc = "quiescing"
  /\ quiesced' = TRUE
  /\ MainGoto("count")
  /\ UNCHANGED <<run, idle, nextId, destroyed, cbVars, threadVars, callVars, phase, tick,
                 dbUp, conn>>

\* _getEDUCount: go on with the other EDUs, or leave, when none is left.
MainCount ==
  /\ mainPc = "count"
  /\ IF EDUsOf(phase) # {} THEN MainGoto("force") /\ UNCHANGED <<phase, tick>>
     ELSE /\ MainGoto(IF phase = "user" THEN "count" ELSE "done")
          /\ phase' = "all"
          /\ tick' = 0
  /\ UNCHANGED <<mgrVars, cbVars, threadVars, callVars, dbUp, conn>>

\* Variants: the round counter is not reduced, and EDUs are forced in the first
\* round only.
MainForce_NoModulo ==
  /\ mainPc = "force"
  /\ forced' = [e \in EDU |-> forced[e] \/ (tick = 0 /\ e \in EDUsOf(phase))]
  /\ tick' = tick + 1
  /\ MainGoto("count")
  /\ UNCHANGED <<mgrVars, type, status, queue, threadVars, callVars, phase, dbUp, conn>>

MainForce_Once ==
  /\ mainPc = "force"
  /\ forced' = [e \in EDU |-> forced[e] \/ (tick = 0 /\ e \in EDUsOf(phase))]
  /\ tick' = IF tick < ForcePeriod - 1 THEN tick + 1 ELSE tick
  /\ MainGoto("count")
  /\ UNCHANGED <<mgrVars, type, status, queue, threadVars, callVars, phase, dbUp, conn>>

\* One round of the loop: _forceEDUs on every ForcePeriod-th, then a sleep.
MainForce ==
  /\ mainPc = "force"
  /\ forced' = [e \in EDU |-> forced[e] \/ (tick = 0 /\ e \in EDUsOf(phase))]
  /\ tick' = (tick + 1) % ForcePeriod
  /\ MainGoto("count")
  /\ UNCHANGED <<mgrVars, type, status, queue, threadVars, callVars, phase, dbUp, conn>>

Main == MainStart \/ MainUp \/ MainLeave \/ MainQuiesce \/ MainCount \/ MainForce

\* A terminating signal, at any time after the options were read.
Signal ==
  /\ mainPc # "boot"
  /\ dbUp
  /\ dbUp' = FALSE
  /\ UNCHANGED <<mgrVars, cbVars, threadVars, callVars, mainVars, conn>>

\* The process is over.
Exited == mainPc = "done" /\ UNCHANGED vars

Thread(e) == ThreadLoop(e) \/ Listener(e) \/ Agent(e)

Next ==
  \/ \E e \in EDU : Thread(e)
  \/ \E p \in Caller : StartEDU(p)
  \/ Main
  \/ Signal
  \/ Exited

Spec == Init /\ [][Next]_vars

\* Every thread of the process keeps being scheduled, and gets the latch in the
\* end.  Nothing is assumed of the clients, nor of what a request does: an agent
\* goes on by itself only where it polls, waits in select, or closes.  No signal has
\* to come.
Fairness ==
  /\ \A e \in EDU : WF_vars(\/ ThreadLoop(e) \/ Listener(e)
                           \/ AgtPoll(e) \/ AgtTimeout(e) \/ AgtClose(e))
  /\ \A p \in Caller : WF_vars(StartEDU(p))
  /\ WF_vars(Main)

FairSpec == Spec /\ Fairness

-----------------------------------------------------------------------------
(* Correctness.                                                            *)

\* Every variable has its type.
TypeOK ==
  /\ run \subseteq EDU /\ idle \subseteq EDU /\ nextId \in Nat
  /\ quiesced \in BOOLEAN /\ destroyed \in BOOLEAN /\ dbUp \in BOOLEAN
  /\ type \in [EDU -> Type]
  /\ status \in [EDU -> Status]
  /\ forced \in [EDU -> BOOLEAN]
  /\ queue \in [EDU -> Seq(Arg)]
  /\ pc \in [EDU -> ThreadPc]
  /\ isForced \in [EDU -> BOOLEAN]
  /\ data \in [EDU -> Arg]
  /\ callPc \in [Caller -> CallPc]
  /\ callEdu \in [Caller -> EDU \cup {0}]
  /\ callArg \in [Caller -> Arg]
  /\ mainPc \in MainPc /\ phase \in {"user", "all"} /\ tick \in 0..(ForcePeriod - 1)
  /\ conn \in [Conn -> ConnAt]

\* An EDU is pooled exactly while it is IDLE, in the run queue exactly while it
\* is CREATING, RUNNING or WAITING, and deleted once it is in neither: the
\* unlatched writes of waitEvent never make a queue and a status disagree.
QueuesMatchStatus ==
  /\ idle = {e \in EDU : status[e] = "IDLE"}
  /\ run = {e \in EDU : status[e] \in {"CREATING", "RUNNING", "WAITING"}}

\* The pool never holds more than MaxPool idle threads, although returnEDU drops
\* the latch between size() and _deactivateEDU.
PoolBound == Cardinality(idle) <= MaxPool

\* A thread that is still in pmdEDUEntryPoint has its control block: nobody
\* deletes the block of a running thread, and the thread leaves its loop at once
\* when returnEDU says that the block is gone.
ThreadHasBlock == \A e \in EDU : pc[e] \notin {"none", "exited"} => status[e] \in Live

\* The thread is at work on the event it got, or returning its EDU after it.
Busy(e) ==
  \/ pc[e] \in {"resume", "entry", "entryRet", "lsnOpen", "lsnLoop", "lsnAccept",
                "lsnCall", "lsnBreak", "agtPoll", "agtRecv", "agtRead", "agtWork", "agtWrite",
                "agtClose"}
  \/ pc[e] \in {"return", "size", "pool", "destroy"} /\ ~isForced[e]

\* The startEDU calls that have chosen EDU e and not yet posted to it.
Posting(e) == {p \in Caller : callPc[p] \in {"thread", "post"} /\ callEdu[p] = e}

\* An EDU has at most one piece of work at a time, being posted, queued or done,
\* and a pooled EDU has none: no connection ever waits behind another one.
OneWork ==
  \A e \in EDU :
    /\ Cardinality(Posting(e)) + Len(queue[e]) + (IF Busy(e) THEN 1 ELSE 0) <= 1
    /\ e \in idle => Posting(e) = {} /\ queue[e] = <<>> /\ ~Busy(e)

\* An EDU will serve connection c: it is in the queue of a live control block,
\* or the thread has just taken it out.
InGoodHands(c) ==
  \E e \in EDU :
    /\ status[e] \in Live
    /\ \/ \E i \in 1..Len(queue[e]) : queue[e][i] = c
       \/ pc[e] \in {"resume", "entry"} /\ data[e] = c

\* Until _destroyAll forces its first EDU, a connection for which startEDU returned
\* EDB_OK is always on its way to an agent: reuse from the pool, creation, and the
\* return of an EDU to the pool never lose the event between them.
HandedIsKept ==
  (\A e \in EDU : ~forced[e]) => \A c \in Conn : conn[c] = "handed" => InGoodHands(c)

\* When _destroyAll is done nothing is left that could touch the manager: both
\* queues are empty, every EDU thread has ended, no startEDU call is open, and
\* every session an agent took up has closed its socket.
DestroyAllIsComplete ==
  mainPc = "done" => /\ run = {} /\ idle = {}
                     /\ \A e \in EDU : pc[e] \in {"none", "exited"}
                     /\ \A p \in Caller : callPc[p] = "off"
                     /\ \A c \in Conn : conn[c] # "served"

Serving == {"agtPoll", "agtRecv", "agtRead", "agtWork", "agtWrite", "agtClose"}

\* No descriptor leaks: a socket the listener has accepted is the argument of its open
\* startEDU call, and a socket an agent has taken up stays in the session of an agent,
\* on every way out of the session, until it is closed.
OpenIsOwned ==
  \A c \in Conn :
    /\ conn[c] = "listener" => callPc["listener"] # "off" /\ callArg["listener"] = c
    /\ conn[c] = "served" => \E e \in EDU : pc[e] \in Serving /\ data[e] = c

\* The moves of an EDU's status.
StatusMove == {<<"NONE", "CREATING">>, <<"CREATING", "WAITING">>, <<"CREATING", "DESTROY">>,
               <<"WAITING", "RUNNING">>, <<"RUNNING", "WAITING">>, <<"WAITING", "IDLE">>,
               <<"IDLE", "WAITING">>, <<"WAITING", "DESTROY">>, <<"IDLE", "DESTROY">>}

\* The ways of a socket: it is accepted, handed to an EDU or closed by the listener,
\* taken up by an agent, and closed by it.
ConnMove == {<<"client", "listener">>, <<"listener", "handed">>, <<"listener", "closed">>,
             <<"handed", "served">>, <<"served", "closed">>}

\* Control blocks and sockets go through their lives in order.  The status is written by
\* waitEvent, startEDU, waitEDU and activateEDU with and without the latch, and yet an
\* EDU that works is never pooled or deleted, a pooled one never gets to work without
\* startEDU, and a deleted one never comes back.  A socket has one owner after the other:
\* it is never handed on twice, taken up by a second agent or closed twice (the second
\* close could hit a descriptor that the listener has accepted meanwhile).
LifeCycles ==
  [][/\ \A e \in EDU : status'[e] # status[e] => <<status[e], status'[e]>> \in StatusMove
     /\ \A c \in Conn : conn'[c] # conn[c] => <<conn[c], conn'[c]>> \in ConnMove]_vars

\* Shutdown ends: once the database is down, _destroyAll forces EDUs until none is
\* left, those started after its first round included, and the process exits; unless
\* an agent never comes back from one ::recv, one request or one ::send, where it does
\* not notice that it is forced: a client that stops in the middle of a message holds
\* up the whole shutdown.
ShutdownCompletes ==
  \/ (~dbUp) ~> (mainPc = "done")
  \/ \E e \in EDU, place \in {"agtRead", "agtWork", "agtWrite"} : <>[](pc[e] = place)

\* A connection that was accepted is served, or closed, unless the database goes
\* down first: no RESUME event waits forever in the queue of a sleeping thread.
AcceptedIsAnswered ==
  \A c \in Conn : conn[c] \in {"listener", "handed"} ~>
                    (conn[c] \in {"served", "closed"} \/ ~dbUp)

-----------------------------------------------------------------------------
(* What comments of the source say and the code does not do.               *)

\* pmdEDUMgr.hpp, lines 219-229: when startEDU returns OK an EDU runs the
\* function, so the connection it passed is never lost.
StartedIsKept == \A c \in Conn : conn[c] = "handed" => InGoodHands(c)

====
