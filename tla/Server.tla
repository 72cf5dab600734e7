------------------------------- MODULE Server -------------------------------
(***************************************************************************)
(* The server process from main to exit: signal handlers, options, the     *)
(* control block, the run time, the main loop and the destruction of the   *)
(* globals (src/pmd/pmdMain.cpp, pmdOptions.cpp, pmd.cpp, src/rtn), with   *)
(* the diagnostic log all threads write to (src/pd, ossPrimitiveFileOp).   *)
(*                                                                         *)
(* A context is a thread, or a signal handler that runs on top of it: the  *)
(* thread goes on when the handler returns.  The EDUs are threads that     *)
(* serve requests, write to the log and end when they are forced; their    *)
(* pool is in EDUMgr.                                                      *)
(***************************************************************************)
EXTENDS Integers, Sequences, SequencesExt

CONSTANTS
  Worker,      \* the EDUs: the listener and agents
  Opts,        \* the options looked at, of confpath, logpath, dbpath, svcname, maxpool
  MaxSignals,  \* BOUND on the signals sent
  MaxLines     \* BOUND on the lines at which the EDUs stop logging

ASSUME OptsAssumption == "confpath" \in Opts
ASSUME BoundAssumption == MaxSignals \in Nat /\ MaxLines \in Nat

Thread == Worker \cup {"main"}
Ctx == Thread \X {"run", "signal"}
NoCtx == <<"none", "none">>

\* A log line goes out in one or two ::write calls.
Parts == 2

VARIABLES
  mPc, rc,                   \* the main thread: place, and what it returns
  cmdLine, confFile, opts,   \* options given on the command line, in the file, and
                             \* where the values in pmdOptions come from
  krcb,                      \* the options as EDB_KRCB has them
  dbStatus, dmsFile,         \* _dbStatus; _rtnMgr._dmsFile
  wPc, forced,               \* per EDU: its place, and _isForced
  handlers,                  \* the signal handler is installed
  signals, sPc,              \* signals sent so far; per thread, the handler on it
  lPc, line, part,           \* per context: place in pdLog, line, parts written
  owner,                     \* the context that holds _pdLogMutex
  logFile, isOpen, pos,      \* the log file, _pdLogFile.isValid(), its offset
  lines, cut                 \* history: lines begun, lines whose write failed

logVars == <<lPc, line, part, owner, logFile, isOpen, pos, lines, cut>>
optVars == <<cmdLine, confFile, opts, krcb>>
vars == <<mPc, rc, cmdLine, confFile, opts, krcb, dbStatus, dmsFile, wPc, forced, handlers,
          signals, sPc, lPc, line, part, owner, logFile, isOpen, pos, lines, cut>>

Ended == {"exited", "killed", "crashed"}   \* The process has gone, as mPc says.

Unset == [o \in Opts |-> "unset"]

\* The log file holds a line of an earlier run.
Init ==
  /\ mPc = "setup" /\ rc = "EDB_OK"
  /\ cmdLine = {} /\ confFile = {} /\ opts = Unset /\ krcb = Unset
  /\ dbStatus = "NORMAL" /\ dmsFile = "none"
  /\ wPc = [w \in Worker |-> "none"] /\ forced = FALSE
  /\ handlers = FALSE /\ signals = 0 /\ sPc = [t \in Thread |-> "none"]
  /\ lPc = [x \in Ctx |-> "idle"] /\ line = [x \in Ctx |-> 0] /\ part = [x \in Ctx |-> 0]
  /\ owner = NoCtx
  /\ logFile = << <<0, 1>>, <<0, 2>> >> /\ isOpen = FALSE /\ pos = 0
  /\ lines = 0 /\ cut = {}

\* A thread runs while no handler is on top of it, a handler while it has not returned.
Running(x) ==
  /\ mPc \notin Ended
  /\ IF x[2] = "run" THEN sPc[x[1]] = "none" ELSE sPc[x[1]] # "none"

-----------------------------------------------------------------------------
(* The diagnostic log.                                                     *)

\* pdLog of a level that is on: to the screen, and, once EDB_KRCB::init has set
\* _pdDiagLogPath, to the file.
PdLog(x) ==
  IF krcb = Unset THEN UNCHANGED logVars
  ELSE /\ lines' = lines + 1
       /\ lPc' = [lPc EXCEPT ![x] = "get"]
       /\ line' = [line EXCEPT ![x] = lines + 1]
       /\ part' = [part EXCEPT ![x] = 0]
       /\ UNCHANGED <<owner, logFile, isOpen, pos, cut>>

restVars == <<mPc, rc, optVars, dbStatus, dmsFile, wPc, forced, handlers, signals, sPc>>

\* Variant: the file is written without the mutex.
LogGet_NoMutex(x) ==
  /\ Running(x) /\ lPc[x] = "get"
  /\ lPc' = [lPc EXCEPT ![x] = IF isOpen THEN "write" ELSE "open"]
  /\ UNCHANGED <<restVars, line, part, owner, logFile, isOpen, pos, lines, cut>>

\* _pdLogMutex.get(): a mutex that is not recursive.
LogGet(x) ==
  /\ Running(x) /\ lPc[x] = "get"
  /\ owner = NoCtx
  /\ owner' = x
  /\ lPc' = [lPc EXCEPT ![x] = IF isOpen THEN "write" ELSE "open"]
  /\ UNCHANGED <<restVars, line, part, logFile, isOpen, pos, lines, cut>>

\* Variant: the file is opened and written from its beginning.
LogOpen_NoSeek(x) ==
  /\ Running(x) /\ lPc[x] = "open"
  /\ isOpen' = TRUE /\ pos' = 0
  /\ lPc' = [lPc EXCEPT ![x] = "write"]
  /\ UNCHANGED <<restVars, line, part, owner, logFile, lines, cut>>

\* Variant: a log that cannot be opened is tried again until it can.
LogOpen_Retries(x) ==
  /\ Running(x) /\ lPc[x] = "open"
  /\ \/ /\ isOpen' = TRUE /\ pos' = Len(logFile)
        /\ lPc' = [lPc EXCEPT ![x] = "write"]
        /\ UNCHANGED owner
     \/ /\ lPc' = [lPc EXCEPT ![x] = "get"]
        /\ owner' = NoCtx
        /\ UNCHANGED <<isOpen, pos>>
  /\ UNCHANGED <<restVars, line, part, logFile, lines, cut>>

\* _pdLogFileReopen: open and seekToEnd; a failure is printed.
LogOpen(x) ==
  /\ Running(x) /\ lPc[x] = "open"
  /\ \/ /\ isOpen' = TRUE /\ pos' = Len(logFile)
        /\ lPc' = [lPc EXCEPT ![x] = "write"]
        /\ UNCHANGED cut
     \/ /\ lPc' = [lPc EXCEPT ![x] = "release"]
        /\ cut' = cut \cup {line[x]}
        /\ UNCHANGED <<isOpen, pos>>
  /\ UNCHANGED <<restVars, line, part, owner, logFile, lines>>

\* ossPrimitiveFileOp::Write: one ::write of the loop, at the file's offset, of some
\* of the parts that are left; EINTR repeats it.
LogWrite(x) ==
  /\ Running(x) /\ lPc[x] = "write" /\ part[x] < Parts
  /\ \E upTo \in (part[x] + 1)..Parts :
       LET new == [i \in 1..(upTo - part[x]) |-> <<line[x], part[x] + i>>]
           end == pos + Len(new)
       IN /\ logFile' = SubSeq(logFile, 1, pos) \o new \o SubSeq(logFile, end + 1, Len(logFile))
          /\ pos' = end
          /\ part' = [part EXCEPT ![x] = upTo]
  /\ UNCHANGED <<restVars, lPc, line, owner, isOpen, lines, cut>>

\* ::write failed: the rest of the line is given up.
LogWriteFail(x) ==
  /\ Running(x) /\ lPc[x] = "write" /\ part[x] < Parts
  /\ cut' = cut \cup {line[x]}
  /\ lPc' = [lPc EXCEPT ![x] = "release"]
  /\ UNCHANGED <<restVars, line, part, owner, logFile, isOpen, pos, lines>>

\* _pdLogMutex.release(), on both paths.
LogRelease(x) ==
  /\ Running(x)
  /\ lPc[x] = "release" \/ (lPc[x] = "write" /\ part[x] = Parts)
  /\ owner' = NoCtx
  /\ lPc' = [lPc EXCEPT ![x] = "idle"]
  /\ UNCHANGED <<restVars, line, part, logFile, isOpen, pos, lines, cut>>

LogStep(x) ==
  LogGet(x) \/ LogOpen(x) \/ LogWrite(x) \/ LogWriteFail(x) \/ LogRelease(x)

-----------------------------------------------------------------------------
(* pmdMasterThreadMain.                                                    *)

MainAt(place) ==
  /\ mPc = place
  /\ Running(<<"main", "run">>) /\ lPc[<<"main", "run">>] = "idle"

Setup ==
  /\ MainAt("setup")
  /\ handlers' = TRUE
  /\ mPc' = "options"
  /\ UNCHANGED <<rc, optVars, dbStatus, dmsFile, wPc, forced, signals, sPc, logVars>>

\* Variant: what is set already is not overwritten.
importVM_KeepsSet(old, given, from) ==
  [o \in Opts |-> IF old[o] # "unset" THEN old[o] ELSE IF o \in given THEN from ELSE "default"]

\* importVM with isDefault: an option that is not given gets its default, whatever
\* value it had.
importVM(old, given, from) ==
  [o \in Opts |-> IF o \in given THEN from ELSE "default"]

\* pmdOptions::init: read the command line, then, if that names one, the file; import
\* the file's options, then those of the command line.
OptionsInit ==
  /\ MainAt("options")
  /\ \E cmd \in SUBSET Opts, file \in SUBSET Opts :
       LET conf == IF "confpath" \in cmd THEN file ELSE {}
       IN /\ file # {} => "confpath" \in cmd
          /\ cmdLine' = cmd /\ confFile' = conf
          /\ opts' = importVM(importVM(Unset, conf, "file"), cmd, "cmd")
  /\ mPc' = "status"
  /\ UNCHANGED <<rc, krcb, dbStatus, dmsFile, wPc, forced, handlers, signals, sPc, logVars>>

\* --help, an argument or a file that cannot be read: main returns.
OptionsFail ==
  /\ MainAt("options")
  /\ \E e \in {"EDB_PMD_HELP_ONLY", "EDB_INVALIDARG", "EDB_IO"} : rc' = e
  /\ mPc' = "return"
  /\ UNCHANGED <<optVars, dbStatus, dmsFile, wPc, forced, handlers, signals, sPc, logVars>>

\* EDB_KRCB::init sets the status, and then takes over the options.
KrcbStatus ==
  /\ MainAt("status")
  /\ dbStatus' = "NORMAL"
  /\ mPc' = "krcb"
  /\ UNCHANGED <<rc, optVars, dmsFile, wPc, forced, handlers, signals, sPc, logVars>>

KrcbOptions ==
  /\ MainAt("krcb")
  /\ krcb' = opts
  /\ mPc' = "rtn"
  /\ UNCHANGED <<rc, cmdLine, confFile, opts, dbStatus, dmsFile, wPc, forced, handlers, signals,
                 sPc, logVars>>

\* Variant: the result of pmdResolveArguments is not looked at.
RtnInitialize_Unchecked ==
  /\ MainAt("rtn")
  /\ \/ dmsFile' = "ready"
     \/ dmsFile' = "broken"
  /\ mPc' = "start"
  /\ UNCHANGED <<rc, optVars, dbStatus, wPc, forced, handlers, signals, sPc, logVars>>

\* rtnInitialize, the end of pmdResolveArguments, whose local pmdOptions goes.  A
\* failure is logged on the way out (three messages, here one line).
RtnInitialize ==
  /\ MainAt("rtn")
  /\ \/ /\ dmsFile' = "ready" /\ mPc' = "start"
        /\ UNCHANGED <<rc, logVars>>
     \/ /\ \E e \in {"EDB_OOM", "EDB_IO"} : rc' = e
        /\ dmsFile' = IF rc' = "EDB_OOM" THEN "none" ELSE "broken"
        /\ mPc' = "return"
        /\ PdLog(<<"main", "run">>)
  /\ cmdLine' = {} /\ confFile' = {} /\ opts' = Unset
  /\ UNCHANGED <<krcb, dbStatus, wPc, forced, handlers, signals, sPc>>

\* The listener is started; whether that worked is not looked at.
StartListener ==
  /\ MainAt("start")
  /\ mPc' = "loop"
  /\ UNCHANGED <<rc, optVars, dbStatus, dmsFile, wPc, forced, handlers, signals, sPc, logVars>>

IsDbUp == dbStatus \notin {"SHUTDOWN", "PANIC"}

\* Variant: the loop asks for PANIC only.
MainLeave_Panic ==
  /\ MainAt("loop") /\ dbStatus = "PANIC"
  /\ mPc' = "return"
  /\ UNCHANGED <<rc, optVars, dbStatus, dmsFile, wPc, forced, handlers, signals, sPc, logVars>>

\* while ( EDB_IS_DB_UP ) sleep(1)
MainSleep == MainAt("loop") /\ IsDbUp /\ UNCHANGED vars
MainLeave ==
  /\ MainAt("loop") /\ ~IsDbUp
  /\ mPc' = "return"
  /\ UNCHANGED <<rc, optVars, dbStatus, dmsFile, wPc, forced, handlers, signals, sPc, logVars>>

\* After main, pmd_krcb is destroyed: first _rtnMgr and its dmsFile, then _eduMgr,
\* which forces the EDUs and waits for them.
DestroyRtn ==
  /\ MainAt("return")
  /\ dmsFile' = IF dmsFile = "none" THEN "none" ELSE "deleted"
  /\ mPc' = "force"
  /\ UNCHANGED <<rc, optVars, dbStatus, wPc, forced, handlers, signals, sPc, logVars>>

ForceEDUs ==
  /\ MainAt("force")
  /\ forced' = TRUE
  /\ mPc' = "destroy"
  /\ UNCHANGED <<rc, optVars, dbStatus, dmsFile, wPc, handlers, signals, sPc, logVars>>

DestroyEduMgr ==
  /\ MainAt("destroy")
  /\ \A w \in Worker : wPc[w] \in {"none", "ended"}
  /\ mPc' = "exited"
  /\ UNCHANGED <<rc, optVars, dbStatus, dmsFile, wPc, forced, handlers, signals, sPc, logVars>>

Main ==
  \/ Setup \/ OptionsInit \/ OptionsFail \/ KrcbStatus \/ KrcbOptions \/ RtnInitialize
  \/ StartListener \/ MainSleep \/ MainLeave \/ DestroyRtn \/ ForceEDUs
  \/ DestroyEduMgr

-----------------------------------------------------------------------------
(* The EDUs (their control flow is in EDUMgr).                             *)

WorkerAt(w, place) ==
  wPc[w] = place /\ Running(<<w, "run">>) /\ lPc[<<w, "run">>] = "idle"
WorkerGoto(w, place) == wPc' = [wPc EXCEPT ![w] = place]
workerRest == <<mPc, rc, optVars, dbStatus, dmsFile, forced, handlers, signals, sPc>>

WorkerStart(w) ==
  /\ wPc[w] = "none" /\ ~forced
  /\ rc = "EDB_OK" /\ mPc \in {"loop", "return", "force"}
  /\ WorkerGoto(w, "run")
  /\ UNCHANGED <<workerRest, logVars>>

\* pmdRecv and pmdSend look at _isForced and then call ::recv or ::send, which have
\* no timeout: the EDU is with its client until that has sent or read on, or has gone.
WorkerCall(w) ==
  WorkerAt(w, "run") /\ ~forced /\ WorkerGoto(w, "client") /\ UNCHANGED <<workerRest, logVars>>
WorkerCalled(w) == WorkerAt(w, "client") /\ WorkerGoto(w, "run") /\ UNCHANGED <<workerRest, logVars>>

\* The message is complete and reaches rtnInsert, whether forced by now or not.
WorkerRequest(w) ==
  WorkerAt(w, "client") /\ WorkerGoto(w, "request") /\ UNCHANGED <<workerRest, logVars>>
WorkerReply(w) == WorkerAt(w, "request") /\ WorkerGoto(w, "run") /\ UNCHANGED <<workerRest, logVars>>
\* rtnInsert on a dmsFile that was deleted: it may also end the process.
WorkerCrash(w) ==
  /\ WorkerAt(w, "request") /\ dmsFile = "deleted"
  /\ mPc' = "crashed"
  /\ UNCHANGED <<rc, optVars, dbStatus, dmsFile, wPc, forced, handlers, signals, sPc, logVars>>

WorkerLog(w) ==
  /\ WorkerAt(w, "run") /\ lines < MaxLines
  /\ PdLog(<<w, "run">>)
  /\ UNCHANGED <<workerRest, wPc>>
WorkerEnd(w) == WorkerAt(w, "run") /\ forced /\ WorkerGoto(w, "ended") /\ UNCHANGED <<workerRest, logVars>>

WorkerStep(w) ==
  \/ WorkerStart(w) \/ WorkerCall(w) \/ WorkerCalled(w) \/ WorkerRequest(w)
  \/ WorkerReply(w) \/ WorkerCrash(w) \/ WorkerLog(w) \/ WorkerEnd(w)

-----------------------------------------------------------------------------
(* Signals.                                                                *)

\* The handle flag of signalHandleMap.
Handle == [SIGTERM |-> 1, SIGUSR1 |-> 0]

\* A thread of the process can be interrupted anywhere.
Alive(t) == IF t = "main" THEN TRUE ELSE wPc[t] \notin {"none", "ended"}

\* A signal reaches thread t.  Before the handler is installed it kills the process;
\* pmdSignalHandler does nothing for a signal whose handle is 0.
Signal(t, sig) ==
  /\ mPc \notin Ended /\ Alive(t) /\ sPc[t] = "none"
  /\ signals < MaxSignals
  /\ signals' = signals + 1
  /\ IF ~handlers THEN mPc' = "killed" /\ UNCHANGED sPc
     ELSE /\ sPc' = IF Handle[sig] = 1 THEN [sPc EXCEPT ![t] = "log"] ELSE sPc
          /\ UNCHANGED mPc
  /\ UNCHANGED <<rc, optVars, dbStatus, dmsFile, wPc, forced, handlers, logVars>>

\* Variant: the handler leaves a status that is not one of the enumeration.
HandlerSet_Unknown(t) ==
  /\ sPc[t] = "set" /\ lPc[<<t, "signal">>] = "idle" /\ Running(<<t, "signal">>)
  /\ dbStatus' = "STOPPED"
  /\ sPc' = [sPc EXCEPT ![t] = "none"]
  /\ UNCHANGED <<mPc, rc, optVars, dmsFile, wPc, forced, handlers, signals, logVars>>

\* The handler logs the signal, then sets the status.
HandlerLog(t) ==
  /\ sPc[t] = "log" /\ Running(<<t, "signal">>)
  /\ PdLog(<<t, "signal">>)
  /\ sPc' = [sPc EXCEPT ![t] = "set"]
  /\ UNCHANGED <<mPc, rc, optVars, dbStatus, dmsFile, wPc, forced, handlers, signals>>

HandlerSet(t) ==
  /\ sPc[t] = "set" /\ lPc[<<t, "signal">>] = "idle" /\ Running(<<t, "signal">>)
  /\ dbStatus' = "SHUTDOWN"
  /\ sPc' = [sPc EXCEPT ![t] = "none"]
  /\ UNCHANGED <<mPc, rc, optVars, dmsFile, wPc, forced, handlers, signals, logVars>>

HandlerStep(t) == HandlerLog(t) \/ HandlerSet(t)

-----------------------------------------------------------------------------
\* A handler waits for the mutex that the thread below it holds.
SelfDeadlock ==
  \E t \in Thread : lPc[<<t, "signal">>] = "get" /\ owner = <<t, "run">>

\* The process has ended, or hangs in a handler.
Over ==
  /\ mPc \in Ended \/ SelfDeadlock
  /\ UNCHANGED vars

Next ==
  \/ Main \/ Over
  \/ \E x \in Ctx : LogStep(x)
  \/ \E w \in Worker : WorkerStep(w)
  \/ \E t \in Thread : HandlerStep(t) \/ \E sig \in DOMAIN Handle : Signal(t, sig)

Spec == Init /\ [][Next]_vars

\* The operating system runs every thread; clients and signals owe nothing, and a
\* request on a deleted dmsFile need not come to an end.
Fairness ==
  /\ WF_vars(Main)
  /\ \A x \in Ctx : WF_vars(LogStep(x))
  /\ \A w \in Worker : WF_vars(WorkerEnd(w)) /\ WF_vars(dmsFile # "deleted" /\ WorkerReply(w))
  /\ \A t \in Thread : WF_vars(HandlerStep(t))

FairSpec == Spec /\ Fairness

-----------------------------------------------------------------------------
(* Properties *)

Source == {"unset", "default", "file", "cmd"}

\* Type correctness.
TypeOK ==
  /\ mPc \in {"setup", "options", "status", "krcb", "rtn", "start", "loop", "return", "force",
              "destroy"} \cup Ended
  /\ rc \in {"EDB_OK", "EDB_PMD_HELP_ONLY", "EDB_INVALIDARG", "EDB_IO", "EDB_OOM"}
  /\ cmdLine \subseteq Opts /\ confFile \subseteq Opts
  /\ opts \in [Opts -> Source] /\ krcb \in [Opts -> Source]
  /\ dbStatus \in {"NORMAL", "SHUTDOWN", "PANIC"}
  /\ dmsFile \in {"none", "ready", "broken", "deleted"}
  /\ wPc \in [Worker -> {"none", "run", "client", "request", "ended"}]
  /\ forced \in BOOLEAN /\ handlers \in BOOLEAN /\ signals \in 0..MaxSignals
  /\ sPc \in [Thread -> {"none", "log", "set"}]
  /\ lPc \in [Ctx -> {"idle", "get", "open", "write", "release"}]
  /\ line \in [Ctx -> Nat] /\ part \in [Ctx -> 0..Parts]
  /\ owner \in Ctx \cup {NoCtx}
  /\ logFile \in Seq(Nat \X (1..Parts)) /\ isOpen \in BOOLEAN /\ pos \in 0..Len(logFile)
  /\ lines \in Nat /\ cut \subseteq 1..lines

\* The lines of threads and handlers are not mixed in the log file: a line begins at
\* its first part, and its second follows, unless it is being written or was given up.
LogLinesWhole ==
  \A i \in 1..Len(logFile) :
    LET l == logFile[i][1]
    IN IF logFile[i][2] = 1
       THEN \/ i < Len(logFile) /\ logFile[i + 1] = <<l, 2>>
            \/ l \in cut
            \/ i = Len(logFile) /\ owner # NoCtx /\ line[owner] = l
       ELSE i > 1 /\ logFile[i - 1] = <<l, 1>>

\* The log file only grows: a run of the server does not overwrite what is in it.
LogOnlyGrows == [][IsPrefix(logFile, logFile')]_vars

\* Until main has returned, a request reaches a store that was initialised.
ServesOnlyReady ==
  \A w \in Worker : wPc[w] = "request" /\ mPc = "loop" => dmsFile = "ready"

\* An option on the command line is the one the server runs with, whatever the
\* configuration file says.
CommandLineWins == krcb # Unset => \A o \in cmdLine : krcb[o] = "cmd"

\* A call of pdLog returns: nobody keeps the mutex, but for a handler that waits for
\* the thread it interrupted, and unless the process has crashed.
LogReturns ==
  \A x \in Ctx : lPc[x] # "idle" ~> lPc[x] = "idle" \/ SelfDeadlock \/ mPc = "crashed"

\* Once main waits in its loop, a status of SHUTDOWN ends the process, with all EDUs
\* gone, but for such a handler, a client that keeps an EDU in ::recv or ::send for
\* ever, and a request that is caught on the deleted dmsFile.
ShutdownEnds ==
  \/ mPc = "loop" /\ dbStatus = "SHUTDOWN" ~> mPc \in {"exited", "crashed"} \/ SelfDeadlock
  \/ \E w \in Worker : \/ <>[](wPc[w] = "client")
                       \/ <>[](wPc[w] = "request" /\ dmsFile = "deleted")

\* A signal whose handle is 1 makes main leave its loop and shut the database down.
SignalStopsServer ==
  \A t \in Thread : sPc[t] = "log" ~> mPc \in {"return", "force", "destroy"} \cup Ended
====
