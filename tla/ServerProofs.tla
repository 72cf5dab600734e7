---------------------------- MODULE ServerProofs ----------------------------
(***************************************************************************)
(* Theorems of Server, for every set of EDUs, every set of options and any *)
(* number of signals and log lines.                                        *)
(***************************************************************************)
EXTENDS Server, TLAPS

-----------------------------------------------------------------------------
(* The inductive invariant.                                                *)

Holding == {"open", "write", "release"}
Waiting == {"get", "open"}

\* A handler is in pdLog only between its two steps.
HandlerLogsOnce ==
  \A t \in Thread : sPc[t] # "set" => lPc[<<t, "signal">>] = "idle"

\* The lines being written are apart, and have numbers that were given out.
LinesApart ==
  /\ \A x \in Ctx : lPc[x] # "idle" => line[x] \in 1..lines
  /\ \A x, y \in Ctx : x # y /\ lPc[x] # "idle" /\ lPc[y] # "idle" => line[x] # line[y]

\* What is in the file was begun; nothing of a line is before its first write, and
\* after a write its last part written ends the file.
WrittenSoFar ==
  /\ \A i \in 1..Len(logFile) : logFile[i][1] <= lines
  /\ \A x \in Ctx : lPc[x] \in Waiting => part[x] = 0
  /\ \A x \in Ctx : lPc[x] # "idle" /\ part[x] = 0 =>
       \A i \in 1..Len(logFile) : logFile[i][1] # line[x]
  /\ \A x \in Ctx : lPc[x] = "write" /\ part[x] > 0 =>
       Len(logFile) > 0 /\ logFile[Len(logFile)] = <<line[x], part[x]>>

\* The offset of an open log file is its end, a write is to an open file, and a line
\* is released whole or as given up.
AtTheEnd ==
  /\ isOpen => pos = Len(logFile)
  /\ \A x \in Ctx : lPc[x] = "write" => isOpen
  /\ \A x \in Ctx : lPc[x] = "release" => line[x] \in cut

\* _pdLogMutex is held by exactly the call of pdLog that is between get and release,
\* handlers and failures included.
MutexIsHeld ==
  \A x \in Ctx : (owner = x) <=> lPc[x] \in {"open", "write", "release"}

LogTypeOK ==
  /\ lPc \in [Ctx -> {"idle", "get", "open", "write", "release"}]
  /\ line \in [Ctx -> Nat] /\ part \in [Ctx -> 0..Parts]
  /\ owner \in Ctx \cup {NoCtx}
  /\ logFile \in Seq(Nat \X (1..Parts)) /\ isOpen \in BOOLEAN /\ pos \in 0..Len(logFile)
  /\ lines \in Nat /\ cut \subseteq 1..lines

LogInv ==
  LogTypeOK /\ MutexIsHeld /\ LinesApart /\ WrittenSoFar /\ AtTheEnd /\ LogLinesWhole

\* Where the options come from while main looks at them.
OptionsSoFar ==
  /\ mPc \in {"setup", "options", "status", "krcb"} => krcb = Unset
  /\ mPc \in {"status", "krcb"} => \A o \in cmdLine : opts[o] = "cmd"

\* main gets behind rtnInitialize only when it worked, and out of its loop only when
\* the handler has set the status.
MainSoFar ==
  /\ mPc \in {"start", "loop"} => dmsFile = "ready"
  /\ dbStatus # "PANIC"
  /\ mPc \in {"return", "force", "destroy", "exited"} /\ rc = "EDB_OK" => dbStatus = "SHUTDOWN"

ProcessTypeOK ==
  /\ mPc \in {"setup", "options", "status", "krcb", "rtn", "start", "loop", "return", "force",
              "destroy", "exited", "killed", "crashed"}
  /\ rc \in {"EDB_OK", "EDB_PMD_HELP_ONLY", "EDB_INVALIDARG", "EDB_IO", "EDB_OOM"}
  /\ cmdLine \subseteq Opts /\ confFile \subseteq Opts
  /\ opts \in [Opts -> Source] /\ krcb \in [Opts -> Source]
  /\ dbStatus \in {"NORMAL", "SHUTDOWN", "PANIC"}
  /\ dmsFile \in {"none", "ready", "broken", "deleted"}
  /\ wPc \in [Worker -> {"none", "run", "client", "request", "ended"}]
  /\ forced \in BOOLEAN /\ handlers \in BOOLEAN /\ signals \in 0..MaxSignals
  /\ sPc \in [Thread -> {"none", "log", "set"}]

ProcessInv == ProcessTypeOK /\ OptionsSoFar /\ MainSoFar /\ CommandLineWins

IInv == LogInv /\ ProcessInv /\ HandlerLogsOnce

-----------------------------------------------------------------------------
(* The diagnostic log.                                                     *)

\* NoCtx is the context of nobody.
LEMMA NoCtxIsNone == NoCtx \notin Ctx
  BY DEF NoCtx, Ctx

\* pdLog called by a context that is not in it: a line is begun that is not in the
\* file, and nothing else changes.
LEMMA PdLogInv ==
  ASSUME LogInv, NEW x \in Ctx, lPc[x] = "idle", PdLog(x)
  PROVE  LogInv'
<1>1. CASE UNCHANGED logVars
  BY <1>1 DEF logVars, LogInv, LogTypeOK, MutexIsHeld, LinesApart, WrittenSoFar, AtTheEnd,
              LogLinesWhole
<1>2. CASE lines' = lines + 1 /\ UNCHANGED <<owner, logFile, isOpen, pos, cut>>
           /\ lPc' = [lPc EXCEPT ![x] = "get"] /\ line' = [line EXCEPT ![x] = lines + 1]
           /\ part' = [part EXCEPT ![x] = 0]
  <2> USE <1>2
  <2>1. LogTypeOK'
    BY DEF LogInv, LogTypeOK, Parts
  <2>2. MutexIsHeld'
    BY DEF LogInv, LogTypeOK, MutexIsHeld
  <2>3. LinesApart'
    BY DEF LogInv, LogTypeOK, LinesApart
  <2>4. WrittenSoFar'
    <3>1. lines \in Nat /\ \A i \in 1..Len(logFile) : logFile[i][1] \in 0..lines
      <4>1. lines \in Nat /\ logFile \in Seq(Nat \X (1..Parts))
        BY DEF LogInv, LogTypeOK
      <4>2. \A i \in 1..Len(logFile) : logFile[i][1] \in Nat
        BY <4>1
      <4>3. \A i \in 1..Len(logFile) : logFile[i][1] <= lines
        BY DEF LogInv, WrittenSoFar
      <4> QED
        BY <4>1, <4>2, <4>3
    <3>2. /\ lPc'[x] = "get" /\ line'[x] = lines + 1 /\ part'[x] = 0
          /\ \A y \in Ctx : y # x =>
               lPc'[y] = lPc[y] /\ line'[y] = line[y] /\ part'[y] = part[y]
      BY DEF LogInv, LogTypeOK
    <3>3. \A i \in 1..Len(logFile) : logFile[i][1] <= lines + 1
      BY <3>1
    <3>4. \A y \in Ctx : lPc'[y] \in Waiting => part'[y] = 0
      BY <3>2 DEF LogInv, WrittenSoFar, Waiting
    <3>5. ASSUME NEW y \in Ctx, lPc'[y] # "idle", part'[y] = 0, NEW i \in 1..Len(logFile)
          PROVE  logFile[i][1] # line'[y]
      <4>1. CASE y = x
        BY <3>1, <3>2, <4>1
      <4>2. CASE y # x
        BY <3>2, <3>5, <4>2 DEF LogInv, WrittenSoFar
      <4> QED
        BY <4>1, <4>2
    <3>6. \A y \in Ctx : lPc'[y] = "write" /\ part'[y] > 0 =>
            Len(logFile) > 0 /\ logFile[Len(logFile)] = <<line'[y], part'[y]>>
      BY <3>2 DEF LogInv, WrittenSoFar
    <3> QED
      BY <3>3, <3>4, <3>5, <3>6 DEF WrittenSoFar
  <2>5. AtTheEnd'
    BY DEF LogInv, LogTypeOK, AtTheEnd
  <2>6. LogLinesWhole'
    BY DEF LogInv, LogTypeOK, LogLinesWhole, MutexIsHeld
  <2> QED
    BY <2>1, <2>2, <2>3, <2>4, <2>5, <2>6 DEF LogInv
<1> QED
  BY <1>1, <1>2 DEF PdLog

\* A write at the end of the file appends to it.
LEMMA WriteAppends ==
  ASSUME NEW S, NEW file \in Seq(S), NEW new \in Seq(S)
  PROVE  SubSeq(file, 1, Len(file)) \o new \o SubSeq(file, Len(file) + Len(new) + 1, Len(file))
           = file \o new
<1>1. SubSeq(file, 1, Len(file)) = file
  OBVIOUS
<1>2. SubSeq(file, Len(file) + Len(new) + 1, Len(file)) = <<>>
  OBVIOUS
<1>3. file \o new \o <<>> = file \o new
  OBVIOUS
<1> QED
  BY <1>1, <1>2, <1>3

\* _pdLogMutex.get(): nobody holds it, so no line is half written but those given up.
LEMMA LogGetInv ==
  ASSUME LogInv, NEW x \in Ctx, LogGet(x)
  PROVE  LogInv' /\ logFile' = logFile
<1> USE DEF LogGet
<1>1. LogTypeOK'
  BY DEF LogInv, LogTypeOK
<1>2. MutexIsHeld'
  BY NoCtxIsNone DEF LogInv, LogTypeOK, MutexIsHeld
<1>3. LinesApart'
  BY DEF LogInv, LogTypeOK, LinesApart
<1>4. WrittenSoFar'
  BY DEF LogInv, LogTypeOK, WrittenSoFar, Waiting
<1>5. AtTheEnd'
  BY DEF LogInv, LogTypeOK, AtTheEnd
<1>6. LogLinesWhole'
  BY NoCtxIsNone DEF LogInv, LogTypeOK, LogLinesWhole
<1> QED
  BY <1>1, <1>2, <1>3, <1>4, <1>5, <1>6 DEF LogInv

\* _pdLogFileReopen leaves the offset at the end, or gives the line up.
LEMMA LogOpenInv ==
  ASSUME LogInv, NEW x \in Ctx, LogOpen(x)
  PROVE  LogInv' /\ logFile' = logFile
<1>1. PICK place \in {"write", "release"} :
        /\ lPc' = [lPc EXCEPT ![x] = place]
        /\ IF place = "write" THEN isOpen' = TRUE /\ pos' = Len(logFile) /\ cut' = cut
           ELSE isOpen' = isOpen /\ pos' = pos /\ cut' = cut \cup {line[x]}
  BY DEF LogOpen
<1>2. /\ lPc[x] = "open" /\ part[x] = 0 /\ line[x] \in 1..lines
      /\ UNCHANGED <<line, part, owner, logFile, lines>>
  BY DEF LogOpen, LogInv, LinesApart, WrittenSoFar, Waiting
<1>3. LogTypeOK'
  <2>1. Len(logFile) \in Nat
    BY DEF LogInv, LogTypeOK
  <2>2. pos' \in 0..Len(logFile) /\ isOpen' \in BOOLEAN /\ cut' \subseteq 1..lines
    <3>1. CASE place = "write"
      <4>1. isOpen' = TRUE /\ pos' = Len(logFile) /\ cut' = cut
        BY <1>1, <3>1
      <4>2. isOpen' \in BOOLEAN /\ cut' \subseteq 1..lines
        BY <4>1 DEF LogInv, LogTypeOK
      <4> QED
        BY <2>1, <4>1, <4>2
    <3>2. CASE place = "release"
      BY <1>1, <1>2, <3>2 DEF LogInv, LogTypeOK
    <3> QED
      BY <3>1, <3>2
  <2>3. lPc' \in [Ctx -> {"idle", "get", "open", "write", "release"}]
    BY <1>1 DEF LogInv, LogTypeOK
  <2> QED
    BY <1>2, <2>2, <2>3 DEF LogInv, LogTypeOK
<1>4. MutexIsHeld'
  BY <1>1, <1>2 DEF LogInv, LogTypeOK, MutexIsHeld
<1>5. LinesApart'
  BY <1>1, <1>2 DEF LogInv, LogTypeOK, LinesApart
<1>6. WrittenSoFar'
  BY <1>1, <1>2 DEF LogInv, LogTypeOK, WrittenSoFar, Waiting
<1>7. AtTheEnd'
  BY <1>1, <1>2 DEF LogInv, LogTypeOK, AtTheEnd
<1>8. LogLinesWhole'
  BY <1>1, <1>2 DEF LogInv, LogTypeOK, LogLinesWhole
<1> QED
  BY <1>2, <1>3, <1>4, <1>5, <1>6, <1>7, <1>8 DEF LogInv

\* A failed ::write gives the line up, and leaves the file as it is.
LEMMA LogWriteFailInv ==
  ASSUME LogInv, NEW x \in Ctx, LogWriteFail(x)
  PROVE  LogInv' /\ logFile' = logFile
<1> USE DEF LogWriteFail
<1>1. LogTypeOK'
  BY DEF LogInv, LogTypeOK, LinesApart
<1>2. MutexIsHeld'
  BY NoCtxIsNone DEF LogInv, LogTypeOK, MutexIsHeld
<1>3. LinesApart'
  BY DEF LogInv, LogTypeOK, LinesApart
<1>4. WrittenSoFar'
  BY DEF LogInv, LogTypeOK, WrittenSoFar, Waiting
<1>5. AtTheEnd'
  BY DEF LogInv, LogTypeOK, AtTheEnd
<1>6. LogLinesWhole'
  BY DEF LogInv, LogTypeOK, LogLinesWhole
<1> QED
  BY <1>1, <1>2, <1>3, <1>4, <1>5, <1>6 DEF LogInv

\* The mutex is released behind a whole line, or one that was given up.
LEMMA LogReleaseInv ==
  ASSUME LogInv, NEW x \in Ctx, LogRelease(x)
  PROVE  LogInv' /\ logFile' = logFile
<1> USE DEF LogRelease
<1>0. owner = x
  BY DEF LogInv, MutexIsHeld
<1>1. LogTypeOK'
  BY DEF LogInv, LogTypeOK, LinesApart
<1>2. MutexIsHeld'
  BY <1>0, NoCtxIsNone DEF LogInv, LogTypeOK, MutexIsHeld
<1>3. LinesApart'
  BY DEF LogInv, LogTypeOK, LinesApart
<1>4. WrittenSoFar'
  BY DEF LogInv, LogTypeOK, WrittenSoFar, Waiting
<1>5. AtTheEnd'
  BY DEF LogInv, LogTypeOK, AtTheEnd
<1>6. LogLinesWhole'
  <2>1. ASSUME NEW i \in 1..Len(logFile), logFile[i][2] = 1, i = Len(logFile), line[x] = logFile[i][1]
        PROVE  logFile[i][1] \in cut
    BY <2>1 DEF LogInv, LogTypeOK, WrittenSoFar, AtTheEnd, Parts
  <2> QED
    BY <1>0, <2>1 DEF LogInv, LogTypeOK, LogLinesWhole
<1> QED
  BY <1>1, <1>2, <1>3, <1>4, <1>5, <1>6 DEF LogInv

\* A sequence and n more elements.
LEMMA Appended ==
  ASSUME NEW S, NEW s \in Seq(S), NEW n \in Nat, NEW f \in [1..n -> S]
  PROVE  /\ f \in Seq(S) /\ Len(f) = n
         /\ s \o f \in Seq(S) /\ Len(s \o f) = Len(s) + n
         /\ \A i \in 1..Len(s) : (s \o f)[i] = s[i]
         /\ \A i \in 1..n : (s \o f)[Len(s) + i] = f[i]
<1>1. f \in Seq(S) /\ Len(f) = n
  OBVIOUS
<1> QED
  BY <1>1

\* One ::write appends the next parts of the line, behind what is there of it.
LEMMA LogWriteInv ==
  ASSUME LogInv, NEW x \in Ctx, LogWrite(x)
  PROVE  LogInv' /\ IsPrefix(logFile, logFile')
<1> DEFINE Entry == Nat \X (1..Parts)
<1>1. /\ lPc[x] = "write" /\ part[x] \in 0..1 /\ line[x] \in 1..lines
      /\ isOpen /\ pos = Len(logFile) /\ logFile \in Seq(Entry)
      /\ UNCHANGED <<lPc, line, owner, isOpen, lines, cut>>
  BY DEF LogWrite, LogInv, LogTypeOK, LinesApart, AtTheEnd, Parts
<1>2. PICK upTo \in (part[x] + 1)..Parts :
        LET new == [i \in 1..(upTo - part[x]) |-> <<line[x], part[x] + i>>]
            end == pos + Len(new)
        IN /\ logFile' = SubSeq(logFile, 1, pos) \o new \o SubSeq(logFile, end + 1, Len(logFile))
           /\ pos' = end
           /\ part' = [part EXCEPT ![x] = upTo]
  BY DEF LogWrite
<1> DEFINE n == upTo - part[x]
           new == [i \in 1..n |-> <<line[x], part[x] + i>>]
<1>3. upTo \in 1..2 /\ n \in 1..2 /\ upTo = part[x] + n
  BY <1>1, <1>2 DEF Parts
<1>4. n \in Nat /\ new \in [1..n -> Entry]
  BY <1>1, <1>3 DEF Parts
<1>4a. \A i \in 1..n : new[i] = <<line[x], part[x] + i>>
  OBVIOUS
<1>4b. logFile' = SubSeq(logFile, 1, pos) \o new \o SubSeq(logFile, pos + Len(new) + 1, Len(logFile))
      /\ pos' = pos + Len(new) /\ part' = [part EXCEPT ![x] = upTo]
  BY <1>2
<1> HIDE DEF n, new, Entry
<1>4c. new \in Seq(Entry) /\ Len(new) = n
  BY <1>4, <1>1, Appended
<1>5. logFile' = logFile \o new
  BY <1>1, <1>4b, <1>4c, WriteAppends
<1>6. /\ logFile' \in Seq(Entry)
      /\ Len(logFile') = Len(logFile) + n
      /\ \A i \in 1..Len(logFile) : logFile'[i] = logFile[i]
      /\ \A i \in 1..n : logFile'[Len(logFile) + i] = <<line[x], part[x] + i>>
  BY <1>1, <1>4, <1>4a, <1>5, Appended
<1>7. pos' = Len(logFile') /\ part' = [part EXCEPT ![x] = upTo]
  BY <1>1, <1>4b, <1>4c, <1>6
<1>8. IsPrefix(logFile, logFile')
  <2>1. SubSeq(logFile, 1, Len(logFile)) = SubSeq(logFile', 1, Len(logFile))
    BY <1>1, <1>3, <1>6
  <2> QED
    BY <1>1, <1>3, <1>6, <2>1 DEF IsPrefix
<1>9. LogTypeOK'
  BY <1>1, <1>3, <1>6, <1>7 DEF LogInv, LogTypeOK, Parts, Entry
<1>10. MutexIsHeld'
  BY <1>1 DEF LogInv, MutexIsHeld
<1>11. LinesApart'
  BY <1>1 DEF LogInv, LinesApart
<1>12. WrittenSoFar'
  <2>1. ASSUME NEW i \in 1..Len(logFile')
        PROVE  \/ i \in 1..Len(logFile) /\ logFile'[i] = logFile[i]
               \/ logFile'[i] = <<line[x], part[x] + (i - Len(logFile))>>
    <3>1. CASE i \in 1..Len(logFile)
      BY <1>6, <3>1
    <3>2. CASE i - Len(logFile) \in 1..n
      BY <1>6, <1>1, <3>2
    <3> QED
      BY <1>1, <1>3, <1>6, <3>1, <3>2
  <2>2. ASSUME NEW i \in 1..Len(logFile')
        PROVE  logFile'[i][1] <= lines'
    <3>1. CASE i \in 1..Len(logFile) /\ logFile'[i] = logFile[i]
      BY <1>1, <3>1 DEF LogInv, WrittenSoFar
    <3>2. CASE logFile'[i] = <<line[x], part[x] + (i - Len(logFile))>>
      BY <1>1, <3>2 DEF LogInv, LogTypeOK
    <3> QED
      BY <2>1, <3>1, <3>2
  <2>3. ASSUME NEW y \in Ctx, lPc'[y] \in Waiting
        PROVE  part'[y] = 0
    BY <1>1, <1>7, <2>3 DEF LogInv, LogTypeOK, WrittenSoFar, Waiting
  <2>4. ASSUME NEW y \in Ctx, lPc'[y] # "idle", part'[y] = 0, NEW i \in 1..Len(logFile')
        PROVE  logFile'[i][1] # line'[y]
    <3>1. y # x
      BY <1>1, <1>3, <1>7, <2>4 DEF LogInv, LogTypeOK
    <3>2. line[y] # line[x] /\ part[y] = 0
      BY <1>1, <1>7, <2>4, <3>1 DEF LogInv, LinesApart, LogTypeOK
    <3> QED
      BY <1>1, <2>1, <2>4, <3>2 DEF LogInv, WrittenSoFar
  <2>5. ASSUME NEW y \in Ctx, lPc'[y] = "write"
        PROVE  y = x
    BY <1>1, <2>5 DEF LogInv, MutexIsHeld
  <2>6. Len(logFile') > 0 /\ logFile'[Len(logFile')] = <<line'[x], part'[x]>>
    BY <1>1, <1>3, <1>6, <1>7 DEF LogInv, LogTypeOK
  <2> QED
    BY <2>2, <2>3, <2>4, <2>5, <2>6 DEF WrittenSoFar
<1>13. AtTheEnd'
  BY <1>1, <1>7 DEF LogInv, AtTheEnd
<1>14. LogLinesWhole'
  <2>1. owner = x /\ x # NoCtx
    BY <1>1, NoCtxIsNone DEF LogInv, MutexIsHeld
  <2>2. part[x] = 1 => Len(logFile) > 0 /\ logFile[Len(logFile)] = <<line[x], 1>>
    BY <1>1 DEF LogInv, WrittenSoFar
  <2>3. part[x] = 0 => \A i \in 1..Len(logFile) : logFile[i][1] # line[x]
    BY <1>1 DEF LogInv, WrittenSoFar
  <2>4. \A i \in 1..Len(logFile) : logFile[i] \in Nat \X (1..2)
    BY <1>1 DEF Parts, Entry
  <2> SUFFICES ASSUME NEW i \in 1..Len(logFile')
               PROVE  LET l == logFile'[i][1]
                      IN IF logFile'[i][2] = 1
                         THEN \/ i < Len(logFile') /\ logFile'[i + 1] = <<l, 2>>
                              \/ l \in cut'
                              \/ i = Len(logFile') /\ owner' # NoCtx /\ line'[owner'] = l
                         ELSE i > 1 /\ logFile'[i - 1] = <<l, 1>>
    BY DEF LogLinesWhole
  <2>5. CASE i \in 1..(Len(logFile) - 1)
    <3>1. /\ i \in 1..Len(logFile) /\ i + 1 \in 1..Len(logFile) /\ i # Len(logFile)
          /\ i < Len(logFile') /\ (i > 1 => i - 1 \in 1..Len(logFile))
      <4>1. Len(logFile) \in Nat
        BY <1>1
      <4>2. Len(logFile') = Len(logFile) + n
        BY <1>6
      <4> QED
        BY <1>3, <2>5, <4>1, <4>2
    <3>2. /\ logFile'[i] = logFile[i] /\ logFile'[i + 1] = logFile[i + 1]
          /\ (i > 1 => logFile'[i - 1] = logFile[i - 1])
      BY <1>6, <3>1
    <3> QED
      BY <1>1, <3>1, <3>2 DEF LogInv, LogLinesWhole
  <2>6. CASE i = Len(logFile)
    BY <1>1, <1>3, <1>6, <2>1, <2>2, <2>3, <2>6 DEF LogInv, LogLinesWhole
  <2>7. CASE i = Len(logFile) + 1
    BY <1>1, <1>3, <1>6, <2>1, <2>2, <2>7
  <2>8. CASE i = Len(logFile) + 2
    BY <1>1, <1>3, <1>6, <2>8
  <2> QED
    BY <1>1, <1>3, <1>6, <2>5, <2>6, <2>7, <2>8
<1> QED
  BY <1>8, <1>9, <1>10, <1>11, <1>12, <1>13, <1>14 DEF LogInv

\* Every step of pdLog keeps the log as it should be, and only adds to it.
LEMMA LogStepInv ==
  ASSUME LogInv, NEW x \in Ctx, LogStep(x)
  PROVE  LogInv' /\ IsPrefix(logFile, logFile')
<1>1. IsPrefix(logFile, logFile)
  BY DEF IsPrefix, LogInv, LogTypeOK
<1> QED
  BY <1>1, LogGetInv, LogOpenInv, LogWriteInv, LogWriteFailInv, LogReleaseInv DEF LogStep

\* A step of pdLog is by a context that is in it, and touches nothing but the log.
LEMMA LogStepRest ==
  ASSUME LogInv, NEW x \in Ctx, LogStep(x)
  PROVE  /\ lPc[x] # "idle"
         /\ UNCHANGED <<mPc, rc, cmdLine, confFile, opts, krcb, dbStatus, dmsFile, wPc, forced,
                        handlers, signals, sPc>>
         /\ \A y \in Ctx : y # x => lPc'[y] = lPc[y]
<1> USE DEF restVars, optVars, LogInv, LogTypeOK
<1>1. CASE LogGet(x)
  BY <1>1 DEF LogGet
<1>2. CASE LogOpen(x)
  BY <1>2 DEF LogOpen
<1>3. CASE LogWrite(x)
  BY <1>3 DEF LogWrite
<1>4. CASE LogWriteFail(x)
  BY <1>4 DEF LogWriteFail
<1>5. CASE LogRelease(x)
  BY <1>5 DEF LogRelease
<1> QED
  BY <1>1, <1>2, <1>3, <1>4, <1>5 DEF LogStep

-----------------------------------------------------------------------------
(* main, the EDUs and the handlers.                                        *)

\* A step outside of pdLog keeps the log as it should be.
LEMMA QuietLog ==
  ASSUME LogInv, UNCHANGED logVars
  PROVE  LogInv' /\ logFile' = logFile
  BY DEF LogInv, LogTypeOK, MutexIsHeld, LinesApart, WrittenSoFar, AtTheEnd, LogLinesWhole, logVars

\* The call of pdLog itself writes nothing yet.
LEMMA PdLogFile ==
  ASSUME NEW x, PdLog(x)
  PROVE  logFile' = logFile
  BY DEF PdLog, logVars

\* Every step of main keeps what is known of main and of the options.
LEMMA MainProcess ==
  ASSUME ProcessInv, Main
  PROVE  ProcessInv'
<1> USE DEF ProcessInv, ProcessTypeOK, OptionsSoFar, MainSoFar, CommandLineWins, MainAt, optVars
<1>1. CASE Setup
  BY <1>1 DEF Setup
<1>2. CASE OptionsInit
  BY <1>2 DEF OptionsInit, importVM, Source, Unset
<1>3. CASE OptionsFail
  BY <1>3 DEF OptionsFail
<1>4. CASE KrcbStatus
  BY <1>4 DEF KrcbStatus
<1>5. CASE KrcbOptions
  BY <1>5 DEF KrcbOptions
<1>6. CASE RtnInitialize
  BY <1>6 DEF RtnInitialize, Unset, Source
<1>7. CASE StartListener
  BY <1>7 DEF StartListener
<1>8. CASE MainSleep
  BY <1>8 DEF MainSleep, vars
<1>9. CASE MainLeave
  BY <1>9 DEF MainLeave, IsDbUp
<1>10. CASE DestroyRtn
  BY <1>10 DEF DestroyRtn
<1>11. CASE ForceEDUs
  BY <1>11 DEF ForceEDUs
<1>12. CASE DestroyEduMgr
  BY <1>12 DEF DestroyEduMgr
<1> QED
  BY <1>1, <1>2, <1>3, <1>4, <1>5, <1>6, <1>7, <1>8, <1>9, <1>10, <1>11, <1>12 DEF Main

\* main calls pdLog, outside of it, or leaves the log alone.
LEMMA MainLogs ==
  ASSUME Main
  PROVE  /\ UNCHANGED logVars \/ (lPc[<<"main", "run">>] = "idle" /\ PdLog(<<"main", "run">>))
         /\ UNCHANGED sPc
<1>1. CASE RtnInitialize
  <2>1. UNCHANGED logVars \/ PdLog(<<"main", "run">>)
    BY <1>1 DEF RtnInitialize
  <2> QED
    BY <1>1, <2>1 DEF RtnInitialize, MainAt
<1>2. CASE MainSleep
  BY <1>2 DEF MainSleep, vars, logVars
<1>3. CASE ~RtnInitialize /\ ~MainSleep
  BY <1>3 DEF Main, Setup, OptionsInit, OptionsFail, KrcbStatus, KrcbOptions, StartListener,
    MainLeave, DestroyRtn, ForceEDUs, DestroyEduMgr
<1> QED
  BY <1>1, <1>2, <1>3

\* An EDU calls pdLog, outside of it, or leaves the log alone.
LEMMA WorkerInv ==
  ASSUME ProcessInv, NEW w \in Worker, WorkerStep(w)
  PROVE  /\ ProcessInv'
         /\ UNCHANGED logVars \/ (lPc[<<w, "run">>] = "idle" /\ PdLog(<<w, "run">>))
         /\ UNCHANGED sPc
<1>1. CASE WorkerLog(w)
  <2>1. UNCHANGED workerRest /\ UNCHANGED wPc /\ lPc[<<w, "run">>] = "idle" /\ PdLog(<<w, "run">>)
    BY <1>1 DEF WorkerLog, WorkerAt
  <2>2. ProcessInv'
    BY <2>1 DEF workerRest, optVars, ProcessInv, ProcessTypeOK, OptionsSoFar, MainSoFar, CommandLineWins
  <2> QED
    BY <2>1, <2>2 DEF workerRest
<1>2. CASE WorkerCrash(w)
  <2>1. /\ mPc' = "crashed" /\ UNCHANGED logVars
        /\ UNCHANGED <<rc, cmdLine, confFile, opts, krcb, dbStatus, dmsFile, wPc, forced, handlers,
                       signals, sPc>>
    BY <1>2 DEF WorkerCrash, optVars
  <2>2. ProcessInv'
    BY <2>1 DEF ProcessInv, ProcessTypeOK, OptionsSoFar, MainSoFar, CommandLineWins
  <2> QED
    BY <2>1, <2>2
<1>3. CASE ~WorkerLog(w) /\ ~WorkerCrash(w)
  <2>1. /\ UNCHANGED workerRest /\ UNCHANGED logVars
        /\ wPc' \in [Worker -> {"none", "run", "client", "request", "ended"}]
    BY <1>3 DEF WorkerStep, WorkerStart, WorkerCall, WorkerCalled, WorkerRequest, WorkerReply,
                WorkerEnd, WorkerGoto, ProcessInv, ProcessTypeOK
  <2>2. ProcessInv'
    BY <2>1 DEF workerRest, optVars, ProcessInv, ProcessTypeOK, OptionsSoFar, MainSoFar, CommandLineWins
  <2> QED
    BY <2>1, <2>2 DEF workerRest
<1> QED
  BY <1>1, <1>2, <1>3

\* A handler is entered and left outside of pdLog, and calls it once in between.
LEMMA HandlerInv ==
  ASSUME IInv, NEW t \in Thread, HandlerStep(t) \/ \E sig \in DOMAIN Handle : Signal(t, sig)
  PROVE  IInv' /\ logFile' = logFile
<1> DEFINE x == <<t, "signal">>
<1>0. x \in Ctx
  BY DEF Ctx
<1>1. CASE HandlerLog(t)
  <2>1. lPc[x] = "idle" /\ PdLog(x) /\ sPc' = [sPc EXCEPT ![t] = "set"]
    BY <1>1 DEF HandlerLog, IInv, HandlerLogsOnce
  <2>2. LogInv' /\ logFile' = logFile
    BY <1>0, <2>1, PdLogInv, PdLogFile DEF IInv
  <2>3. ProcessInv'
    BY <1>1, <2>1 DEF HandlerLog, optVars, IInv, ProcessInv, ProcessTypeOK, OptionsSoFar, MainSoFar,
                      CommandLineWins
  <2>4. \A y \in Ctx : y # x => lPc'[y] = lPc[y]
    BY <2>1 DEF PdLog, logVars, IInv, LogInv, LogTypeOK
  <2>5. ASSUME NEW u \in Thread, sPc'[u] # "set"
        PROVE  lPc'[<<u, "signal">>] = "idle"
    <3>1. u # t /\ sPc[u] # "set"
      BY <2>1, <2>5 DEF IInv, ProcessInv, ProcessTypeOK
    <3>2. <<u, "signal">> \in Ctx /\ <<u, "signal">> # x
      BY <3>1 DEF Ctx
    <3> QED
      BY <2>4, <3>1, <3>2 DEF IInv, HandlerLogsOnce
  <2> QED
    BY <2>2, <2>3, <2>5 DEF IInv, HandlerLogsOnce
<1>2. CASE HandlerSet(t)
  <2>1. LogInv' /\ logFile' = logFile /\ lPc' = lPc
    BY <1>2, QuietLog DEF HandlerSet, IInv, logVars
  <2>2. ProcessInv'
    BY <1>2 DEF HandlerSet, optVars, IInv, ProcessInv, ProcessTypeOK, OptionsSoFar, MainSoFar,
                CommandLineWins
  <2>3. HandlerLogsOnce'
    BY <1>2, <2>1 DEF HandlerSet, IInv, HandlerLogsOnce, ProcessInv, ProcessTypeOK
  <2> QED
    BY <2>1, <2>2, <2>3 DEF IInv
<1>3. CASE \E sig \in DOMAIN Handle : Signal(t, sig)
  <2>1. LogInv' /\ logFile' = logFile /\ lPc' = lPc
    BY <1>3, QuietLog DEF Signal, IInv, logVars
  <2>2. /\ signals < MaxSignals /\ signals' = signals + 1
        /\ mPc' \in {mPc, "killed"} /\ (sPc' = sPc \/ sPc' = [sPc EXCEPT ![t] = "log"])
        /\ sPc[t] = "none"
        /\ UNCHANGED <<rc, cmdLine, confFile, opts, krcb, dbStatus, dmsFile, wPc, forced, handlers>>
    BY <1>3 DEF Signal, optVars
  <2>3. ProcessInv'
    BY <2>2, BoundAssumption
       DEF IInv, ProcessInv, ProcessTypeOK, OptionsSoFar, MainSoFar, CommandLineWins
  <2>4. HandlerLogsOnce'
    BY <2>1, <2>2 DEF IInv, HandlerLogsOnce, ProcessInv, ProcessTypeOK
  <2> QED
    BY <2>1, <2>3, <2>4 DEF IInv
<1> QED
  BY <1>1, <1>2, <1>3 DEF HandlerStep

\* A thread that calls pdLog, or none, does not touch the handlers' calls.
LEMMA ThreadInv ==
  ASSUME IInv, ProcessInv', UNCHANGED sPc, NEW t \in Thread,
         UNCHANGED logVars \/ (lPc[<<t, "run">>] = "idle" /\ PdLog(<<t, "run">>))
  PROVE  IInv' /\ logFile' = logFile
<1> DEFINE x == <<t, "run">>
<1>1. x \in Ctx
  BY DEF Ctx
<1>2. LogInv' /\ logFile' = logFile
  BY <1>1, PdLogInv, PdLogFile, QuietLog DEF IInv
<1>3. \A y \in Ctx : y # x => lPc'[y] = lPc[y]
  BY DEF PdLog, logVars, IInv, LogInv, LogTypeOK
<1>4. \A u \in Thread : <<u, "signal">> \in Ctx /\ <<u, "signal">> # x
  BY DEF Ctx
<1>5. HandlerLogsOnce'
  BY <1>3, <1>4 DEF IInv, HandlerLogsOnce
<1> QED
  BY <1>2, <1>5 DEF IInv

\* Every step of the server keeps the invariant, and the log file only grows.
LEMMA StepInv ==
  ASSUME IInv, [Next]_vars
  PROVE  IInv' /\ IsPrefix(logFile, logFile')
<1>0. IsPrefix(logFile, logFile)
  BY DEF IsPrefix, IInv, LogInv, LogTypeOK
<1>1. CASE UNCHANGED vars
  <2>1. LogInv' /\ logFile' = logFile
    BY <1>1, QuietLog DEF vars, logVars, IInv
  <2>2. ProcessInv' /\ HandlerLogsOnce'
    BY <1>1 DEF vars, IInv, ProcessInv, ProcessTypeOK, OptionsSoFar, MainSoFar, CommandLineWins,
                HandlerLogsOnce
  <2> QED
    BY <1>0, <2>1, <2>2 DEF IInv
<1>2. CASE Main
  <2>1. "main" \in Thread
    BY DEF Thread
  <2>2. ProcessInv'
    BY <1>2, MainProcess DEF IInv
  <2> QED
    BY <1>0, <1>2, <2>1, <2>2, MainLogs, ThreadInv
<1>3. CASE Over
  BY <1>1, <1>3 DEF Over
<1>4. ASSUME NEW x \in Ctx, LogStep(x)
      PROVE  IInv' /\ IsPrefix(logFile, logFile')
  <2>1. LogInv' /\ IsPrefix(logFile, logFile')
    BY <1>4, LogStepInv DEF IInv
  <2>2. ProcessInv'
    BY <1>4, LogStepRest DEF IInv, ProcessInv, ProcessTypeOK, OptionsSoFar, MainSoFar, CommandLineWins
  <2>3. HandlerLogsOnce'
    <3>1. \A u \in Thread : <<u, "signal">> \in Ctx
      BY DEF Ctx
    <3> QED
      BY <1>4, <3>1, LogStepRest DEF IInv, HandlerLogsOnce
  <2> QED
    BY <2>1, <2>2, <2>3 DEF IInv
<1>5. ASSUME NEW w \in Worker, WorkerStep(w)
      PROVE  IInv' /\ IsPrefix(logFile, logFile')
  <2>1. w \in Thread
    BY DEF Thread
  <2>2. /\ ProcessInv'
        /\ UNCHANGED logVars \/ (lPc[<<w, "run">>] = "idle" /\ PdLog(<<w, "run">>))
        /\ UNCHANGED sPc
    BY <1>5, WorkerInv DEF IInv
  <2> QED
    BY <1>0, <2>1, <2>2, ThreadInv
<1>6. ASSUME NEW t \in Thread, HandlerStep(t) \/ \E sig \in DOMAIN Handle : Signal(t, sig)
      PROVE  IInv' /\ IsPrefix(logFile, logFile')
  BY <1>0, <1>6, HandlerInv
<1> QED
  BY <1>1, <1>2, <1>3, <1>4, <1>5, <1>6 DEF Next

-----------------------------------------------------------------------------
(* Theorems.                                                               *)

\* The invariant above holds in every run of the server.
THEOREM Invariance == Spec => []IInv
<1>1. Init => IInv
  <2> SUFFICES ASSUME Init PROVE IInv
    OBVIOUS
  <2> USE DEF Init
  <2>1. LogTypeOK
    <3>1. /\ lPc \in [Ctx -> {"idle", "get", "open", "write", "release"}]
          /\ line \in [Ctx -> Nat] /\ part \in [Ctx -> 0..Parts] /\ owner \in Ctx \cup {NoCtx}
      BY DEF Parts
    <3>2. <<0, 1>> \in Nat \X (1..Parts) /\ <<0, 2>> \in Nat \X (1..Parts)
      BY DEF Parts
    <3>3. logFile \in Seq(Nat \X (1..Parts)) /\ Len(logFile) = 2
      BY <3>2
    <3>4. isOpen \in BOOLEAN
      OBVIOUS
    <3> QED
      BY <3>1, <3>3, <3>4 DEF LogTypeOK
  <2>2. Len(logFile) = 2 /\ logFile[1] = <<0, 1>> /\ logFile[2] = <<0, 2>>
    OBVIOUS
  <2>3. MutexIsHeld /\ LinesApart /\ AtTheEnd
    BY NoCtxIsNone DEF MutexIsHeld, LinesApart, AtTheEnd
  <2>4. WrittenSoFar
    BY <2>2 DEF WrittenSoFar, Waiting
  <2>5. LogLinesWhole
    BY <2>2 DEF LogLinesWhole
  <2>6. ProcessInv
    <3>1. Unset \in [Opts -> Source]
      BY DEF Unset, Source
    <3>2. signals \in 0..MaxSignals
      BY BoundAssumption
    <3>3. forced \in BOOLEAN /\ handlers \in BOOLEAN
      OBVIOUS
    <3>4. /\ wPc \in [Worker -> {"none", "run", "client", "request", "ended"}]
          /\ sPc \in [Thread -> {"none", "log", "set"}]
      OBVIOUS
    <3>5. ProcessTypeOK
      BY <3>1, <3>2, <3>3, <3>4 DEF ProcessTypeOK
    <3> QED
      BY <3>5 DEF ProcessInv, OptionsSoFar, MainSoFar, CommandLineWins
  <2>7. HandlerLogsOnce
    BY DEF HandlerLogsOnce, Ctx
  <2> QED
    BY <2>1, <2>3, <2>4, <2>5, <2>6, <2>7 DEF IInv, LogInv
<1>2. IInv /\ [Next]_vars => IInv'
  BY StepInv
<1> QED
  BY <1>1, <1>2, PTL DEF Spec

\* Type correctness of the process, its options and its log, however many EDUs and
\* signals there are.
THEOREM TypeCorrect == Spec => []TypeOK
<1>1. IInv => TypeOK
  BY DEF IInv, LogInv, LogTypeOK, ProcessInv, ProcessTypeOK, TypeOK, Ended
<1> QED
  BY <1>1, Invariance, PTL

\* The parts of a log line stand together in the log file, however the ::write calls
\* of threads and handlers interleave and fail.
THEOREM LinesWhole == Spec => []LogLinesWhole
<1>1. IInv => LogLinesWhole
  BY DEF IInv, LogInv
<1> QED
  BY <1>1, Invariance, PTL

\* No step of the server overwrites or cuts what is in the log file.
THEOREM LogGrows == Spec => LogOnlyGrows
<1>1. IInv /\ [Next]_vars => [IsPrefix(logFile, logFile')]_vars
  BY StepInv
<1> QED
  BY <1>1, Invariance, PTL DEF Spec, LogOnlyGrows

\* A request that an EDU serves before main returns meets an initialised store.
THEOREM StoreIsReady == Spec => []ServesOnlyReady
<1>1. IInv => ServesOnlyReady
  BY DEF IInv, ProcessInv, MainSoFar, ServesOnlyReady
<1> QED
  BY <1>1, Invariance, PTL

\* The command line wins over the configuration file, for any set of options in both.
THEOREM CommandLineIsKept == Spec => []CommandLineWins
<1>1. IInv => CommandLineWins
  BY DEF IInv, ProcessInv
<1> QED
  BY <1>1, Invariance, PTL

====
