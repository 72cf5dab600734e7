------------------------------ MODULE DmsFile ------------------------------
(***************************************************************************)
(* The data file, class dmsFile: agents insert, find and remove records    *)
(* under the latch _mutex, extend the file by a segment under              *)
(* _extendMutex, and the process restarts and loads the file again.        *)
(*                                                                         *)
(* A step is one critical section of _mutex, or one part of _extendSegment *)
(* that runs outside of it.  The file is mapped MAP_SHARED, so that a page *)
(* in memory and the page in the file are the same.                        *)
(***************************************************************************)
EXTENDS DmsPage, FiniteSets, Bags

CONSTANTS
  Thread,            \* the agents
  NoThread,
  PagesPerSegment,   \* DMS_PAGES_PER_SEGMENT, 32 in the code
  MaxPages,          \* BOUND: the size at which the disk is full, in pages
  MaxRestart,        \* BOUND on restarts
  Fault              \* what may fail, of the next three

Faults == {"write",   \* a write of _extendFile, at any page
           "mmap",    \* the mapping of a segment that was written
           "crash"}   \* the process, within _extendSegment

ASSUME ThreadAssumption == NoThread \notin Thread
ASSUME SegmentAssumption == PagesPerSegment \in Nat \ {0}
ASSUME BoundAssumption == MaxPages \in Nat /\ MaxRestart \in Nat
ASSUME FaultAssumption == Fault \subseteq Faults

VARIABLES
  file,      \* the pages of the file behind its header, mapped or not
  hdrSize,   \* _header->_size, in the file: the number of pages
  body,      \* _body: for each segment, where in the file its first page is
  fsm,       \* _freeSpaceMap: a bag of pairs of free space and page id
  extLatch,  \* who holds _extendMutex
  pc, rec,   \* of each agent: its place in insert, and the record
  base,      \* of each agent: the file size _extendSegment read
  answer,    \* what each agent was told last
  restarts

vars == <<file, hdrSize, body, fsm, extLatch, pc, rec, base, answer, restarts>>

Pc == {"idle", "retry", "extend", "wait", "size", "grow", "map", "publish", "release", "waited"}
\* The ids there can be: a record takes more than its header and its slot.
Rid == (0..(MaxPages - 1)) \X (0..(PageSize \div (RecordHeaderSize + SlotSize)))

Init ==
  /\ file = <<>> /\ hdrSize = 0 /\ body = <<>> /\ fsm = EmptyBag
  /\ extLatch = NoThread
  /\ pc = [t \in Thread |-> "idle"]
  /\ rec = [t \in Thread |-> Empty]
  /\ base = [t \in Thread |-> 0]
  /\ answer = [t \in Thread |-> <<"none">>]
  /\ restarts = 0

\* insert returns: rc, and its local variables are gone.
Return(t, a) ==
  /\ answer' = [answer EXCEPT ![t] = a]
  /\ pc' = [pc EXCEPT ![t] = "idle"]
  /\ rec' = [rec EXCEPT ![t] = Empty]
  /\ base' = [base EXCEPT ![t] = 0]

Goto(t, place) == pc' = [pc EXCEPT ![t] = place]
Tell(t, a) == answer' = [answer EXCEPT ![t] = a]

-----------------------------------------------------------------------------
(* Pages and the free space map.                                           *)

NumPages == Len(body) * PagesPerSegment

\* pageToOffset, as an index of file.
At(p) == body[(p \div PagesPerSegment) + 1] + (p % PagesPerSegment) + 1
Page(p) == file[At(p)]

\* _findPage: upper_bound, the first entry with more free space than required.
\* Of entries with the same free space any one may come first.
FindPage(size) ==
  LET more == {e \in BagToSet(fsm) : e[1] > size}
  IN {e[2] : e \in {e \in more : \A f \in more : e[1] <= f[1]}}

\* _updateFreeSpace: the entry of page p moves, if there is one.
UpdateFreeSpace(p, old, new) ==
  fsm' = (fsm (-) SetToBag({<<old, p>>})) (+) SetToBag({<<new, p>>})

-----------------------------------------------------------------------------
(* insert.                                                                 *)

\* The record is too big, or has no _id.
InsertInvalid(t) ==
  /\ pc[t] = "idle"
  /\ \E b \in Body : BodySize[b] > MaxRecord \/ b \notin HasId
  /\ Tell(t, <<"insert", "INVALIDARG">>)
  /\ UNCHANGED <<file, hdrSize, body, fsm, extLatch, pc, rec, base, restarts>>

InsertBegin(t) ==
  /\ pc[t] = "idle"
  /\ \E b \in HasId : BodySize[b] <= MaxRecord /\ rec' = [rec EXCEPT ![t] = b]
  /\ Goto(t, "retry")
  /\ UNCHANGED <<file, hdrSize, body, fsm, extLatch, base, answer, restarts>>

Found(t) == FindPage(BodySize[rec[t]] + RecordHeaderSize)

\* Under the latch: no page has the space, the latch is dropped.
InsertNoPage(t) ==
  /\ pc[t] = "retry"
  /\ Found(t) = {}
  /\ Goto(t, "extend")
  /\ UNCHANGED <<file, hdrSize, body, fsm, extLatch, rec, base, answer, restarts>>

\* Under the latch: the page is not a page, or still has no room for the record
\* after _recoverSpace.
InsertSysError(t) ==
  /\ pc[t] = "retry"
  /\ \E p \in Found(t) :
       IF p >= NumPages \/ ~Page(p).valid THEN UNCHANGED file
       ELSE LET pg == Recovered(Page(p), rec[t])
            IN ~HasRoom(pg, rec[t]) /\ file' = [file EXCEPT ![At(p)] = pg]
  /\ Return(t, <<"insert", "SYS">>)
  /\ UNCHANGED <<hdrSize, body, fsm, extLatch, restarts>>

\* Under the latch: the record is stored.
InsertStore(t) ==
  /\ pc[t] = "retry"
  /\ \E p \in Found(t) :
       /\ p < NumPages /\ Page(p).valid
       /\ LET pg  == Recovered(Page(p), rec[t])
              new == StoreRecord(pg, rec[t])
          IN /\ HasRoom(pg, rec[t])
             /\ file' = [file EXCEPT ![At(p)] = new]
             /\ UpdateFreeSpace(p, pg.freeSpace, new.freeSpace)
             /\ Return(t, <<"insert", "OK", <<p, NumSlots(pg)>>, rec[t]>>)
  /\ UNCHANGED <<hdrSize, body, extLatch, restarts>>

\* Variant: the segment is extended without _extendMutex.
TryExtend_NoLatch(t) ==
  /\ pc[t] = "extend"
  /\ Goto(t, "size")
  /\ UNCHANGED <<file, hdrSize, body, fsm, extLatch, rec, base, answer, restarts>>

\* try_get of _extendMutex: when somebody else has it, wait for him.
TryExtend(t) ==
  /\ pc[t] = "extend"
  /\ IF extLatch = NoThread THEN extLatch' = t /\ Goto(t, "size")
     ELSE UNCHANGED extLatch /\ Goto(t, "wait")
  /\ UNCHANGED <<file, hdrSize, body, fsm, rec, base, answer, restarts>>

\* get: who waited holds the latch himself until he releases it.
ExtendWaited(t) ==
  /\ pc[t] = "wait"
  /\ extLatch = NoThread
  /\ extLatch' = t
  /\ Goto(t, "waited")
  /\ UNCHANGED <<file, hdrSize, body, fsm, rec, base, answer, restarts>>

\* The segment's place is the size the file has before it is extended.
ExtendSize(t) ==
  /\ pc[t] = "size"
  /\ base' = [base EXCEPT ![t] = Len(file)]
  /\ Goto(t, "grow")
  /\ UNCHANGED <<file, hdrSize, body, fsm, extLatch, rec, answer, restarts>>

\* _extendFile wrote the segment.
ExtendGrow(t) ==
  /\ pc[t] = "grow"
  /\ Len(file) + PagesPerSegment <= MaxPages
  /\ file' = file \o [i \in 1..PagesPerSegment |-> ZeroPage]
  /\ Goto(t, "map")
  /\ UNCHANGED <<hdrSize, body, fsm, extLatch, rec, base, answer, restarts>>

\* Variant: insert tries again when _extendSegment failed.
ExtendFail_Retries(t, rc) ==
  /\ extLatch' = NoThread
  /\ Goto(t, "retry")
  /\ UNCHANGED <<hdrSize, body, fsm, rec, base, answer, restarts>>

ExtendFail(t, rc) ==
  /\ extLatch' = NoThread
  /\ Return(t, <<"insert", rc>>)
  /\ UNCHANGED <<hdrSize, body, fsm, restarts>>

\* The size cannot be read, a write fails, or the disk is full; what was written stays.
ExtendWriteFails(t) ==
  /\ pc[t] = "grow"
  /\ "write" \in Fault \/ Len(file) + PagesPerSegment > MaxPages
  /\ \E n \in 0..(PagesPerSegment - 1) :
       /\ Len(file) + n <= MaxPages
       /\ file' = file \o [i \in 1..n |-> ZeroPage]
  /\ ExtendFail(t, "IO")

ExtendMapFails(t) ==
  /\ pc[t] = "map"
  /\ "mmap" \in Fault
  /\ ExtendFail(t, "OOM")
  /\ UNCHANGED file

\* Variant: the first page of the segment is left out.
ExtendFormat_SkipsFirst(t) ==
  /\ pc[t] = "map"
  /\ file' = [i \in DOMAIN file |->
                IF i \in (base[t] + 2)..(base[t] + PagesPerSegment) THEN FormattedPage ELSE file[i]]
  /\ Goto(t, "publish")
  /\ UNCHANGED <<hdrSize, body, fsm, extLatch, rec, base, answer, restarts>>

\* The segment is mapped and its pages get their headers, without the latch.
ExtendFormat(t) ==
  /\ pc[t] = "map"
  /\ file' = [i \in DOMAIN file |->
                IF i \in (base[t] + 1)..(base[t] + PagesPerSegment) THEN FormattedPage ELSE file[i]]
  /\ Goto(t, "publish")
  /\ UNCHANGED <<hdrSize, body, fsm, extLatch, rec, base, answer, restarts>>

\* Variant: the page ids start again at 0, as those of _loadData do.
ExtendPublish_FromZero(t) ==
  /\ pc[t] = "publish"
  /\ fsm' = fsm (+) SetToBag({<<FormattedPage.freeSpace, i>> : i \in 0..(PagesPerSegment - 1)})
  /\ body' = Append(body, base[t])
  /\ hdrSize' = hdrSize + PagesPerSegment
  /\ base' = [base EXCEPT ![t] = 0]
  /\ Goto(t, "release")
  /\ UNCHANGED <<file, extLatch, rec, answer, restarts>>

\* Under the latch: the segment joins _body and its pages the free space map.  The
\* first page id is the number of entries the map had.
ExtendPublish(t) ==
  /\ pc[t] = "publish"
  /\ LET first == FoldFunction(+, 0, fsm)
     IN fsm' = fsm (+) SetToBag({<<FormattedPage.freeSpace, first + i>> : i \in 0..(PagesPerSegment - 1)})
  /\ body' = Append(body, base[t])
  /\ hdrSize' = hdrSize + PagesPerSegment
  /\ base' = [base EXCEPT ![t] = 0]
  /\ Goto(t, "release")
  /\ UNCHANGED <<file, extLatch, rec, answer, restarts>>

\* The release after an extension, or after waiting for one; and retry.
ExtendRelease(t) ==
  /\ pc[t] \in {"release", "waited"}
  /\ extLatch' = NoThread
  /\ Goto(t, "retry")
  /\ UNCHANGED <<file, hdrSize, body, fsm, rec, base, answer, restarts>>

Insert(t) ==
  \/ InsertNoPage(t) \/ InsertSysError(t) \/ InsertStore(t) \/ TryExtend(t) \/ ExtendWaited(t)
  \/ ExtendSize(t) \/ ExtendGrow(t) \/ ExtendWriteFails(t) \/ ExtendMapFails(t) \/ ExtendFormat(t)
  \/ ExtendPublish(t) \/ ExtendRelease(t)

-----------------------------------------------------------------------------
(* find, remove, and the restart of the process.                           *)

\* The ids insert has given out.
Given == UNION {{p} \X (0..(NumSlots(Page(p)) - 1)) : p \in 0..(NumPages - 1)}

Lookup(r) == FindInPage(Page(r[1]), r[2])

\* find, of an id that insert gave out: the record was removed, or is found.
FindRecord(t) ==
  /\ pc[t] = "idle"
  /\ \E r \in Given :
       Tell(t, IF Lookup(r) = Empty THEN <<"find", "SYS", r>> ELSE <<"find", "OK", r, Lookup(r)>>)
  /\ UNCHANGED <<file, hdrSize, body, fsm, extLatch, pc, rec, base, restarts>>

RemoveRecord(t) ==
  /\ pc[t] = "idle"
  /\ \E r \in Given :
       IF Lookup(r) = Empty
       THEN Tell(t, <<"remove", "SYS", r>>) /\ UNCHANGED <<file, fsm>>
       ELSE LET old == Page(r[1])
                new == DropRecord(old, r[2])
            IN /\ file' = [file EXCEPT ![At(r[1])] = new]
               /\ UpdateFreeSpace(r[1], old.freeSpace, new.freeSpace)
               /\ Tell(t, <<"remove", "OK", r>>)
  /\ UNCHANGED <<hdrSize, body, extLatch, pc, rec, base, restarts>>

Extending == \E t \in Thread : pc[t] \in {"size", "grow", "map", "publish"}

\* _loadData: page k of every segment is entered with the page id k.
LoadedMap(segs) ==
  LET entry(i) == <<file[i + 1].freeSpace, i % PagesPerSegment>>
      pages == 0..(segs * PagesPerSegment - 1)
  IN [e \in {entry(i) : i \in pages} |-> Cardinality({i \in pages : entry(i) = e})]

\* The process ends and starts again: initialize and _loadData.  The segments are
\* looked for one behind the other from the start of the file.
Restart ==
  /\ restarts < MaxRestart
  /\ Extending => "crash" \in Fault
  /\ restarts' = restarts + 1
  /\ LET segs == hdrSize \div PagesPerSegment
     IN /\ body' = [i \in 1..segs |-> (i - 1) * PagesPerSegment]
        /\ fsm' = LoadedMap(segs)
  /\ extLatch' = NoThread
  /\ pc' = [t \in Thread |-> "idle"]
  /\ rec' = [t \in Thread |-> Empty]
  /\ base' = [t \in Thread |-> 0]
  /\ UNCHANGED <<file, hdrSize, answer>>

Next ==
  \/ \E t \in Thread : \/ InsertInvalid(t) \/ InsertBegin(t) \/ Insert(t)
                       \/ FindRecord(t) \/ RemoveRecord(t)
  \/ Restart

Spec == Init /\ [][Next]_vars

\* An agent that has begun to insert goes on, and gets the latches in the end.
\* Nobody has to call anything.
Fairness == \A t \in Thread : WF_vars(Insert(t))
FairSpec == Spec /\ Fairness

-----------------------------------------------------------------------------
(* Correctness.                                                            *)

\* Every variable has its type, and every page is a page.
TypeOK ==
  /\ \A i \in DOMAIN file :
       /\ file[i].valid \in BOOLEAN
       /\ \A f \in {"slotOffset", "freeSpace", "freeOffset"} : file[i][f] \in 0..PageSize
       /\ \A s \in Live(file[i]) : file[i].slot[s].off \in 0..PageSize /\ file[i].slot[s].size \in 1..PageSize
  /\ Len(file) <= MaxPages /\ hdrSize \in 0..MaxPages
  /\ body \in Seq(0..MaxPages) /\ IsABag(fsm)
  /\ extLatch \in Thread \cup {NoThread}
  /\ pc \in [Thread -> Pc] /\ rec \in [Thread -> Body \cup {Empty}] /\ base \in [Thread -> 0..MaxPages]
  /\ restarts \in 0..MaxRestart

\* The pages agents can get at have been formatted, are in the file and are as many
\* as the header says, whatever an extension under way or a failed one has done.
PublishedIsFormatted ==
  /\ hdrSize = NumPages
  /\ \A p \in 0..(NumPages - 1) : At(p) \in DOMAIN file /\ Page(p).valid
  /\ \A i, j \in DOMAIN body : i < j => body[i] + PagesPerSegment <= body[j]

\* The free space map has one entry for every page, and it is the free space that
\* the header of the page states, though two agents insert, remove and extend in any
\* order: a segment's page ids start at the number of entries, which is right only as
\* long as no insert, remove or failed extension has lost or added one.
MapMatchesPages ==
  fsm = [e \in {<<Page(p).freeSpace, p>> : p \in 0..(NumPages - 1)} |-> 1]

\* No page's header is at odds with its slots and records.
PagesAccount == \A p \in 0..(NumPages - 1) : PageAccounts(Page(p))

\* No record is ever written over, by an insert or by _recoverSpace.
RecordsAreApart == \A p \in 0..(NumPages - 1) : RecordsApart(Page(p))

\* The store dmsFile promises: the records its pages hold by id.
Store == INSTANCE RecordStore WITH
  Client <- Thread, Record <- Body, Gone <- Empty,
  store <- [r \in Given |-> Lookup(r)]

\* insert, find and remove do to the records what the abstract store says, and
\* nothing else does anything to them: no extension, no recovery of space, no
\* failure of an extension, and no restart.
ImplementsRecordStore == Store!Spec

\* An insert comes to its end, whoever extends or fails to, unless one of two things
\* goes on for ever: inserts of other agents ending, as new ones take the space; or
\* other agents holding the latch of extensions only because they waited for it.
\* While one of these holds it try_get fails, and its caller waits and then holds it
\* in his turn: two agents can go on like this with nobody extending.
InsertReturns ==
  \A t \in Thread :
    \/ []<>(pc[t] = "idle")
    \/ \E u \in Thread \ {t} : \/ []<><<pc[u] # "idle" /\ pc'[u] = "idle">>_vars
                             \/ []<><<ExtendWaited(u)>>_vars

-----------------------------------------------------------------------------
(* What comments of the source say and the code does not do.               *)

\* dms.cpp, line 429: every page is in the free space map after the start too.
EveryPageIsLoaded ==
  \A p \in 0..(NumPages - 1) : <<Page(p).freeSpace, p>> \in BagToSet(fsm)

====
