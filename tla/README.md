# A TLA+ verification of emeralddb

emeralddb is a small document database: a server process with a pool of threads,
one agent thread per client connection, and one data file that is mapped into
memory. This directory holds TLA+ models of its parts: the thread pool, the data
file, a client session over its socket, the server process with its log and
signals, and the BSON documents everything is made of; the TLC configurations that
check them; and TLAPS proofs about the first four.

`PROJECT.json` has the same facts in tabular form: which definition models which
source lines, what each run checks, the findings and the hazards.

## 1. Inventory of the system

| Component | State | Operations | Correct when |
|---|---|---|---|
| EDU manager (`pmd/pmdEDUMgr.*`) | run and idle queue, next id, `_isQuiesced`, `_isDestroyed`, one read-write latch | `startEDU`, `_createNewEDU`, `returnEDU`, `_deactivateEDU`, `_destroyEDU`, `activateEDU`, `waitEDU`, `_destroyAll` | queues agree with statuses, the pool has a limit, no block is used after it is deleted, no connection is lost, shutdown ends and is complete |
| EDU control block and loop (`pmd/pmdEDU.*`, `ossQueue.hpp`) | type, status, forced flag, event queue | `waitEvent`, `postEvent`, `pmdEDUEntryPoint`, `pmdRecv`, `pmdSend` | every event is handled once, by the EDU it was meant for |
| Tcp listener (`pmd/pmdTcpListener.cpp`) | the listening socket | accept, start an agent, refuse, restart the socket | an accepted connection is served or closed |
| Agent (`pmd/pmdAgent.cpp`) | socket, receive and result buffer | receive, process by op code, reply | one session per socket, socket always closed, buffers hold what is put into them, a reply says what happened |
| Main (`pmd/pmdMain.cpp`, `pmd/pmd.*`) | database status, handlers, the control block `EDB_KRCB` | start, signal, destructors | shutdown on a signal, no service after a failed start |
| Data file (`dms/dms.cpp`) | header, segments, pages, free space map, `_mutex`, `_extendMutex` | `insert`, `find`, `remove`, `_extendSegment`, `_recoverSpace`, `_loadData` | a record inserted is found by its id until it is removed, restarts included |
| Run time (`rtn/rtn.cpp`) | the data file | `rtnInitialize`, `rtnInsert`; `rtnFind` and `rtnRemove` are empty | passes on what it is asked |
| Messages (`msg/msg.cpp`) | none | build and extract | extracting what was built gives it back, the buffer is large enough |
| Sockets (`oss/ossSocket.cpp`) | descriptor | connect, accept, send and receive in parts with a timeout | whole transfer or an error |
| Files, latches (`oss/`) | descriptors, locks | loops over partial transfers | whole transfer or an error |
| Client (`client/`) | connection, send and receive buffer | parse a command, send, wait for the reply | what it reports is what happened |
| Log (`pd/pd.cpp`) | log file, `_pdLogMutex` | `pdLog` | lines are whole, nothing is overwritten, the caller comes back |
| Options (`pmdOptions`) | option values | command line, then configuration file, then command line | the command line wins |
| BSON (`bson/`) | documents, builders on one buffer | build, iterate, look up, compare, print and parse JSON | what was built is read back, a printed text parses to the document, comparisons are orders |

How they interact: the main thread starts the listener EDU with `startEDU`. The
listener calls `startEDU` for every accepted socket, which takes an idle EDU from
the pool or creates a thread, and posts a RESUME event with the socket to the
control block's queue. The EDU's thread wakes up, runs the agent on the socket,
and returns the EDU to the pool or destroys it. Agents call `rtn`, which calls the
data file; this is the one place where agents meet each other. A signal sets the
database status, main returns, and the manager's destructor runs `_destroyAll`,
which forces all EDUs and waits for them.

What is hard: the manager's latch is dropped between steps that belong together
(test of quiesce and insertion, choice of an EDU and post to it, `size()` and
pooling); statuses and flags are written without it; waits time out while events
arrive; the data file's latch is dropped while the file grows; failures leave
parts of a segment behind; page headers, slots, records and the free space map
hold the same facts several times; a message goes over the wire in parts, and
either side may stop, time out or be reset at any of them; signal handlers run in
the middle of any thread and take a mutex; nested builders share a buffer that
moves, and an exception leaves them in any state. `PROJECT.json` lists these as hazards, each at
its line.

## 2. Modules

| Module | Content |
|---|---|
| `EDUMgr` | EDU manager, control blocks, thread loop, listener, agent session, main thread and shutdown, composed in one module because they share the manager's state |
| `EDUMgrProofs` | the inductive invariant of `EDUMgr` and its theorems |
| `EDUHandoverProofs` | what becomes of an accepted connection and what is left at the end, on top of `EDUMgrProofs` |
| `EDUMovesProofs` | the lives of control blocks and of sockets, on top of `EDUHandoverProofs` |
| `MCEDUMgr` | small instances |
| `DmsPage` | a data page: layout, recovery of space, storing and dropping a record, as operators on records |
| `DmsFile` | the data file: concurrent inserts, extension by a segment, find, remove, restart |
| `RecordStore` | the abstract store the data file implements |
| `DmsPageProofs` | sums over the records of a page, and what insert, remove and `_recoverSpace` do to any page |
| `DmsFileProofs` | the inductive invariant of `DmsFile`, its theorems and its refinement of `RecordStore` |
| `MCDmsFile` | small instances |
| `Msg` | the messages: every build and extract function, as operators on a buffer |
| `Session` | shell, sockets and agent, composed over the byte streams of a connection |
| `SessionProofs` | the inductive invariant of `Session` and its theorems |
| `MCSession` | small instances |
| `Server` | the process from `main` to exit: options, control block, log, signals, workers |
| `ServerProofs` | the inductive invariant of `Server` and its theorems |
| `MCServer` | small instances |
| `BsonElement` | one element: types, accessors, how two elements and two sequences of them compare; no RECURSIVE operator |
| `Bson` | a document as elements and as bytes: layout, sizes, validation, iteration, look-up |
| `BsonOrder` | the comparisons of documents, sort keys and field names |
| `BsonOrderProofs` | elements and documents of every length and depth are totally ordered |
| `BsonJson` | builders on a shared buffer, the JSON printer and the parser that drives them |
| `MCBson` | small documents |

A definition named `X_Y` (for example `Post_NoEvent`) with a comment that begins
with "Variant" is a wrong form of `X`: it stands for a plausible mistake in the
code, is used by no specification, and serves to show that a property would notice.

### EDUMgr

One step is one critical section of the manager's latch, or one access outside it
to something another thread uses. `run` and `idle` are the key sets of the two
maps; `type`, `status`, `forced` and `queue` are the fields of each control block;
`pc`, `isForced`, `data` are the place and locals of each thread; `callPc`,
`callEdu`, `callArg` those of a `startEDU` call. There are two callers, the main
thread and the listener, so a call is indexed by its caller. `conn` follows each
client's socket. `SizeCheck` and `DeactivateEDU` are two steps because `size()`
takes and drops the latch by itself.

Abstractions:

* A deleted control block has the status DESTROY. Posting to it is undefined
  behaviour in C++; the outcome modelled is that the event is lost.
* When `boost::thread` throws, the block is erased from the run queue without the
  latch. The erase is one step; a data race inside `std::map` is not modelled.
* The listener's counter of socket restarts is the choice to give up (`LsnGiveUp`).
* An agent in its session polls (`agtPoll`), waits in `select` with a timeout
  (`agtRecv`), waits in `::recv` without one (`agtRead`), is in a request (`agtWork`),
  or in `::send` (`agtWrite`). Which piece of a message it is at is not kept: any
  piece may be the length or complete the request. What a request does is in
  `Session`; it does not touch the EDU. The polls of `pmdSend` are part of `agtWork`.
* EDU ids come from the finite set `EDU`. When they are used up `_createNewEDU`
  can only take its out-of-memory branch, which the code has anyway.
* `forceUserEDU`, `postEDUPost`, `waitEDUPost`, `setEDU`, `getEDU` and
  `regSystemEDU` have no caller and are no actions. Because the last one has none
  the map of system EDUs is empty (`SystemEDUs`).
* `EDB_KRCB::init` has already run; start-up is in `Server`.

### DmsPage and DmsFile

A page is a record of its header fields and its slots. A slot holds the offset and
size of its record and what is found there; writing bytes over a record
(`Overwrite`) turns what is found into `Garbage`, so a wrong move or a wrong
offset shows up as damage. Sizes are real byte counts, with a small page: header
sizes are those of the C structures. A step of `DmsFile` is a critical section of
`_mutex`, or a part of `_extendSegment` outside of it: reading the size, writing
the segment, formatting it, publishing it. The file is mapped shared, so a page in
memory and in the file are one. `body` has, per segment, the place in the file it
is mapped from.

Abstractions: BSON documents are model values with a size and with or without
`_id`; writes end at page boundaries; of several entries of the free space map
with equal space any may be found first; the bytes behind the last slot are
`Garbage`; a restart reloads the file as it is (a kill of the process, not the
loss of written pages). A restart in the middle of an extension needs the fault
"crash". Initialisation of a new file is the initial state.

### Msg and Session

`Session` has one step per system call on a socket, per look at a flag another
thread sets, or for the work between two of them. A direction of a connection is a
sequence of chunks: `::send` may take a message in parts, and the parts modelled
end in the middle of the length field, behind it, and at the end, which are the
places where the readers' states differ. A stream ends with `FIN` (close) or `RST`
(close with unread data, or `NetBreak`, a network that fails). `cPc` is the place
of the shell in `execute`, `sendOrder`, `recvReply` and `handleReply`; `aPc` that of
an agent in `pmdRecv`, the work and `pmdSend`, where the polls look at the force
flag. Buffers have a size, and a message its real length, from `Msg`. `Process` is
`pmdProcessAgentRequest` by op code: an insert needs an object with `_id`; a query
returns an empty object, because `rtnFind` does nothing; a delete is refused,
because it is extracted with `msgExtractQuery` (`pmdAgent.cpp:121`).

Abstractions: one shell, one request at a time, as in the code; documents are
`"id"`, `"noId"`, text that does not parse, and none; the snapshot's figures are one
object of its size; a reply whose buffer could not grow is what was in the buffer
before, and for a fresh buffer bytes that look like a reply with an error (`Junk`);
`PMD_AGENT_RECEIVE_BUFFER_SZ` is a constant. `execs`, `stored`, `answered` and
`unbuilt` are history.

### Server

A context is a thread or the signal handler on top of it; a thread does not go on
before its handler returns, which is what makes the wait for a mutex held below it
a deadlock. A log line goes out in two parts, of which a write may do one.
`opts` and `krcb` say for each option where its value comes from, not what it is.
The workers stand for all EDUs: they wait in a call for their client (`::recv` and
`::send` have no timeout), make requests, log, and end where they see that they are
forced; `EDUMgr` has the details. A request that runs when the data file has been
deleted is undefined behaviour: it may return, never return, or end the process
(`WorkerCrash`). The destructors run in the order the members of
`EDB_KRCB` give: `DestroyRtn`, then `ForceEDUs`, then `DestroyEduMgr`. One handler
at a time runs on a thread; a second signal that interrupts a handler would find the
same mutex.

### BsonElement, Bson, BsonOrder, BsonJson

An element is `<<type, name, value>>`, a document a sequence of them. `Bytes` lays
it out; a number or length is its value in the first cell and padding in the rest,
so that every offset and size is the code's. `Elements`, `size` and `validate` read
the cells, by the type byte, as the code does. Characters are their codes. A double is counted in halves
(so that 1.5 exists), with `Inf` and `NaN`; beyond `Mantissa` only even ones are
exact, as doubles are beyond 2^53. In `BsonJson` the environment picks a document
and a way to make it: calls of the builder, or the parse of what `jsonString` prints
in one of three formats. The text is a sequence of tokens, and may lose its end, as
the shell's `split` at blanks makes it do. `builders` is `ObjectBuilder`'s vector;
each step is one semantic action of the grammar. The grammar's alternatives are
tried in its order; the comment in `json.cpp:427` about actions called twice does
not come into play, because values are appended only when their rule has matched.

What the printed text keeps of a value is in the model where the code loses
something: the 16 digits of a double (`Rounded`; `PrintLimit` stands for 10^15, where
no digit is left for a half), the flags `g`, `i` and `m` of a regular expression
outside of the strict format, the ns of a DBRef up to its first NUL and without
escapes, the digits of a BinData sub-type. A text no rule of the grammar matches is
a "broken" token.

Abstractions: the parser of numbers, a library's, is taken to return the double next
to the text; doubles finer than halves are not in the model; a ns with `\u` is not
among the inputs, and one with a quote that happens to complete the notation itself
is broken like the others.

Sizes are small: the buffer begins with 12 + 4 cells, doubles or grows by 4 more
than needed, and ends at 64, instead of 512, 16 KB and 64 MB.

## 3. Runs

Passing runs:

| Run | Instance | Shows |
|---|---|---|
| `edu_pool` | 4 EDU ids, 3 connections, pool of 2 | `TypeOK`, `QueuesMatchStatus`, `OneWork`, `PoolBound`, `ThreadHasBlock`, `DestroyAllIsComplete`, `HandedIsKept`, `OpenIsOwned`, `LifeCycles` |
| `edu_live` | 3 EDU ids, 2 connections | `ShutdownCompletes`, `AcceptedIsAnswered` |
| `dms_store` | 1 agent, records of 2 sizes and one without `_id`, a segment of 2 pages, 1 restart | `PagesAccount`, `RecordsAreApart`, `ImplementsRecordStore` |
| `dms_shared` | 2 agents, 2 record sizes, 2 segments of 1 page, failing extensions | `TypeOK`, `PublishedIsFormatted`, `MapMatchesPages`, `ImplementsRecordStore` |
| `dms_live` | 2 agents, a disk that fills up, failing extensions | `InsertReturns` |
| `session` | 1 connection, 2 requests, all commands and arguments, a buffer of 32 | `TypeOK`, `StreamsInSync`, `BuffersHold`, `ExtractInvertsBuild`, `ReplyIsForRequest`, `AckIsTrue`, `AtMostOnce`, `CommandReturns`, `ForcedAgentEnds` |
| `server` | main and 1 worker, 2 options, 2 signals, 2 lines | `TypeOK`, `LogLinesWhole`, `ServesOnlyReady`, `CommandLineWins`, `LogOnlyGrows`, `LogReturns`, `ShutdownEnds` |
| `bson` | documents of up to two elements of every type and three levels, four ways to make them; 15 documents, 13 names, 4 keys to compare with | `BuildersShow`, `RoundTrip`, `UnwindIsSafe`, `OrderIsTotal`, `SortKeysAgree` |

What the properties about connections, of the liveness runs and of the last three runs mean:

* `OpenIsOwned`: no descriptor leaks. An accepted socket is the argument of the
  listener's open `startEDU` call, a socket that was taken up belongs to an agent in
  its session; both hold through calls that fail and agents that are forced.
* `LifeCycles`: what one step may do to a control block and to a socket. A block at
  work is neither pooled nor deleted, a deleted one never comes back; a socket is
  handed on once, taken up by one agent and closed once. The moves are those of the
  code. The table at the top of `pmdEDUMgr.cpp` (lines 13 to 18) has two fewer: only a
  RUNNING EDU may become WAITING there, while `waitEvent` sets it for a CREATING one
  (`pmdEDU.hpp:63`) and `startEDU` for an IDLE one (`pmdEDUMgr.cpp:349`).
* `ShutdownCompletes`, `AcceptedIsAnswered`: the shutdown ends although EDUs are started
  after a round of forcing or miss one, and no accepted connection waits for ever.
* `StreamsInSync`: the next byte on a stream is the one its reader is at. One byte
  too many or too few anywhere and every later message of the session is misread.
* `BuffersHold`: the receive buffer holds the packet and the zero behind it; a reply
  is not longer than its buffer. `ExtractInvertsBuild`: whatever the result buffer
  has been through, each builder fills it with a message only its own extractor
  accepts, and takes apart into what was put in.
* `ReplyIsForRequest`, `AckIsTrue`, `AtMostOnce`: end to end, through timeouts,
  resets and forced agents. The first two except replies the agent could not build
  and does not notice (`pmdAgent.cpp:175`), the second also what `ReportedIsStored`
  shows.
* `CommandReturns`, `ForcedAgentEnds`: nobody waits for ever, if a client that has begun
  a message sends on.
* `LogLinesWhole`, `LogOnlyGrows`, `LogReturns`: the log under threads, handlers and failing opens and writes.
* `ServesOnlyReady`, `ShutdownEnds`: start-up that fails half way, and the end. The
  second, like `ShutdownCompletes`, names what the code lets hold up the shutdown.
* `CommandLineWins`: the two imports of options.
* `BuildersShow`: in the middle of building, `iterator()` of the innermost open
  builder shows exactly the elements appended to it, and the bytes of each outer one,
  up to the header of the open sub-builder, are still its elements, although all share
  one buffer that moves. `iterator()` of an outer builder runs on into that header,
  whose size is not written yet (`bson-inl.h:289`); nothing in the code calls it then.
* `RoundTrip`: what calls built is the document; what is parsed from the printed text
  compares equal to it, if every element is printed faithfully; a cut text is refused.
  `Faithful` lists what is not: types `jsonString` prints nothing, code or a nested
  object for, reserved names, doubles of more than 16 digits, flags of a regular
  expression that are dropped or are no letters, a DBRef's ns with a quote, a backslash
  or a control character, and BinData sub-types from 128 on. Documents with these are
  among the inputs; for them only the other parts of the property are asked.
* `UnwindIsSafe`: an exception in the parser leaves no builder that writes to the
  freed buffer.
* `OrderIsTotal`: reflexive, antisymmetric, transitive, for documents with all types
  whose longs a double can hold, and for field names with numbers in them.
  `SortKeysAgree`: the three implementations of sorting by a key, for all documents.
  They agree on missing fields; on an empty document they do not (below), and the
  property says what each gives.

Why the bounds are enough: the listener counts in `size()`, so with it and three
agents a pool of two is too small for all: EDUs are pooled, reused and destroyed
for lack of room, and two can be between `size()` and pooling at once when the
listener has given up. `ForcePeriod` is 2 instead of 50: what matters is that there
are rounds that force and rounds that do not. Connections and agents are
interchangeable, and `edu_pool` and `dms_shared` use that symmetry; the liveness
runs do not. The pages of `dms_store` and `dms_shared` hold two or three records,
so that records of different sizes can be removed and leave holes that are too
small, big enough, or recovered; those of `dms_live` hold one small record and no
large one, so that extensions that do not help are met as well. There are two
segments where extensions race and two pages where the choice of a page matters. In `dms_shared` each agent may be the one that adds the second segment, whose
first page id, the number of entries in the map, is then 1, and inserts, removes and
failed extensions of the other come before and in between: that is what
`MapMatchesPages` is about. `dms_store` restarts with one segment only: with two, the code loses the
free space map (finding `EveryPageIsLoaded`).

`session` has a buffer of 32 bytes so that an insert of 34 makes it grow and a query
of 30 does not; two requests are enough for the second to meet what the first left
behind (an unread reply, a grown buffer, a closed socket). Two connections, with
inserts only, were checked by hand as well (1.1 million states) and are not a run. In
`server` two signals can reach two threads, or one thread twice; two lines make the
log file be opened, cut and opened again. In `bson` the limits (int, mantissa, printed
digits, buffer) lie among the values, so that each is met from both sides.

Runs that show a disagreement of the code with what its comments and messages say,
each with one property and a finding in `PROJECT.json`:

| Property | What happens |
|---|---|
| `StartedIsKept` | during shutdown an event is posted to an EDU that has gone; its socket is never closed |
| `EveryPageIsLoaded` | after a restart the pages of later segments are not in the free space map |
| `ReportedIsStored` | the connection is reset before the reply, `recvReply` takes the zeroed buffer for it, and the shell reports an insert that may not have happened |
| `SignalStopsServer` | a signal interrupts a logging call, the handler logs, and waits for the mutex below it; or it comes before `EDB_KRCB::init`, which sets the status back |

Other disagreements were met on the way and have no run. The models do as the code
does.

In the EDU manager and main:

* A `startEDU` call that tested `_isQuiesced` before it was set adds an EDU after it
  (`pmdEDUMgr.cpp:371`); the comment at line 29 says none comes in.
* The result of `startEDU` for the listener is not assigned (`pmdMain.cpp:178`), so
  the server may be up with no listener.
* The table of status transitions at the top of `pmdEDUMgr.cpp` lets only a running
  EDU become waiting; `waitEvent` and `startEDU` also make CREATING and IDLE ones so.
* System EDUs are to be stopped after user EDUs (lines 31 and 46), but `regSystemEDU`
  has no caller.
* A client that stops in the middle of a message keeps its agent in `::recv`, and with it
  the whole shutdown (`ossSocket.cpp:280`).
* `_rtnMgr` is destroyed before `_eduMgr` (`pmd.hpp:49`), so an agent that is not
  forced yet may use a deleted data file.

In the data file:

* `_recoverSpace` does not store the new free offset (`dms.cpp:110`), so the insert
  that called it fails on a page that has the space.
* `DMS_MAX_RECORD` takes off the wrong header (`dms.hpp:28`): the largest legal
  records fit no page, and each try extends the file.
* A failed extension leaves its bytes in the file; later segments are mapped behind
  it, and `_loadData` (`dms.cpp:426`) reads them from the wrong place.
* When `try_get` of `_extendMutex` fails nobody need be extending (the comment at
  `dms.cpp:78` says somebody is): an agent that only waited for the latch holds it for a
  moment, and two of them can keep each other from extending (see Fairness).
* `insert` asks `_findPage` for four bytes less than it needs (`dms.cpp:63`).
* `_searchSlot` (`dms.cpp:388`) accepts the slot number one past the end; `find` and
  `remove` have no caller yet.

In the session:

* `OP_DELETE` is extracted with `msgExtractQuery` (`pmdAgent.cpp:121`), which refuses
  it: no delete succeeds.
* `quit` without a connection does not quit (`command.cpp:231`), though the prompt
  says "quit to exit" (`edb.cpp:30`).
* The result of `msgBuildReply` is ignored (`pmdAgent.cpp:175`, `178`).
* `msgCheckBuffer` would `realloc` the shell's `_sendBuf`, a member array, for a
  message of more than 4096 bytes (`msg.cpp:33`).
* The snapshot's `handleReply` reads an object whatever `numReturn` says
  (`command.cpp:359`).

In the options and BSON:

* Options that are only in the configuration file are set back to the defaults by the
  second `importVM` (`pmdOptions.cpp:227`, after 220).
* A missing configuration file prints "Using default settings", and the start fails
  (`pmdOptions.cpp:143`).
* `jsonString` prints nothing for an Undefined element, so the text around it is no
  JSON (`bsonobj.cpp:197`).
* It prints doubles with 16 digits (`bsonobj.cpp:215`), so that one that needs 17 comes
  back as another; drops the flags of a regular expression but `g`, `i`, `m` outside of
  the strict format (`bsonobj.cpp:328`); prints the ns of a DBRef without escapes
  (`bsonobj.cpp:264`); and prints a BinData sub-type from 128 on, a signed char, with
  eight digits, which the grammar does not read.
* `woSortOrder` puts an empty document first whatever the direction
  (`bsonobj.cpp:779`); by the keys extracted from the two, its missing fields are nulls,
  so that `{}` and `{a: null}` are equal, and `{}` comes last in a descending order of
  numbers.
* With longs beyond 2^53 the comparison of numbers is not transitive
  (`bsonobj.cpp:486`); `OrderIsTotal` leaves such longs out.
* `appendIntOrLL` of the smallest long appends the int 0 (`bsonobjbuilder.h:246`).

### Fairness

`EDUMgr!Fairness` is weak fairness of every open `startEDU` call, of the main thread,
and of every EDU thread where it goes on by itself: the operating system schedules
them and the latch is given out in the end. Where a thread waits with a timeout (one
second for events, the socket's timeout for accept and for `select`) the timeout comes.
Nothing is assumed of clients, and nothing of what a request does: the steps out of
`agtRead`, `agtWork` and `agtWrite` have no fairness. `ossSocket::recv` has no timeout
once `select` has reported data (`ossSocket.cpp:280`), and a forced agent in it does
not notice, so a client that stops in the middle of a message holds up `_destroyAll`
for ever. `ShutdownCompletes` therefore says that the shutdown ends unless an agent
never comes back from one such call or one request. No signal has to come.

`DmsFile!Fairness` is weak fairness of an insert that has begun. `InsertReturns`
allows two exceptions. An insert may wait for another agent again and again as long
as inserts of that agent end. And it may wait for one that holds `_extendMutex` only
because it waited for it: while a waiter is between `get` and `release`
(`dms.cpp:80`, 82), the `try_get` of the next agent fails and it becomes a waiter
itself, so that two agents can alternate for ever with nobody extending. The comment
there, "that means someone else is trying to extend", is wrong then. That is what
`try_get` and the retry give and no more.

`Session!Fairness` is weak fairness of the shell's program, of each agent and of the
listener. The user, the network and the shutdown owe nothing. A client that has begun
to send sends on: `ForcedAgentEnds` depends on it, because of the `recv` without a
timeout. An agent's send is strongly fair: its `select` may time out many times, but
the client has read the last reply, so that there is room for the next.

`Server!Fairness` is weak fairness of main, of each logging call, of each handler, of a
worker that may end, and of a request as long as the data file has not been deleted.
Waiting for `_pdLogMutex` is part of a logging call, and a mutex is given out in the
end if it is released in the end. A client owes nothing: a worker with it may stay
there, and a request caught on the deleted data file may never return. `ShutdownEnds`
excepts these two by name, and counts a crash in such a request as an end.

## 4. Proofs

Every theorem holds for all values of the constants that satisfy the ASSUMEs of its
module (finitely many EDU ids, sizes that are numbers, model values that differ), and
for nothing less: there is no assumption besides them. The bounds the models have
(`MaxPages`, `MaxReq`, `MaxSignals`...) may be any number. Every invariant below is
first strengthened to an inductive one, which TLC checked on the instances of the
runs before it was proved.

### EDUMgrProofs

| Theorem | States |
|---|---|
| `TypeCorrect` | `Spec => []TypeOK` |
| `Invariance` | `Spec => []IInv` |
| `QueuesAgree`, `BlockOutlivesThread` | `QueuesMatchStatus`, `ThreadHasBlock` |
| `PoolBounded`, `WorkIsExclusive` | `PoolBound`, `OneWork` |

None of these is inductive alone. The status of an EDU is written
by its own thread without the latch, and by a `startEDU` call under it; they do
not collide because a call owns the EDU it chose: from choice to post the EDU is
in the run queue, has no event and its thread is not at work (`CallOwns`,
`WorkOwns`), no two calls choose the same one (`CallsApart`), ids at and above
`nextId` are unused (`FreshIds`, `NotStarted`), and an EDU whose thread saw the
forced flag goes straight to its destruction (`ForcedIsDestroyed`). The limit of
the pool needs `ApprovedBound`: the idle EDUs and those that passed the test of
`size()` and are not pooled yet are together at most `MaxPool`. An EDU that passes
is itself counted by `size()`, in the run queue; that is why the gap between the
two critical sections is harmless.

### EDUHandoverProofs

| Theorem | States |
|---|---|
| `HandInvariance` | `Spec => []HInv` |
| `HandedConnIsKept` | `HandedIsKept`: no accepted connection is lost before `_destroyAll` forces an EDU |
| `ShutdownIsComplete` | `DestroyAllIsComplete`: nothing runs when `_destroyAll` is done |

`HInv` adds to `IInv` who can still post to an EDU and who may end. A chosen EDU is
not gone before the post unless it was forced (`ChosenLives`); only agents get
connections (`AgentsGetConns`), so that the listener cannot swallow one; a session
that was taken up has its agent until the socket is closed (`ServedByAgent`). A
`startEDU` call is made by a thread that is still there (`ListenerCalls`,
`MainCalls`): when `_destroyAll` finds both queues empty, nobody can be inside a call
any more, which is why the test of the two sizes is enough in spite of the listener's
concurrent inserts.

### EDUMovesProofs

| Theorem | States |
|---|---|
| `StatusInvariance`, `ListenerInvariance`, `OwnerInvariance` | the inductive `StatusAtWork`, `LInv`, `CInv` |
| `OpenSocketsOwned` | `OpenIsOwned` |
| `LivesInOrder` | `LifeCycles`, an action property |

Three invariants on top of `HInv`. `StatusAtWork`: a thread that has waited is
CREATING no more, and one that waits is not RUNNING. `LInv`: the main thread calls
`startEDU` once, so there is one listener, and only it is in the listener's entry
point. `CInv` says of every connection in whose hands it is: in the listener's open
call while its state is "listener", in one EDU's queue or just taken from it while
"handed", in one agent's session while "served", and never with two EDUs. With one
listener there is one call that can have an accepted socket, which is why nothing is
handed on twice. Each action is then a move of one block or of one socket.

### ServerProofs

| Theorem | States |
|---|---|
| `TypeCorrect`, `Invariance` | `TypeOK`, and the inductive `IInv` |
| `LinesWhole` | `LogLinesWhole` |
| `LogGrows` | `LogOnlyGrows`, an action property: no step overwrites or cuts the file |
| `StoreIsReady` | `ServesOnlyReady` |
| `CommandLineIsKept` | `CommandLineWins` |

The lines of the log are whole because one context at most is between the lock and the
unlock (`MutexIsHeld`), the offset of the open file is always its end
(`AtTheEnd`), the lines in progress have numbers of their own (`LinesApart`), and the
part last written by the holder of the mutex ends the file (`WrittenSoFar`). A handler
is in `pdLog` only between its two steps (`HandlerLogsOnce`). `MainSoFar` carries the
return codes of the start to the loop and to the exit.

### SessionProofs

| Theorem | States |
|---|---|
| `Invariance`, `TypeCorrect` | the inductive `TypeOK /\ IInv`, and `TypeOK` |
| `StreamsStayInSync`, `BuffersAlwaysHold` | `StreamsInSync`, `BuffersHold` |
| `ExtractorsInvertBuilders` | `ExtractInvertsBuild`, for any buffer |
| `ReplyAnswersRequest`, `AckedIsStored` | `ReplyIsForRequest`, `AckIsTrue` |
| `RequestsAtMostOnce` | `AtMostOnce` |

The invariant describes a stream as the parts of one message without gaps (`Whole`),
of which the first continues what its reader has (`SrvSide`, `CliSide`). The heart is
`Turn`: while the shell sends, or waits for a request that is not processed, all it
sent is on its way or read and no reply exists; after that nothing is on its way to
the agent. `CarriedOnce` says a request is on one connection only and unprocessed,
and `DoomedIsIncomplete` that one the shell gave up on can never be complete at an
agent: together they are `AtMostOnce`. `ReplyInStep`, `Received` and `Replies` follow
the reply back, except after a reply the agent could not build (`unbuilt`), which is
the exception the properties make as well.

### DmsPageProofs

Lemmas about the operators of `DmsPage`, for every page size and all records. The
free space of a page is what a sum over its records leaves, and that sum is a fold of
the community modules; `TotalRemove`, `TotalNat` and `TotalOnes` are what is known of
such a fold. The loop of `_recoverSpace` is a fold over the slots; `RecoverSteps` turns
it into the sequence of its states, and `MoveStep` shows that a turn keeps what `Moved`
says. Both are inductions over the number of elements, by the least number that fails
(`NatMin`, `NatInd`), which needs no operator parameter.

`Formatted` is the hypothesis about a page, and each operation keeps it: `StoreKeeps`,
`DropKeeps`, `RecoverKeeps`. It has two parts that no property names. Records before
the first empty slot lie against each other (`Packed`): `_recoverSpace` does not move
these, and starts from the end of the last one. And each slot, emptied or not, has
left the room of a record header: `freeOffset + 8 * slots` is at most the page size.
`RecoverKeeps` is the theorem to read: no move writes over a record that is still to
be moved. `RecoveredIs` adds that after a recovery `HasRoom` never holds, since the
free offset in the header is not updated: the disagreement of section 3 is not an
accident of the small pages.

### DmsFileProofs

| Theorem | States |
|---|---|
| `Invariance`, `TypeCorrect` | the inductive `IInv`, and `TypeOK` |
| `RecordsStayApart` | `RecordsAreApart`, whatever fails |
| `PublishedStaysFormatted` | `Reloads => PublishedIsFormatted` |
| `PagesStayAccounted` | `PublishedIsFormatted => PagesAccount` |
| `MapStaysRight` | `Follows => MapMatchesPages` |
| `Refinement` | `MaxRestart = 0 \/ Fault = {} => (Spec => ImplementsRecordStore)` |

Inserts hold `_mutex`, an extension holds `_extendMutex` only, and both write to the
file. `IInv` says why they leave each other alone: published segments are apart and
in the file (`FileInv`), and the segment that grows is the end of the file and behind
all of them (`GrowthInv`), which is so because one agent at most is extending
(`ControlInv`). Every step is then a write to one published page (`WriteHolds`), a
change behind the published pages (`AppendKeeps`, `FormatStep`), the publication
(`PublishStep`), or a restart. That the new pages get the right ids is arithmetic of
the free space map: the sum of a map with one entry per page is the number of pages
(`EntriesCount`), and the next segment's entries join it (`EntriesJoin`).

The conditions are those under which the code keeps the promise. `Reloads`: there was
no restart, or nothing fails. A failed extension leaves its bytes in the file, the
next segment is mapped behind them, and `_loadData` looks for it without them; what
it finds may be pages that were never formatted. With `Fault = {}` the segments have
no holes between them (`ContigInv`), and a restart finds the same ones. `Follows`: a
restart also enters the pages under their own ids only when there is one segment
(finding `EveryPageIsLoaded`). `PagesAccount` needs no more than that the published
pages are formatted.

For the refinement the store is a function of the published pages (`Held`,
`Records`). A record in a new slot is a new id (`NewRecord`), an emptied slot loses
its record and stays an id (`DroppedRecord`), recovery changes no body
(`SameRecords`), a fresh segment has no slot (`JoinedRecords`). `StepMaps` has one case
per action: `InsertStore` is `Insert`, a failure is `Refuse`, `FindRecord` and
`RemoveRecord` are `Find` and `Remove`, and the steps of an extension and the restart
are stutters.

### BsonOrderProofs

| Theorem | States |
|---|---|
| `ElementsAreOrdered` | `BSONElement::woCompare` is a total preorder, where the nested documents are ordered |
| `DocumentsAreOrdered` | so is `BSONObj::woCompare`, for documents of every length and every set of places that are turned round |
| `OrderAtEveryDepth` | hence, by induction over the depth, for documents nested in any way |

These are about the operators of `BsonElement`, which `BsonOrder` closes over itself.
A comparison of three things is seen as a circle, x with y, y with z, z with x: they
are ordered just when the three signs are all zero or one is negative and one is
positive (`Circle`; `CirclesOrder` and `OrderCircles` show it is the same). In this
form the argument about sequences is short (`InOrderFirst`): at the least place where
any two of them differ, either all three have an element, and the circle of these
decides, or the third has ended, and is before the other two. Comparing by one thing
and then by another keeps circles (`ThenCircle`), and so the canonical type, the name
and the value make an order. `KindIsKept` is what makes the comparison of values well
defined: elements of one canonical type have values of one kind, so that the `switch`
on the left element's type reads the right one correctly.

The integers are those a double holds exactly. That is needed: the code compares two
longs exactly and a long with a double as doubles, and beyond 2^53 two longs that
differ may both be equal to one double. `ByDepth` takes the orders at all depths as
functions that satisfy the equation of `woCompare` (`Docs[0]` is empty, `Docs[n + 1]`
are the sequences of elements over `Docs[n]`); that functions defined by such an
equation exist is a matter of recursion, which the provers cannot show.

### Left to TLC

* Liveness under fairness, and ENABLED: `ShutdownCompletes`, `AcceptedIsAnswered`,
  `InsertReturns`, `CommandReturns`, `ForcedAgentEnds`, `LogReturns`, `ShutdownEnds`.
* Of BSON: `BuildersShow`, `RoundTrip`, `UnwindIsSafe`, `SortKeysAgree`, and
  `OrderIsTotal` for the order of field names. Layout, printer, parser and look-up are
  RECURSIVE operators, and a module that reaches one has no SMT backend. For the same
  reason `OrderAtEveryDepth` is about `woCompare` written out by depth, and not about
  the operator of that name.
* The refinement of `RecordStore` with restarts and failures together: it does not
  hold, for the reason above.

Every other invariant and every action property of a passing run is a theorem.

## 5. Plan

Done: 1. `EDUMgr` and its runs. 2. `EDUMgrProofs`. 3. `DmsPage`, `RecordStore`.
4. `DmsFile` and its runs. 5. `Msg` and `Session`. 6. `Server`. 7. `Bson`,
`BsonOrder`, `BsonJson`. 8. `ServerProofs`. 9. `SessionProofs`.
10. `EDUHandoverProofs`. 11. `DmsPageProofs`, `DmsFileProofs`.
12. `EDUMovesProofs`. 13. `BsonElement`, `BsonOrderProofs`.

What could come next: the order of field names (`lexNumCmp`) as a fold over runs of
digits, to prove it total; dotted look-up by path instead of by recursion, for
`SortKeysAgree`.

## 6. Not modelled

* The utilities (return codes, sleep, thread ids).
* Object id generation, base64, MD5 and nonces: codecs and random numbers.
* Of BSON: `BSONArrayBuilder`, the stream operators, `EmbeddedBuilder`, the least and
  greatest value of a type, `toString`, dates as text. The program calls none of them.
* Of the shell: reading a line and splitting it, beyond the texts it can hand on; help.
* Of the sockets: addresses and options.
* What boost's `program_options` and Spirit do inside.
* Overflow of the file offset at the sixteenth segment, which is outside the
  page-level model.
* A crash between the writes of one insert, which is one step. The source does not
  order these writes and repairs nothing on start: with `_numSlots` stored and
  `_freeOffset` not, the next insert writes over the record; with `_slotOffset`
  missing, slots and records may overlap by four bytes. There is no promise to check.
