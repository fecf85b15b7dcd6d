# TLA+ verification of the Firebird hands-on samples

The repository is a paper about the Firebird database engine. Its program code
is `samples/`: some 44 topics, each written as a small client program in nine
language families (`cpp`, `fb-cpp`, `nodejs`, `fpc`, `rust`, `python`, `go`,
`java`, `csharp`; the versions of one topic are called *twins* here), three
larger originals (`client_test.cpp`, `events_demo.cpp`, `protocol_client.cpp`)
and a documentation generator (`tools/grammar_to_mermaid.py`). The engine
itself is not in the repository. What is worth verifying is therefore the
clients: what their threads, lock waits, timeouts, catch blocks and broken
connections do to each other, and whether what they print as demonstrated is
demonstrated in every interleaving.

## Inventory

| Part | State it keeps | Operations | What is hard |
|---|---|---|---|
| Helper libraries (`cpp/fb_sample.h`, `nodejs/common.js`, `python/fbsample.py`, `go/fbsample`, `FbSample.java`, `FbSample.cs`, `fbcpp_sample.h`, `lib.rs`, `FBHandsOn.pas`) | one attachment, a status vector | attach, attach or create, start, execute, query, report | cleanup while an exception unwinds; each language treats an uncaught error in a thread differently; attach-then-create is two steps |
| `lock_manager` x 9 | two attachments, transactions `hold`, `ta`, `tb`, flags `aVictim`, `bVictim` | probes with NO WAIT / timeout / WAIT, a releaser thread, two crossing updates | the releaser races the WAIT probe; the deadlock victim is chosen by the engine; a transaction may be ended by either thread |
| `transactions` x 9 | two attachments, four transactions | reads under SNAPSHOT and READ COMMITTED, conflicting updates | under WAIT the losing update races the holder's commit |
| `events_demo.cpp` | event buffers, `fired`, one queued interest | queue, re-queue, wait with timeout, callback, shutdown | callback thread writes what the waits read; a delivery may come after its wait gave up; other clients post the same name |
| `events.py` | the driver's collector, a dictionary of counts | wait, flush | the collector's thread runs between the two calls |
| `events` of the other drivers x 7 | a listener object of the driver | the same scenario | each driver re-queues and resets differently |
| `careful_writes` x 9 | a writer process, a database file | fork, watch the file grow, SIGKILL, re-attach | the kill may precede the commit of the marker row |
| `trace` x 9 | a trace session, a worker | start, read the stream, stop from a second service | the worker waits for an id only the stream can give |
| `parallel_workers`, `sorting` x 9 | a polling thread, a stop flag, a maximum and a list | one long statement, polling meanwhile | an exception while the poller is joinable; unsynchronised data kept apart by the join only |
| `threading` x 9 | worker threads, one attachment each | attach, query, hold, detach; main counts | a refused attachment in a thread without a handler |
| `page_cache` x 9 | child processes, a data page in one or two caches | 300 increments per worker and phase | lost updates; a child that dies with the page |
| single-threaded samples (`psql`, `security`, `gc_sweep`, `ha`, `replication`, `metadata_cache`, `blobs`, `profiler`, `schemas`, ...: 22 topics) | a scratch database that survives the run | clean up, build, show, end | what an earlier, failed or killed run left; a transaction left open; two attachments of one process waiting for each other |
| `services`, `backup` x 9 | a service attachment, gbak's output buffer | start a job, poll its output | polling until the end mark; the next job starts only after it |
| `pooling`, `blr`, `ods_header`, the read-only demonstrations | one attachment or a byte buffer | query, decode, print | nothing that persists or runs concurrently |
| protocol clients, `srp-handshake.js` | a socket, session keys | a conversation | order of packets, big integers |

Components interact only through the server: two attachments of one program,
two threads of it, two processes over one database file, or two executions of
one program, of which the second finds what the first has left.

## Modules

| Module | Models | Role |
|---|---|---|
| `Engine` | the server as the samples use it (external) | abstract specification: attachments, transactions and their isolation, version chains, table reservation, deferred DDL |
| `Samples` | the helper libraries and the language runtimes | runs a program given as data; one action per API operation, each an operation of `Engine` |
| `Discipline`, `MCDiscipline` | | a rule on the programs' code, thread by thread, and the outlines that show each program keeps it |
| `SamplesProofs` | | the inductive invariant of `Engine`, its theorems, and what the discipline gives |
| `LockManagerTwins`, `TransactionsTwins` | the nine `lock_manager` and the nine `transactions` programs | programs as data |
| `ThreadingTwins` | the two C++ `threading` programs | programs as data |
| `MCSamples` | | constants and properties of these twenty programs |
| `EventDemo` | `events_demo.cpp` | listener, callback thread, main thread, server's event counter |
| `EventProofs` | | counting, the two threads' exclusion, the demo's verdict; the collector's account of posts |
| `CarefulWrites`, `MCCarefulWrites` | the nine `careful_writes` programs | parent, writer process, database file, SIGKILL |
| `CarefulProofs` | | what is announced survives, what is uncommitted does not, when the kill falls |
| `TraceSession`, `MCTrace` | the eight `trace` programs that drive a session | reader of the stream, worker, stop service, every error handler |
| `TraceProofs` | | "done." means stopped and traced |
| `Scripts` | single-threaded samples, executed again and again | interpreter: process, scratch database, faults, kills, a rival |
| `ScriptTwins`, `MCScripts` | 44 C++ programs of 22 topics | programs as data |
| `ScriptOutline`, `MCScriptOutline` | | the places a script may come to, whichever of its calls fail, and the outlines of the 44 programs |
| `ScriptProofs` | | what follows from having an outline |
| `ServicePolling`, `MCServicePolling` | the C++ `services` and `backup` programs | client, gbak, ring buffer; implements `LineStream` twice |
| `LineStream` | | abstract specification: a drained stream of lines |
| `PollingProofs` | | exit 0, failures, safety part of the refinement of `LineStream` |
| `Watchers`, `MCWatchers` | the C++ `parallel_workers` and `sorting` programs | main, polling thread, stop flag, exceptions |
| `WatchersProofs` | | main and poller kept apart, what is shown |
| `PageCache`, `MCPageCache` | the C++ `page_cache` programs | parent, children, page, locks, what an earlier run left |
| `PageProofs` | | no lost update, what `--check` prints |
| `EventCollector` | `events.py` | main, the collector's thread, other posters |

### Engine

`state`, `owner`, `iso`, `snap` describe transactions; `ver[r]` is the chain of
versions of row `r`, oldest first, uncommitted versions only on top; `rel` is
the transaction's lock on the table (`EX` = RESERVING ... FOR PROTECTED WRITE,
`SW` = has written); `pend` is DDL that takes effect at commit. An operation
that would have to wait is simply not enabled here; who waits, gives up or is
picked as deadlock victim is decided in `Samples`. Nothing about pages, caches
or the lock table's layout is modelled: the samples cannot see them.

### Samples

A program is a record: `threads` maps each thread to a sequence of operations
(one per API call, in source order), `stray` says what an uncaught error does
to a thread in that language (`terminate` for `std::thread`, `exit` for Go's
`fbsample.Check` and Node's unhandled rejection, `drop` for Python, Java and
Pascal threads, `rethrow` where joining raises it again: C# tasks, Rust
handles), `unwind` is what destructors or `with`/`using` blocks do on the way
to `exit(1)`, and `waits` tells whether the runtime waits for other threads
when main returns or exits. A `try` is an operation with a `then` part (the rest
of the try block) and an `else` part (the catch block). A call that must wait
for a lock stays at the head of its thread until it is granted, refused (NO
WAIT), timed out, or broken by the deadlock scan (`InCycle`). `ConnectionLost`
and `DoAttachRefused` may happen up to `MaxFaults` times; after the process
has ended the server drops its connections.

Sleeps are not modelled: wherever the source sleeps to let another thread get
ahead, both orders are explored. Printing is abstracted to `outcome` (granted
or failed, per label) and `seen` (the values read, per label).

### Twins

The nine programs of a topic share operators for the parts they share
(`ActOne`, `ActTwo`, `Conflict`, ...). Differences that matter are kept: who
catches what, which transaction ends when, WAIT or NO WAIT, whether act two
exists (`lock_manager.js` has none), whether a thread opens its own connection
(Rust), whether a context deadline replaces LOCK TIMEOUT (Go). In
`ThreadingTwins` two workers stand for twelve: they never meet on a lock, so a
third adds no new kind of step. Its MON$ queries keep only their transactions;
the sleeps, which make a census likely to see everybody, are not modelled, and
nothing is claimed about the census in the middle.

### EventDemo

`cnt` is the server's counter for the event name, `reqs` the queued interests
(one-shot, each with its baseline), `wire` the packets under way. `wait()` is
split at its three steps (loop left, `isc_event_counts`, `fired = 0`) and the
callback at its two (`memcpy`, `++fired`), because the other thread may run
between them. A wait may time out whenever `fired` is 0, however late its
delivery is; `late` records that one was then under way. `MaxForeign` bounds
posts by other clients of the database.

### CarefulWrites

A program is a record: what the parent does first (`before`), the child's
steps (`writer`), what the parent watches and how often, what a failed
`unlink` and a failed spawn do, and whether the writer's process is the engine
(`embedded`) or a client of a server. `size` is the file's size in units, `pages`
and `tip` are what the file holds: the data of transactions and which of them
are committed. A commit is two writes, data first (`EngineFlushesData`), then
the transaction inventory page (`EngineCommits`); the kill may fall between
them, before the call returns, or before the announcement. With a server, the
call under way goes on after the client's death until `ServerCleansUp`. `mine`,
`stale`, `acked` and `bulkAtKill` are history for the properties. `Poll` is one
turn of the parent's loop; how far the engine got between two turns is open.
An earlier run's database may be there at the start.

### TraceSession

A program is a record of the choices in which the twins differ: which side
the main thread is on, where the session's id comes from, whether main joins
the worker, and what an error of the marker query, of service B and of the
stream does. `stream` holds the lines service A has not fetched; the server
hands them all over before it reports the end. The sleeps (0.8 s, 1.2 s, 1.5 s,
5 s, 10 s) are not modelled: every order of reader and worker is explored, so a
program that takes "long enough" for granted is seen when it is not. `Poll` is
the turn of a loop that finds nothing new. Two details of `Trace.cs` are left
out: an id that the stream shows after the wait of 5 s has given up (the list
gives the same one), and the last list, which only prints whether a session is
left.

### Scripts

A program is a record: its catalog objects, what goes with what (rows and
indexes with their table), which version of an object needs which other one,
what the sample prints that it shows (`claims`), what it says it removes
(`gone`), and its body, one operation per API call, with try blocks and scopes
whose destructors roll back or detach. `code` is what the process has still to
execute; an exception (`Refuse`, `Fault`) discards it up to the innermost
handler and runs the destructors of the scopes it passes. `db` survives from
run to run. DDL follows the engine's rules as the samples meet them: most of it
takes effect in the transaction and is checked for dependents at commit, some
at once, users only at commit. Between any two calls the process may be killed
(`Kill`), a call may fail (`Fault`), a commit, retaining or not, may be done and
its answer lost (`CommitAnswerLost`; the program cannot use that transaction any
more), and another program may create the file between the failed attach and the
create of `attachOrCreate` (`OtherCreates`). An update waits while another transaction, also one whose handle was overwritten
(`leaked`), holds the row; nobody else would ever end it. Nothing is counted:
the sample may be started again without end and any number of calls may fail;
`faulted` and `raced` are about the current run only, since that is what a
verdict about it may be excused by.

### Discipline and ScriptOutline

Both say of a program's code what an execution could only sample. An outline
lists the places a thread (or the process) may come to: the code still to
execute and what is known there of the things that matter. It is closed under
every outcome of the next call, and nothing is assumed about which one it is.

In `Discipline` a place has the open transactions and true flags among those the
thread owns. Main owns everything, lends a thread what its code names when it
spawns it, and has it back once it has joined it; a call is allowed only on
what the thread owns and knows to be open. So the rule is checked of one thread
at a time, without interleavings and without the engine.

In `ScriptOutline` a place has the open attachments, each open transaction with
what it has done, and which of the objects to be removed are committed. The
outline starts from every subset of those, which is all that an earlier run may
have left of them. A place with no code left must be settled: nothing
uncommitted, nothing to be removed.

The two MC modules compute outlines by adding places until none is new; that
they are outlines is not taken from that computation but checked (`Disciplined`,
`Outlined`) and is what the theorems assume.

### ServicePolling

gbak writes its lines into a ring buffer and blocks while it is full; each
`query` takes one line, or an empty one once gbak has ended. `PrintLines`
(`services.cpp`) and `StreamServiceOutput` (`backup.cpp`) are the two ways an
answer is read: the first walks all items and goes on after a timeout, a
truncation or "not ready", the second looks at the first item and stops at an
empty line. Neither asks for a timeout, so a query should wait for a line; the
early answers that `services.cpp` is written for may all the same come to every
program (`Hasty`). `backup.cpp` takes an empty one for the end and leaves gbak
writing (`cut`); its next `start` is then refused, or the copy it attaches to is
not there yet, unless gbak has ended meanwhile. That a line gbak writes is never
empty is assumed (`Texts`); a gbak that fails is a failing call of the client,
since the programs look at nothing but its output. For each job the lines
printed and the state of the loop implement `LineStream`, its fairness included;
a cut job is an abandoned stream.

### Watchers

Main and the poller run freely between the spawn and the join. The poller's
round is split at the count, the comparison with the maximum, the list and the
commit, because main's flag and either side's exceptions fall in between; count
and list read one frozen MON$ snapshot (`n`). `level` is what the server shows:
the worker attachments, which stay in the pool after the index is built, or
the scratch files, which go with the sort. An exception that leaves the poller
of `sorting`, or main past a joinable thread, is `std::terminate`. `culprit`
(whose call failed last) and `lost` (which calls of the poller failed) are
history for the properties.

### PageCache

The parent's stages follow each other however its children end, since no exit
status is looked at. In phase 1 both workers change the page in one cache; in
phase 2 each engine has its own, an engine must hold the page lock to change
it, gives it up on a blocking AST after writing the page, and reads it again
when it gets the lock. A commit writes the page first and is a step of its own
after that, so that a worker may die between the two.

The server's database is never removed, so phase 1 may find the table of an
earlier run, its rows holding anything in `Leftover`; phase 2 does when `unlink`
has failed. `--init` drops the table and makes it again: each of its calls may
fail, a failed drop is caught and the create then fails on the table that is
there, and the workers go on over the old rows. `base` is what the rows held when the workers started, and the
page holds what they add to it. The `fopen` of `firebird.conf` is not checked
either: when it fails the parent crashes on the null pointer (`SandboxFails`).

### EventCollector

`delivered()` is two calls, `collector.wait` and `collector.flush`, and a
delivery may fall between them: the flush then throws it away (`dropped`). Every
committed post is kept on account, which is what `NeverOvercounts` adds up.
`prompt` chooses, for a whole execution, whether deliveries beat the timeouts;
only then is the sample's verdict claimed. Its definitions have names of their
own (`CollectorInit`, `CollectorSpec`, ...) so that `EventProofs` can extend both
event modules.

## Runs

| Run | States | Checks |
|---|---|---|
| `engine` | 505 482 | `EngineInv` (the inductive invariant, with `ReservationExclusive` and `NoOrphan`), `NoLostUpdate`, `SnapshotStable` |
| `samples` | 26 195 | twenty programs: `DisciplineInv` (each has an outline, every thread is in its own at all times, and `SamplesInv`: nothing is used after its end), `SuccessIsWhole` (exit 0 with broken connections means that what is printed was done), `ProbeLadder`, `OneVictim`, `IsolationShown`, `LoserLoses`, `LastCensusIsAlone`, `Terminates` |
| `event_demo` | 22 420 | `EventInv` (order of counters, no second delivery inside a wait), `CountedOnce`, `PassesWhenTimely`, `PassIsGenuine`, `Terminates` |
| `careful_writes` | 68 397 | `VerdictInv` (a verdict is there and is this run's), `AnnouncedMarkerSurvives`, `NoGhostRows`, `KillMidInsert`, `Terminates` |
| `trace` | 3 373 | `TraceInv` (done means stopped), `DoneMeansTraced`, `Terminates` (which names the faults a program does not survive) |
| `scripts` | 12 264 | `OutlineInv` (each has an outline, the process is in it, and `ScriptsInv`: exit 0 leaves no uncommitted work and what was to be removed is gone), `Rerunnable`, `ClaimsHold`, `RunsEnd` |
| `service_polling` | 1 196 | `PollingInv` (exit 0 after gbak has closed the file), `FailsOnlyByFault` (or by an empty answer `backup.cpp` takes for the end), `OutputsAreStreams` (refinement of `LineStream`, twice) |
| `watchers` | 1 398 | `WatchersInv` (main reads the roster only after the poller's end; the two ways to `std::terminate`), `ShownIsOfItsCase` (the roster is that of the maximum, or empty because its own call failed), `RunsEnd` |
| `page_cache` | 53 977 | `PageInv` (no lost update, the expected values), `PrintedIsCounted` (what `--check` prints is what the rows held and the committed updates), `ParentEnds` |
| `event_collector` | 544 | `NeverOvercounts`, `PassesWhenPrompt` |
| `careful_writes_fork` | violation | the C++ programs do not notice a failed `fork()` and kill process id -1 |
| `cpp_errors_reported` | violation | a connection that breaks in act two of `lock_manager.cpp`, or is refused to a worker of `threading.cpp`, ends the program by `std::terminate`, not by `report()` |

Where an invariant is a conjunction (`...Inv`) its parts are definitions of
their own, each with its comment, in the same module.

Bounds. In `engine`, two attachments and three transactions are what it takes for a
holder, a loser and an observer; the programs name their own transactions,
attachments and rows, so those sets are complete. In `samples` two faults put a
broken connection at every point of every program and a second one into the
cleanup after the first. `Start = {0, 2}` distinguishes a fresh event name
from a used one, `MaxForeign = 3` lets others post as many events as the demo
itself expects. In `careful_writes` an empty database has 5 units and the loop
waits for 4, the order the real sizes have (2 260 992 bytes against 2 097 152);
a small transaction adds at most 1; 3 polls (6 where the code has 1200) let the
base be taken in any phase and the loop end by growth or by exhaustion; 3
batches of rows are one more than the Node parent waits for.
`careful_writes_fork` uses the real sizes in units of 32 KB. In `trace` two
lines of other work separate the lines that matter. `scripts`
has no bound: runs, failing calls, kills and rival creations of the file are
unlimited and the state space is finite all the same, so `Rerunnable`,
`ClaimsHold` and `RunsEnd` are checked for every sequence of runs. `Depth` and
`Rounds` in `MCDiscipline` and `MCScriptOutline` are large enough for the outlines
to be closed; were they not, `Disciplined` or `Outlined` would fail. In
`service_polling` a ring of 2 can be empty, half full and full, with three and
two lines to go through it, two early answers and one fault. `watchers` has two faults, so both
threads may fail. `page_cache` has a row for each of the two workers, three
rounds (first, middle, last), leftover rows at 0 or at 3, which is what a
complete run leaves, and two failures; `event_collector` two
foreign posts.

The programs of `service_polling`, `watchers`, `page_cache` and
`event_collector` simply end, and `engine` stops when every transaction has
been used, hence `CHECK_DEADLOCK FALSE` there; that they do end is what
`RunsEnd`, `OutputsAreStreams`, `ParentEnds` and `PassesWhenPrompt` say. The
other runs check for deadlock.

Fairness. Each thread is scheduled (`WF` on its step; a lock wait in a cycle
or with a timeout ends because the engine scans periodically), main's return
is, and the server notices the connections of a dead process. `EventDemo`
assumes weak fairness of the main thread (its waits have timeouts), the event
thread and the server's delivery; `CarefulWrites` of parent, writer and engine;
`TraceSession` of reader, worker and main; `Scripts` of the running process
(`Proceed`), not of its being started again; `ServicePolling` of gbak and of the client;
`Watchers` of main and of the poller; `PageCache` of its processes taken
together, which is enough since each of them has only so many steps to take;
`EventCollector` of main and of the delivery. No run assumes that a call fails,
a connection breaks, a process dies or another client posts.

## Proofs

Every theorem is about the specification the runs check, for every value of
the constants that the named assumptions allow; the bounds of the `.cfg` files
play no part. Each inductive invariant below was first checked by TLC with the
constants of its run. Each proof has one lemma per action, or per group of
actions that touch the same variables, and one step per conjunct an action can
disturb.

| Module | Theorem | States | Assumes |
|---|---|---|---|
| `SamplesProofs` | `EngineInvariant`, `NoLostUpdateTheorem`, `ReservationTheorem`, `SnapshotStableTheorem` | `EngineInv`, `NoLostUpdate`, its reservation part, `SnapshotStable` | `Att # {}` |
| | `SamplesInvTheorem`, `DisciplineTheorem` | `SamplesInv`, `DisciplineInv` | a thread `main`, `Disciplined` |
| `EventProofs` | `CountedOnceTheorem`, `EventInvTheorem`, `PassesWhenTimelyTheorem`, `PassIsGenuineTheorem` | the four safety properties of `event_demo` | counters are natural numbers |
| | `NeverOvercountsTheorem` | `NeverOvercounts` | `MaxOthers \in Nat` |
| `CarefulProofs` | `AnnouncedMarkerSurvivesTheorem`, `NoGhostRowsTheorem`, `VerdictInvTheorem`, `KillMidInsertTheorem` | the four safety properties of `careful_writes` | `Growth > 2 * Meta`, `Twins` among the nine programs |
| `TraceProofs` | `TraceInvTheorem`, `DoneMeansTracedTheorem` | `TraceInv`, `DoneMeansTraced` | `Twins` among the eight programs |
| `ScriptProofs` | `ScriptsInvTheorem`, `OutlineTheorem` | `ScriptsInv`, `OutlineInv` | `Outlined` |
| `PollingProofs` | `PollingInvTheorem`, `FailsOnlyByFaultTheorem`, `StreamsInOrderTheorem` | `PollingInv`, `FailsOnlyByFault`, the safety part of `OutputsAreStreams` | gbak's lines are non-empty, the ring has room for one |
| `WatchersProofs` | `WatchersInvTheorem`, `ShownIsOfItsCaseTheorem` | `WatchersInv`, `ShownIsOfItsCase` | a program with pooled workers has one statement |
| `PageProofs` | `PageInvTheorem`, `PrintedIsCountedTheorem` | `PageInv`, `PrintedIsCounted` | at least one round, leftover rows hold natural numbers, rows are not named like the other processes |

**Engine.** `NoLostUpdate` alone is not inductive: a write is allowed when the
newest version is visible, and that every older one is visible too needs
`PrefixInv` (a snapshot holds a prefix of each chain), which needs `SnapInv`
(snapshots hold only committed transactions) and `ChainInv` (only the newest
version can be uncommitted, so a rollback takes only its own version off).
`NoOrphan` and `ReservationExclusive` complete it. `SnapshotStable` follows
step by step: a commit, a rollback or a write by another transaction changes
nothing at or below the newest version a snapshot sees.

**Discipline.** `SamplesInv` (no call on a transaction that has ended) is not true
of every program, so its theorem has the hypothesis `Disciplined`, which TLC
evaluates for the twenty programs (`samples`). The invariant is that each
running thread is at a place of its outline (`InOutline`). It is thread-modular:
a step of one thread changes only handles and flags that it owns, and what two
threads own is disjoint, so the other threads' places stay what they are
(`FrameLemma`). The engine enters only through `EngineInv`: every step of the
interpreter is an `EngineNext` step or leaves the engine alone, by the way its
actions are written (`SamplesImplementEngine`, a lemma). At a spawn main's knowledge of what it lends becomes the new
thread's; at a join the place where the thread ended is added to main's. That
covers every interleaving, deadlock victim and number of broken connections,
where the run has two.

**Scripts.** `ScriptsInv` is not true of every script either; the hypothesis is
`Outlined`, evaluated for the 44 scripts (`scripts`). The inductive
invariant `Kept` is that the process is at a place of the outline (`InOutline`),
that a process which has ended has nothing open, and the types of the server's
records; `NoLostWork` and `CleansUp` then follow from the last place being
settled. An outline does not look at most of the database, so the proof shows
once and for all that what it leaves out (snapshots, dependencies, row locks,
what earlier runs left) can only decide whether a call succeeds, and both cases
are in it. Errors are the interesting part: the lemma about `Throw` covers the
innermost handler, the destructors passed on the way, the catch of main, and a
commit that was done though its call failed.

**EventDemo.** For `CountedOnce` the strengthening is `Ordered`: baseline, last
result, packets in wire order and the server's counter never decrease along
the way, so `isc_event_counts` never subtracts a larger baseline. `NoOverlap`
needs `OneShotInv`: interests are one-shot, so queued interest, packet, copy
and `fired` make one delivery at most until a wait has given up on one.
`PassIsGenuine` needs the position of every count relative to the commit
(`GenuineInv`): before it, a count differs from the counter only by what others
posted (`NearInv`); after it, a count either covers the commit or is within the
foreign posts of the baseline (`SidesInv`), which is too little for a fourth
wait that returned three. `PassesWhenTimely` follows what is under way place by
place (`TimelyInv`): nothing between re-queue and commit, one delivery of
exactly three afterwards.

**EventCollector.** What `wait` handed out is still in the dictionary at
`flush` (`HandedIsThere`), so handed out, dropped and yet to come add up to
the committed posts.

**CarefulWrites.** `TwinOK` says what the nine programs share (marker,
announcement, rows, in this order; the table made once before), and is proved
of each. Past its commit the marker is on its page, in the inventory page and
of this run, and no later step takes it back (`MarkerInv`, `AckInv`); the rows'
transaction never enters the inventory (`RowsInv`). Freshness needs what the
run has committed at each step (`MineInv`, `FreshInv`); `KillMidInsert` needs
the size the file can have without uncommitted rows, step by step (`SizeInv`,
`BaseInv`), hence `Growth > 2 * Meta`: a growth that small transactions alone
could cause would trigger the kill too early.

**TraceSession.** When nothing fails, only the worker ends the session
(`SessionInv`), it does so after the marker query, and the query's line is
fetched or still in the stream until then (`MarkerInv`); the stream reports its
end only when it is empty. `RoomInv` bounds the stream by the work done and
belongs to the type invariant.

**ServicePolling.** While a job is drained, lines printed, ring and lines gbak
has still to write are together the job's output (`Splits`), whatever early,
empty or truncated answers come. Between the jobs the server is idle unless the
output was cut, and then a job that has ended has left its file and one that has
not makes the next start or the attach fail (`ServerInv`): so exit 0 keeps its
promise even then. The refinement of `LineStream` is proved for its initial state and its
steps; the fairness it also promises is left to TLC.

**Watchers.** The poller exists only between spawn and join
(`OnlyWhileJoinable`), and what it has counted or remembered is bounded by what
the current statement lets it see (`OfThisCase`); the roster is that of the
maximum except between the two assignments, where it is empty, and stays so
when the call in between fails (`RosterOfMax`). With two
statements and workers that stay in the pool the second would be shown workers
of the first, hence the assumption; `parallel_workers` has one.

**PageCache.** The page on disk is at most one version ahead of the commits,
the copy of the engine that holds the lock is not behind the disk
(`VersionInv`), and what a worker is about to commit is in its copy or, once
another engine has asked for the page, on disk (`WrittenInv`). `PrintedInv` adds
that `--check` reads after all workers are gone, when nothing but the committed
increments is visible over `base`; `LeftoverLemma` covers the tables this run
has not made.

Model-checked only:

- liveness: `Terminates`, `RunsEnd`, `ParentEnds`, `PassesWhenPrompt` and the
  fairness part of `OutputsAreStreams`. The prover has no rule for fairness or
  `ENABLED`;
- `SuccessIsWhole`, `ProbeLadder`, `OneVictim`, `IsolationShown`, `LoserLoses` and
  `LastCensusIsAlone`, which say what particular programs print;
- `Rerunnable` and `ClaimsHold` of `Scripts`: they depend on the value of every
  object at every call of the program at hand, so an outline that proves them
  would have to list the reachable states. Their run is complete for these
  programs, since it limits nothing;
- `Disciplined` and `Outlined` for the programs of this repository: each is one
  finite evaluation by TLC, and the hypothesis of the theorems above.

## Met while modelling

Behaviours of the code that are in the models and have no run of their own:

- `cpp/careful_writes.cpp:93` takes the base size while the child may still be
  creating the database, so the growth that triggers the kill can be the
  creation; `KillMidInsert` holds where the base is that of a complete database.
- `Trace.java:149`: the finally block has no id, and stops nothing, when the
  marker query fails first; `FbSample.run` then exits, so the program ends and
  leaves its session to the server. It hangs only when a second session has the
  same name (line 147), which `Terminates` names in `Strands`.
- `cpp/page_cache.cpp:31-46`: when `--init` fails on a database an earlier run has
  left, the workers add to the old rows and `--check` prints 600 (or 300 though
  nothing was updated) beside "expected 300"; `PrintedIsCounted` says what it
  prints. Lines 120-121 write through
  the result of `fopen` unchecked.
- `cpp/backup.cpp:37-41`: an empty answer is the end, whatever its reason; one
  that comes early starts the restore while gbak writes. The start is refused
  then, so the run fails and does not restore half a file (`FailsOnlyByFault`,
  `PollingInv`).
- `events_demo.cpp:166`: a baseline that arrives after its 3 s is taken for a
  delivery; no post is counted twice (`CountedOnce`) but the PASS then proves
  nothing (`PassIsGenuine` requires a consumed baseline).
- `nodejs/careful_writes.js:40`: when the writer dies before its message the
  parent ends with status 0 and no counts (`SuccessHasVerdict` is about the
  programs that watch the file).
- `nodejs/transactions.js:43-46`: the comment has A commit first and B get the
  conflict; in the code B commits and A gets it (`LoserLoses`).
- `cpp/fb_sample.h:96`: any failure of the attach is taken to mean that there
  is no database; when another program creates it meanwhile the run fails, the
  next one does not (`Rerunnable`).
- `cpp/parallel_workers.cpp:152`: a failing CREATE INDEX unwinds past the
  joinable poller, which is `std::terminate`; `PollerFailureIsContained` says
  that this and a poller without a handler are its only causes.
- `cpp/sorting.cpp:57`: the watcher may be scheduled late and miss the sort;
  `ShownIsOfItsCase` bounds what is shown from above only.
- `python/events.py:32`: the flush drops a delivery that came after the wait.

## Left to do

Outlines for the twins of the scripts in the other seven languages: the rule is
about code as data and needs only their bodies.

## Not modelled

- `pooling`: the pool is the engine's, or the fb-cpp library's; the programs
  print what it reports.
- `api_styles`, `architecture_comparison`, `deployment`, `parser_errors`,
  `numerics`, `temporal`: queries whose results are printed, no state a later
  step or another process could see.
- `blr`, `ods_header`: one pass over a byte buffer; a model would repeat the
  byte layout.
- `protocol_client.cpp`, `client_test.cpp`, `srp-handshake.js`: a linear
  conversation with a server that is not in the repository, and arithmetic on
  1024-bit integers, out of TLC's reach.
- The twins of the scripts, of `services`, `backup`, `page_cache`, `threading`,
  `parallel_workers` and `sorting` in the seven other languages: the same calls
  through other drivers. What differs is what an uncaught error does, and that
  is in `Samples`.
- `events` of the seven remaining drivers: their listeners are classes of
  drivers that are not in the repository.
- `trace.rs`, which starts no session; the hits of the engine's statement cache
  and the timings that show them; the sleeps of `threading` and the thread
  count it reads from `/proc`.
- `grammar_to_mermaid.py`, a text transformation; `relational_algebra.sql`, a
  list of queries; build files and documents.
