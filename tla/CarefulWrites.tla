--------------------------- MODULE CarefulWrites ----------------------------
(***************************************************************************)
(* The careful_writes programs: a parent that starts a writer process,     *)
(* watches the database file grow (or the writer's output), kills the      *)
(* writer with SIGKILL in the middle of an uncommitted transaction, and    *)
(* re-attaches to count what is left.  In seven of the nine languages the  *)
(* writer IS the engine; the Go and Node programs talk to a server, which  *)
(* the kill does not touch.                                                *)
(*                                                                         *)
(* The engine's part (external): a commit writes the transaction's data    *)
(* pages and then, separately, its state on the transaction inventory      *)
(* page; uncommitted pages reach the file at any time; a killed engine     *)
(* loses whatever is not in the file.                                      *)
(***************************************************************************)
EXTENDS Integers, Sequences, SequencesExt

CONSTANTS Twins,     \* the programs to run, records like CppCarefulWrites below
          Created,   \* size of an empty database, in units of the file's growth
          Growth,    \* growth the parent waits for (2 MB)
          Meta,      \* most a small transaction adds to the file
          Polls,     \* polls of the 600-poll loops
          MaxRows,   \* batches of uncommitted rows inserted before the writer rests
          MaxFaults  \* calls that may fail

ASSUME CarefulAssumption ==
  /\ {Created, Growth, Polls, MaxRows} \subseteq Nat \ {0}
  /\ {Meta, MaxFaults} \subseteq Nat
  /\ Growth > 2 * Meta

VARIABLES
  twin,     \* the program that runs
  size,     \* size of the file, 0 when there is none
  pages,    \* what the file holds: "database" once created, data of transactions
  tip,      \* transactions the file says are committed
  mine,     \* those among them that this run's programs committed
  call,     \* the writer's call the engine is working on, and how far it is
  wpc,      \* writer: NoChild, Dead, or the number of its step
  rows,     \* batches of uncommitted rows inserted
  acked,    \* the writer has announced its committed marker
  pipe,     \* the writer's output the parent has not read
  ppc,      \* parent
  todo,     \* parent: what is left to prepare
  base,     \* parent: the first size seen (-1 before)
  polls,    \* parent: polls so far
  grew,     \* the loop ended because the file grew
  bulkAtKill, \* and uncommitted rows had been inserted by then
  killed,   \* what the SIGKILL went to
  counts,   \* what the parent printed
  stale,    \* the file of an earlier run could not be removed
  faults

file == <<size, pages, tip, mine>>
writer == <<call, wpc, rows, acked, pipe>>
watch == <<base, polls, grew, bulkAtKill>>
parent == <<ppc, todo, watch, killed, counts, stale>>
vars == <<twin, file, writer, parent, faults>>

-----------------------------------------------------------------------------
(* The programs.  before: what the parent does ahead of the spawn.          *)
(* writer: the child's steps.  watch: what the parent looks at, and how     *)
(* many times.  noUnlink, noChild: what a failed removal of the old file    *)
(* and a failed spawn do to the parent.                                     *)

(* writer(): the crash victim of the programs that run the engine in the
   child, from a database it creates, or attaches to when there is one. *)
Writer(create) == <<create, "table", "marker", "say", "bulk">>

(* Mutant: the marker is announced ahead of its commit. *)
CppAnnouncesFirst ==
  [engine |-> "embedded", before |-> <<"unlink">>, noUnlink |-> "ignored",
   writer |-> <<"attachOrCreate", "table", "say", "marker", "bulk">>,
   watch |-> "size", polls |-> Polls, noChild |-> "ignored"]

(* Mutant: the file of an earlier run is not removed. *)
CppKeepsFile ==
  [engine |-> "embedded", before |-> <<>>, noUnlink |-> "ignored",
   writer |-> Writer("attachOrCreate"),
   watch |-> "size", polls |-> Polls, noChild |-> "ignored"]

CppCarefulWrites ==
  [engine |-> "embedded", before |-> <<"unlink">>, noUnlink |-> "ignored",
   writer |-> Writer("attachOrCreate"),
   watch |-> "size", polls |-> Polls, noChild |-> "ignored"]

FbCppCarefulWrites ==
  [engine |-> "embedded", before |-> <<"unlink">>, noUnlink |-> "ignored",
   writer |-> Writer("attachOrCreate"),
   watch |-> "size", polls |-> Polls, noChild |-> "ignored"]

FpcCarefulWrites ==
  [engine |-> "embedded", before |-> <<"unlink">>, noUnlink |-> "ignored",
   writer |-> Writer("attachOrCreate"),
   watch |-> "size", polls |-> Polls, noChild |-> "raised"]

PythonCarefulWrites ==
  [engine |-> "embedded", before |-> <<"unlink">>, noUnlink |-> "raised",
   writer |-> Writer("create"),
   watch |-> "size", polls |-> Polls, noChild |-> "raised"]

RustCarefulWrites ==
  [engine |-> "embedded", before |-> <<"unlink">>, noUnlink |-> "ignored",
   writer |-> Writer("create"),
   watch |-> "size", polls |-> Polls, noChild |-> "raised"]

JavaCarefulWrites ==
  [engine |-> "embedded", before |-> <<"unlink">>, noUnlink |-> "raised",
   writer |-> Writer("attachOrCreate"),
   watch |-> "size", polls |-> 2 * Polls, noChild |-> "raised"]

(* FbConnection.CreateDatabase, with overwrite, closes the new database;
   Open is one more call that may fail. *)
CSharpCarefulWrites ==
  [engine |-> "embedded", before |-> <<"unlink">>, noUnlink |-> "raised",
   writer |-> <<"overwrite", "open", "table", "marker", "say", "bulk">>,
   watch |-> "size", polls |-> Polls, noChild |-> "raised"]

(* Mutant: the database is left to the writer, as in the other programs. *)
GoWriterCreates ==
  [engine |-> "server", before |-> <<"unlink">>, noUnlink |-> "raised",
   writer |-> Writer("create"),
   watch |-> "size", polls |-> 2 * Polls, noChild |-> "raised"]

(* The parent creates database and table before it starts the writer. *)
GoCarefulWrites ==
  [engine |-> "server", before |-> <<"recreate", "table">>, noUnlink |-> "raised",
   writer |-> <<"open", "marker", "say", "bulk">>,
   watch |-> "size", polls |-> 2 * Polls, noChild |-> "raised"]

(* Mutant: the rows go through the autocommitting conn.query. *)
JsRowsAutocommit ==
  [engine |-> "server", before |-> <<>>, noUnlink |-> "raised",
   writer |-> <<"attachOrCreate", "drop", "table", "marker", "say", "autobulk">>,
   watch |-> "output", polls |-> 0, noChild |-> "raised"]

(* The file of an earlier run is kept: attachOrCreate, then a drop whose
   error is ignored. *)
JsCarefulWrites ==
  [engine |-> "server", before |-> <<>>, noUnlink |-> "raised",
   writer |-> <<"attachOrCreate", "drop", "table", "marker", "say", "bulk">>,
   watch |-> "output", polls |-> 0, noChild |-> "raised"]

AllTwins == {CppCarefulWrites, FbCppCarefulWrites, FpcCarefulWrites,
             PythonCarefulWrites, RustCarefulWrites, JavaCarefulWrites,
             CSharpCarefulWrites, GoCarefulWrites, JsCarefulWrites}

ASSUME TwinsAssumption == Twins \subseteq AllTwins

-----------------------------------------------------------------------------
NoChild == 0
Dead == -1
Idle == [op |-> "none", in |-> "-"]
Creates == {"attachOrCreate", "create", "overwrite"}
Calls == Creates \cup {"open", "drop", "table", "marker", "bulk", "autobulk"}
MaxSize == Created + 2 * Meta + Growth + 1

FlagsOK ==
  acked \in BOOLEAN /\ grew \in BOOLEAN /\ bulkAtKill \in BOOLEAN /\ stale \in BOOLEAN

TypeOK ==
  /\ FlagsOK
  /\ twin \in Twins
  /\ size \in 0..MaxSize
  /\ pages \subseteq {"database", "table", "marker", "bulk"}
  /\ tip \subseteq {"table", "marker", "bulk"} /\ mine \subseteq tip
  /\ call \in [op : Calls, in : {"data", "tip"}] \cup {Idle}
  /\ wpc \in Dead..6
  /\ rows \in 0..MaxRows /\ pipe \in Seq(0..MaxRows)
  /\ ppc \in {"prepare", "watch", "kill", "attach", "marker", "bulk", "ok", "error"}
  /\ todo \in Seq({"unlink", "recreate", "table"})
  /\ base \in -1..MaxSize /\ polls \in 0..(2 * Polls)
  /\ killed \in {"-", "writer", "everyone"}
  /\ counts \in [marker : {-1, 0, 1}, bulk : -1..MaxRows]
  /\ faults \in 0..MaxFaults

(* An earlier run may have left its database behind. *)
Init ==
  /\ twin \in Twins
  /\ \/ size = 0 /\ pages = {} /\ tip = {}
     \/ /\ size = Created /\ pages = {"database", "table", "marker", "bulk"}
        /\ tip = {"table", "marker"}
  /\ mine = {} /\ stale = FALSE
  /\ call = Idle /\ wpc = NoChild /\ rows = 0 /\ acked = FALSE /\ pipe = <<>>
  /\ ppc = "prepare" /\ todo = twin.before
  /\ base = -1 /\ polls = 0 /\ grew = FALSE /\ bulkAtKill = FALSE
  /\ killed = "-" /\ counts = [marker |-> -1, bulk |-> -1] /\ faults = 0

Alive == wpc > NoChild
Doing(op) == call.op = op
WriterStep == twin.writer[wpc]
ClientGone == twin.engine = "server" /\ wpc = Dead

-----------------------------------------------------------------------------
(* The writer *)

WriterCalls ==
  /\ Alive /\ call = Idle /\ WriterStep \in Calls
  /\ call' = [op |-> WriterStep, in |-> "data"]
  /\ UNCHANGED <<twin, file, wpc, rows, acked, pipe, parent, faults>>

(* The program prints that the marker row is committed. *)
WriterSays ==
  /\ Alive /\ call = Idle /\ WriterStep = "say"
  /\ acked' = TRUE /\ wpc' = wpc + 1
  /\ pipe' = IF twin.watch = "output" THEN Append(pipe, 0) ELSE pipe
  /\ UNCHANGED <<twin, file, call, rows, parent, faults>>

(* A call fails: the writer reports it and ends.  Only the Node writer's
   drop is in a try of its own. *)
WriterFails ==
  /\ Alive /\ call.in = "data" /\ faults < MaxFaults
  /\ faults' = faults + 1 /\ call' = Idle
  /\ wpc' = IF Doing("drop") THEN wpc + 1 ELSE Dead
  /\ UNCHANGED <<twin, file, rows, acked, pipe, parent>>

-----------------------------------------------------------------------------
(* The engine: in the writer's process, or a server that outlives it *)

Returns == call' = Idle /\ wpc' = IF Alive THEN wpc + 1 ELSE wpc

(* The file is extended page by page until the database is complete. *)
EngineCreates ==
  /\ call.op \in Creates /\ "database" \notin pages
  /\ size' \in (size + 1)..Created
  /\ IF size' = Created THEN pages' = {"database"} /\ Returns
                        ELSE UNCHANGED <<pages, call, wpc>>
  /\ UNCHANGED <<twin, tip, mine, rows, acked, pipe, parent, faults>>

EngineAttaches ==
  /\ Doing("open") \/ (Doing("attachOrCreate") /\ "database" \in pages)
  /\ Returns
  /\ UNCHANGED <<twin, file, rows, acked, pipe, parent, faults>>

EngineDrops ==
  /\ Doing("drop") /\ "table" \in tip
  /\ pages' = {"database"} /\ tip' = {}
  /\ Returns
  /\ UNCHANGED <<twin, size, mine, rows, acked, pipe, parent, faults>>

(* Errors that need no fault: no table to drop (ignored by the writer), a
   database or a table that is there already (the writer ends). *)
EngineRefuses ==
  /\ Alive /\ call.in = "data"
  /\ \/ Doing("drop") /\ "table" \notin tip /\ wpc' = wpc + 1
     \/ Doing("create") /\ "database" \in pages /\ wpc' = Dead
     \/ Doing("table") /\ "table" \in tip /\ wpc' = Dead
  /\ call' = Idle
  /\ UNCHANGED <<twin, file, rows, acked, pipe, parent, faults>>

EngineFlushesData ==
  /\ call.op \in {"table", "marker"} /\ call.in = "data" /\ call.op \notin tip
  /\ pages' = pages \cup {call.op}
  /\ size' \in size..(size + Meta)
  /\ call' = [call EXCEPT !.in = "tip"]
  /\ UNCHANGED <<twin, tip, mine, wpc, rows, acked, pipe, parent, faults>>

EngineCommits ==
  /\ call.in = "tip"
  /\ tip' = tip \cup {call.op} /\ mine' = mine \cup {call.op}
  /\ Returns
  /\ UNCHANGED <<twin, size, pages, rows, acked, pipe, parent, faults>>

(* A batch of rows of the transaction that never commits.  The Node writer
   prints as it goes. *)
EngineInserts ==
  /\ call.op \in {"bulk", "autobulk"} /\ rows < MaxRows
  /\ rows' = rows + 1
  /\ size' \in size..MaxSize
  /\ pages' = IF size' > size THEN pages \cup {"bulk"} ELSE pages
  /\ tip' = IF Doing("autobulk") THEN tip \cup {"bulk"} ELSE tip
  /\ pipe' = IF twin.watch = "output" /\ Alive THEN Append(pipe, rows') ELSE pipe
  /\ UNCHANGED <<twin, mine, call, wpc, acked, parent, faults>>

(* The server finds the connection of a killed client closed: the call and
   the transaction it belongs to end there. *)
ServerCleansUp ==
  /\ ClientGone /\ call # Idle
  /\ call' = Idle
  /\ UNCHANGED <<twin, file, wpc, rows, acked, pipe, parent, faults>>

-----------------------------------------------------------------------------
(* The parent *)

Prepare ==
  /\ ppc = "prepare" /\ todo # <<>>
  /\ todo' = Tail(todo)
  /\ CASE Head(todo) = "unlink"   -> size' = 0 /\ pages' = {} /\ tip' = {}
       [] Head(todo) = "recreate" -> size' = Created /\ pages' = {"database"} /\ tip' = {}
       [] Head(todo) = "table"    -> /\ size' \in size..(size + Meta)
                                     /\ pages' = pages \cup {"table"}
                                     /\ tip' = tip \cup {"table"}
  /\ UNCHANGED <<twin, mine, writer, ppc, watch, killed, counts, stale, faults>>

(* The old file stays. *)
UnlinkFails ==
  /\ ppc = "prepare" /\ todo # <<>> /\ Head(todo) = "unlink" /\ size > 0
  /\ faults < MaxFaults /\ faults' = faults + 1
  /\ IF twin.noUnlink = "ignored" THEN todo' = Tail(todo) /\ stale' = TRUE /\ ppc' = ppc
                                  ELSE ppc' = "error" /\ UNCHANGED <<todo, stale>>
  /\ UNCHANGED <<twin, file, writer, watch, killed, counts>>

Spawn ==
  /\ ppc = "prepare" /\ todo = <<>>
  /\ wpc' = 1 /\ ppc' = "watch"
  /\ UNCHANGED <<twin, file, call, rows, acked, pipe, todo, watch, killed, counts, stale, faults>>

(* The C++ programs test the result of fork() for 0 only. *)
SpawnFails ==
  /\ ppc = "prepare" /\ todo = <<>> /\ faults < MaxFaults
  /\ faults' = faults + 1
  /\ ppc' = IF twin.noChild = "ignored" THEN "watch" ELSE "error"
  /\ UNCHANGED <<twin, file, writer, todo, watch, killed, counts, stale>>

(* Mutant: only growth ends the loop. *)
PollForever ==
  /\ ppc = "watch" /\ twin.watch = "size"
  /\ polls' = polls
  /\ base' = IF base < 0 /\ size > 0 THEN size ELSE base
  /\ grew' = (base' > 0 /\ size > base' + Growth)
  /\ bulkAtKill' = (grew' /\ rows > 0)
  /\ ppc' = IF grew' THEN "kill" ELSE ppc
  /\ UNCHANGED <<twin, file, writer, todo, killed, counts, stale, faults>>

Poll ==
  /\ ppc = "watch" /\ twin.watch = "size"
  /\ polls' = polls + 1
  /\ base' = IF base < 0 /\ size > 0 THEN size ELSE base
  /\ grew' = (base' > 0 /\ size > base' + Growth)
  /\ bulkAtKill' = (grew' /\ rows > 0)
  /\ ppc' = IF grew' \/ polls' = twin.polls THEN "kill" ELSE ppc
  /\ UNCHANGED <<twin, file, writer, todo, killed, counts, stale, faults>>

(* Node: a chunk holds all the writer has printed since the last one; the
   parent looks for the message of the second batch in it. *)
ReadChunk ==
  /\ ppc = "watch" /\ twin.watch = "output" /\ pipe # <<>>
  /\ pipe' = <<>>
  /\ grew' = (2 \in ToSet(pipe))
  /\ bulkAtKill' = (grew' /\ rows > 0)
  /\ ppc' = IF grew' THEN "kill" ELSE ppc
  /\ UNCHANGED <<twin, file, call, wpc, rows, acked, todo, base, polls, killed, counts, stale,
                 faults>>

(* The writer's end closes its output and nothing is left to wait for: the
   promise stays pending and Node ends the parent with status 0. *)
OutputEnds ==
  /\ ppc = "watch" /\ twin.watch = "output" /\ pipe = <<>> /\ wpc = Dead
  /\ ppc' = "ok"
  /\ UNCHANGED <<twin, file, writer, todo, watch, killed, counts, stale, faults>>

(* SIGKILL and the wait for the child's end.  An embedded engine stops where
   it is; kill(-1, SIGKILL) reaches every process of the user. *)
Kill ==
  /\ ppc = "kill"
  /\ killed' = IF wpc = NoChild THEN "everyone" ELSE "writer"
  /\ wpc' = IF wpc = NoChild THEN wpc ELSE Dead
  /\ call' = IF twin.engine = "embedded" THEN Idle ELSE call
  /\ ppc' = "attach"
  /\ UNCHANGED <<twin, file, rows, acked, pipe, todo, watch, counts, stale, faults>>

(* Re-attach: fails when there is no complete database. *)
Reattach ==
  /\ ppc = "attach"
  /\ ppc' = IF "database" \in pages THEN "marker" ELSE "error"
  /\ UNCHANGED <<twin, file, writer, todo, watch, killed, counts, stale, faults>>

Seen(t) == t \in tip /\ t \in pages

(* The two counts: an error when cw is not there. *)
Count ==
  \E t \in {"marker", "bulk"} :
    /\ ppc = t
    /\ IF Seen("table")
       THEN /\ counts' = [counts EXCEPT ![t] = IF ~Seen(t) THEN 0
                                               ELSE IF t = "bulk" THEN rows ELSE 1]
            /\ ppc' = IF t = "marker" THEN "bulk" ELSE "ok"
       ELSE ppc' = "error" /\ counts' = counts
    /\ UNCHANGED <<twin, file, writer, todo, watch, killed, stale, faults>>

ParentFails ==
  /\ \/ ppc \in {"attach", "marker", "bulk"}
     \/ ppc = "prepare" /\ todo # <<>> /\ Head(todo) # "unlink"
  /\ faults < MaxFaults
  /\ faults' = faults + 1 /\ ppc' = "error"
  /\ UNCHANGED <<twin, file, writer, todo, watch, killed, counts, stale>>

Ended == ppc \in {"ok", "error"}
Done == Ended /\ UNCHANGED vars

Engine == \/ EngineCreates \/ EngineAttaches \/ EngineDrops \/ EngineRefuses
          \/ EngineFlushesData \/ EngineCommits \/ EngineInserts
Child == WriterCalls \/ WriterSays
Parent == Prepare \/ Spawn \/ Poll \/ ReadChunk \/ OutputEnds \/ Kill \/ Reattach \/ Count

Next == \/ Engine \/ ServerCleansUp \/ Child \/ WriterFails
        \/ Parent \/ UnlinkFails \/ SpawnFails \/ ParentFails \/ Done

(* The processes are scheduled and a sound engine works on its call. *)
Fairness == WF_vars(Engine) /\ WF_vars(Child) /\ WF_vars(Parent)

Spec == Init /\ [][Next]_vars /\ Fairness

-----------------------------------------------------------------------------
(* Properties *)

(* A marker the writer announced as committed is counted after the kill,
   wherever in the writer's or the engine's work SIGKILL struck: whenever
   the parent prints its verdict the count is 1. *)
AnnouncedMarkerSurvives == acked /\ counts.marker # -1 => counts.marker = 1

(* No row of the transaction that never committed is counted, although its
   pages are in the file and, with a server, the insert may still be running
   while the parent counts. *)
NoGhostRows == counts.bulk \in {-1, 0}

(* The marker the parent reports as surviving was committed by this run's
   writer and not left behind by an earlier one, unless the old file could
   not be removed. *)
VerdictIsFresh == counts.marker = 1 /\ ~stale => "marker" \in mine

(* The kill falls after the first uncommitted rows whenever growth triggers it and
   the base was taken from a complete database: always in the Go program,
   whose parent creates the database itself, and in the Node program, which
   waits for the insert's own message. *)
KillMidInsert ==
  grew /\ (twin.engine = "server" \/ base >= Created) => bulkAtKill

(* A parent that reports success has printed both counts, except in the Node
   program, which ends with status 0 when its writer dies early. *)
SuccessHasVerdict ==
  ppc = "ok" /\ twin.watch = "size" => counts.marker # -1 /\ counts.bulk # -1

(* A verdict is about this run's writer, and success comes with one. *)
VerdictInv == TypeOK /\ VerdictIsFresh /\ SuccessHasVerdict

(* Every parent ends: its loop is bounded, or its writer prints or dies. *)
Terminates == <>Ended

(* What the comment at the loop says is killed: the engine's process. *)
KillsTheWriter == killed # "everyone"
=============================================================================
