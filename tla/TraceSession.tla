---------------------------- MODULE TraceSession ----------------------------
(***************************************************************************)
(* The trace programs: service A starts a trace session and reads its      *)
(* output until the session ends; a worker runs a marker query and then    *)
(* stops the session through service B.  The reader ends only because the  *)
(* worker stops, and in most programs the worker can stop only what the    *)
(* reader has learnt from the stream.                                      *)
(*                                                                         *)
(* At most one thing goes wrong in a behaviour: the start, the marker      *)
(* query, a call of service B, the stream, or another session of the same  *)
(* name on the server (a second copy of the program).                      *)
(***************************************************************************)
EXTENDS Integers, Sequences

CONSTANTS Twins, \* the programs to run, records like CppTrace below
          Busy   \* most lines of other work the observed database adds

ASSUME TraceAssumption == Busy \in Nat

VARIABLES
  twin,     \* the program that runs
  session,  \* server: "none", "running", "ended"
  stream,   \* lines of it that service A has not read
  other,    \* another session of the same name is listed ahead of ours
  busy,     \* lines of other work so far
  id,       \* the session the program would stop: "none", "own", "other"
  ran,      \* the marker query has run, and its trace has been printed
  seen,
  rpc,      \* reader: "start", "reading", "eof", "failed"
  wpc,      \* worker: "-", "wait", "marker", "id", "stop", "ended", "died"
  asked,    \* what the stop call named ("-" before it)
  raised,   \* an exception is on its way through a finally block
  out,      \* "running", "done" (printed), "error", "aborted", "exited"
  fault     \* what went wrong

server == <<session, stream, other, busy>>
vars == <<twin, server, id, ran, seen, rpc, wpc, asked, raised, out, fault>>

-----------------------------------------------------------------------------
(* The programs.  main: the side the main thread is on.  id: where the      *)
(* session's id comes from.  join: the reader waits for the worker at the   *)
(* end.  marker, stop, stream: what an error of the marker query, of        *)
(* service B and of the stream does.                                        *)

(* Both attempts of the worker have a catch of their own; an error of the
   stream passes the joinable std::thread. *)
CppTrace == [main |-> "reader", id |-> "stream", join |-> TRUE,
             marker |-> "goOn", stop |-> "worker ends", stream |-> "abort"]

(* nextLine tests the status: an error reads like the end of the stream. *)
FbCppTrace == [main |-> "reader", id |-> "stream", join |-> TRUE,
               marker |-> "goOn", stop |-> "worker ends", stream |-> "eof"]

(* TThread keeps an exception of Execute to itself. *)
FpcTrace == [main |-> "reader", id |-> "stream", join |-> TRUE,
             marker |-> "worker ends", stop |-> "worker ends", stream |-> "exit"]

(* trace.start returns the id; an exception ends only its own thread, and
   the interpreter waits for the worker before it exits. *)
PythonTrace == [main |-> "reader", id |-> "start", join |-> TRUE,
                marker |-> "worker ends", stop |-> "worker ends", stream |-> "wait"]

GoTrace == [main |-> "reader", id |-> "start", join |-> FALSE,
            marker |-> "exit", stop |-> "exit", stream |-> "exit"]

(* A rejection in a timer's async function ends the process. *)
JsTrace == [main |-> "reader", id |-> "stream so far", join |-> FALSE,
            marker |-> "exit", stop |-> "exit", stream |-> "exit"]

(* The driver reads the stream on a thread of its own, which is no daemon;
   the id is still null in the finally when the marker query fails. *)
JavaTrace == [main |-> "worker", id |-> "list", join |-> FALSE,
              marker |-> "raise past the id", stop |-> "raise", stream |-> "reader ends"]

(* Waits 5 s for the id of the stream, asks the list in the finally when
   there is none, and waits 10 s for the reader. *)
CSharpTrace == [main |-> "worker", id |-> "stream or list", join |-> TRUE,
                marker |-> "raise", stop |-> "raise", stream |-> "reader ends"]

AllTwins == {CppTrace, FbCppTrace, FpcTrace, PythonTrace, GoTrace, JsTrace,
             JavaTrace, CSharpTrace}

ASSUME TwinsAssumption == Twins \subseteq AllTwins

-----------------------------------------------------------------------------
FlagsOK == /\ other \in BOOLEAN /\ ran \in BOOLEAN /\ seen \in BOOLEAN
           /\ raised \in BOOLEAN

TypeOK ==
  /\ FlagsOK
  /\ twin \in Twins
  /\ session \in {"none", "running", "ended"}
  /\ stream \in Seq({"id", "marker", "busy"}) /\ Len(stream) <= Busy + 2
  /\ busy \in 0..Busy
  /\ id \in {"none", "own", "other"}
  /\ (seen => ran)
  /\ rpc \in {"start", "reading", "eof", "failed"}
  /\ wpc \in {"-", "wait", "marker", "id", "stop", "ended", "died"}
  /\ asked \in {"-", "none", "own", "other"}
  /\ out \in {"running", "done", "error", "aborted", "exited"}
  /\ fault \in {"none", "other", "start", "marker", "stop", "stream"}

Init ==
  /\ twin \in Twins
  /\ \/ other = FALSE /\ fault = "none"
     \/ other = TRUE /\ fault = "other"
  /\ session = "none" /\ stream = <<>> /\ busy = 0
  /\ id = "none" /\ ran = FALSE /\ seen = FALSE
  /\ rpc = "start" /\ wpc = "-" /\ asked = "-" /\ raised = FALSE /\ out = "running"

Runs == out = "running"

(* trace_start, and the worker after it. *)
StartSession ==
  /\ Runs /\ rpc = "start"
  /\ session' = "running" /\ rpc' = "reading"
  /\ IF twin.id = "start" THEN id' = "own" /\ stream' = <<>>
                          ELSE id' = id /\ stream' = <<"id">>
  /\ wpc' = IF twin.id = "stream or list" THEN "wait" ELSE "marker"
  /\ UNCHANGED <<twin, other, busy, ran, seen, asked, raised, out, fault>>

(* The database or service A cannot be reached.  In C# the call is made on
   the reader's thread, which records the error. *)
StartFails ==
  /\ Runs /\ rpc = "start" /\ fault = "none"
  /\ fault' = "start"
  /\ IF twin.stream = "reader ends" /\ twin.join
     THEN rpc' = "failed" /\ wpc' = "wait" /\ out' = out
     ELSE out' = "error" /\ UNCHANGED <<rpc, wpc>>
  /\ UNCHANGED <<twin, server, id, ran, seen, asked, raised>>

(* Other clients of the traced database. *)
OtherWork ==
  /\ session = "running" /\ busy < Busy
  /\ busy' = busy + 1 /\ stream' = Append(stream, "busy")
  /\ UNCHANGED <<twin, session, other, id, ran, seen, rpc, wpc, asked, raised, out, fault>>

-----------------------------------------------------------------------------
(* The reader *)

ReadLine ==
  /\ rpc = "reading" /\ out \in {"running", "done"} /\ stream # <<>>
  /\ stream' = Tail(stream)
  /\ seen' = (seen \/ Head(stream) = "marker")
  /\ id' = IF Head(stream) = "id" /\ id = "none" /\ twin.id # "list" THEN "own" ELSE id
  /\ UNCHANGED <<twin, session, other, busy, ran, rpc, wpc, asked, raised, out, fault>>

(* Mutant: an answer without a line is taken for the end. *)
ReadEofWhenIdle ==
  /\ rpc = "reading" /\ out \in {"running", "done"} /\ stream = <<>>
  /\ rpc' = "eof"
  /\ UNCHANGED <<twin, server, id, ran, seen, wpc, asked, raised, out, fault>>

ReadEof ==
  /\ rpc = "reading" /\ out \in {"running", "done"} /\ stream = <<>> /\ session = "ended"
  /\ rpc' = "eof"
  /\ UNCHANGED <<twin, server, id, ran, seen, wpc, asked, raised, out, fault>>

(* Service A's connection is lost, and the session with it. *)
StreamFails ==
  /\ rpc = "reading" /\ Runs /\ fault = "none"
  /\ fault' = "stream" /\ session' = "ended"
  /\ rpc' = IF twin.stream = "eof" THEN "eof" ELSE "failed"
  /\ out' = CASE twin.stream = "abort" -> "aborted"
              [] twin.stream = "exit"  -> "error"
              [] OTHER                 -> out
  /\ UNCHANGED <<twin, stream, other, busy, id, ran, seen, wpc, asked, raised>>

-----------------------------------------------------------------------------
(* The worker *)

(* C#: the id arrives, five seconds pass, or the reader's end cancels the
   wait, which is an error unless the reader recorded one. *)
WaitForId ==
  /\ Runs /\ wpc = "wait"
  /\ \/ (id # "none" \/ rpc = "reading") /\ wpc' = "marker" /\ raised' = raised
     \/ id = "none" /\ rpc # "reading" /\ wpc' = "id" /\ raised' = (rpc = "eof")
  /\ UNCHANGED <<twin, server, id, ran, seen, rpc, asked, out, fault>>

Marker ==
  /\ Runs /\ wpc = "marker"
  /\ ran' = TRUE /\ wpc' = "id"
  /\ stream' = IF session = "running" THEN Append(stream, "marker") ELSE stream
  /\ UNCHANGED <<twin, session, other, busy, id, seen, rpc, asked, raised, out, fault>>

(* What an error of the worker does, by the program's handler. *)
Handles(handler) ==
  /\ wpc' = CASE handler = "goOn"              -> "id"
              [] handler = "raise" /\ wpc = "marker" -> "id"
              [] handler = "raise" \/ handler = "raise past the id" -> "ended"
              [] OTHER                         -> "died"
  /\ raised' = (raised \/ handler \in {"raise", "raise past the id"})
  /\ out' = IF handler = "exit" THEN "error" ELSE out

MarkerFails ==
  /\ Runs /\ wpc = "marker" /\ fault = "none"
  /\ fault' = "marker"
  /\ Handles(twin.marker)
  /\ UNCHANGED <<twin, server, id, ran, seen, rpc, asked>>

Listed == IF other THEN "other" ELSE IF session = "running" THEN "own" ELSE "none"

(* The id: spun for, at hand, taken as it is, or looked up by name, in which
   case nothing is stopped when the list does not have it. *)
GetId ==
  /\ Runs /\ wpc = "id"
  /\ CASE twin.id = "stream" -> id # "none" /\ id' = id /\ wpc' = "stop"
       [] twin.id \in {"start", "stream so far"} -> id' = id /\ wpc' = "stop"
       [] OTHER -> /\ id' = IF id = "none" THEN Listed ELSE id
                   /\ wpc' = IF id' = "none" THEN "ended" ELSE "stop"
  /\ UNCHANGED <<twin, server, ran, seen, rpc, asked, raised, out, fault>>

(* Mutant: the second service is never used. *)
StopForgotten ==
  /\ Runs /\ wpc = "stop"
  /\ wpc' = "ended"
  /\ UNCHANGED <<twin, server, id, ran, seen, rpc, asked, raised, out, fault>>

(* trace_stop: refused when there is no such session. *)
Stop ==
  /\ Runs /\ wpc = "stop"
  /\ asked' = id
  /\ \/ /\ id = "own" /\ session = "running"
        /\ session' = "ended" /\ wpc' = "ended" /\ UNCHANGED <<other, raised, out>>
     \/ /\ id = "other"
        /\ other' = FALSE /\ wpc' = "ended" /\ UNCHANGED <<session, raised, out>>
     \/ /\ id = "none" \/ (id = "own" /\ session # "running")
        /\ Handles(twin.stop) /\ UNCHANGED <<session, other>>
  /\ UNCHANGED <<twin, stream, busy, id, ran, seen, rpc, fault>>

(* Service B cannot be reached: attach, list or stop. *)
StopFails ==
  /\ Runs /\ wpc \in {"id", "stop"} /\ fault = "none"
  /\ (twin.id = "stream" => id # "none")
  /\ fault' = "stop"
  /\ Handles(twin.stop)
  /\ UNCHANGED <<twin, server, id, ran, seen, rpc, asked>>

-----------------------------------------------------------------------------
(* The end of main.  Main on the worker's side: Java sleeps a second, C#
   waits for the reader, or gives up after ten seconds. *)
WorkerOver == wpc \in {"ended", "died"}

Finish ==
  /\ Runs
  /\ \/ /\ twin.main = "reader" /\ rpc \in {"eof", "failed"}
        /\ (twin.join => WorkerOver)
        /\ out' = IF rpc = "eof" THEN "done" ELSE "error"
     \/ /\ twin.main = "worker" /\ WorkerOver
        /\ out' = IF raised \/ (twin.join /\ rpc = "failed") THEN "error" ELSE "done"
  /\ UNCHANGED <<twin, server, id, ran, seen, rpc, wpc, asked, raised, fault>>

(* The process ends: at once, but the JVM only when the driver's thread has
   ended.  The session goes with service A's connection. *)
Exit ==
  /\ out \in {"done", "error", "aborted"}
  /\ out = "done" /\ twin = JavaTrace => rpc \in {"eof", "failed"}
  /\ out' = "exited" /\ session' = "ended"
  /\ UNCHANGED <<twin, stream, other, busy, id, ran, seen, rpc, wpc, asked, raised, fault>>

(* The loops that find nothing new: the reader asking for a line of a
   running session, the worker looking for the id every 50 ms. *)
Poll ==
  /\ Runs \/ out = "done"
  /\ \/ rpc = "reading" /\ stream = <<>> /\ session = "running"
     \/ wpc = "id" /\ twin.id = "stream" /\ id = "none"
  /\ UNCHANGED vars

Ended == out = "exited"
Quiet == Ended /\ UNCHANGED vars

Reader == StartSession \/ ReadLine \/ ReadEof
Worker == WaitForId \/ Marker \/ GetId \/ Stop
Next == \/ Reader \/ Worker \/ Finish \/ Exit \/ Poll \/ Quiet
        \/ OtherWork \/ StartFails \/ StreamFails \/ MarkerFails \/ StopFails

(* Threads are scheduled, sleeps end, and the server answers; nobody has to
   work on the database and nothing has to fail. *)
Spec == Init /\ [][Next]_vars /\ WF_vars(Reader) /\ WF_vars(Worker)
             /\ WF_vars(Finish \/ Exit)

-----------------------------------------------------------------------------
(* Properties *)

(* A program that has read the stream to its end says "done." only after the
   trace of the worker's query has been printed and the session has been
   stopped, whatever the timing of the worker's sleeps and the stream. *)
DoneMeansTraced ==
  out = "done" /\ (twin.main = "reader" \/ rpc = "eof") /\ fault \in {"none", "other"}
    => ran /\ seen /\ session = "ended"

(* No program says "done." with its session still running on the server,
   unless it looks the session up by a name that two sessions have. *)
DoneMeansStopped ==
  out = "done" /\ (fault = "other" => twin.main = "reader") => session = "ended"

(* The state keeps its types, and "done." means that the session is stopped. *)
TraceInv == TypeOK /\ DoneMeansStopped

(* The faults a program does not survive: the reader waits for the end of a
   session nobody will stop, or the worker for an id nobody will read. *)
Strands ==
  \/ fault = "marker" /\ twin.marker = "worker ends"
  \/ fault = "stop" /\ twin.stop = "worker ends"
  \/ fault = "stream" /\ twin.stream = "eof" /\ id = "none"
  \/ fault = "other" /\ twin.id = "list"

(* Every program ends, with every fault but the ones listed in Strands. *)
Terminates == <>(Ended \/ Strands)
=============================================================================
