----------------------------- MODULE TraceProofs ----------------------------
(***************************************************************************)
(* The trace programs print "done." only when the session is stopped and   *)
(* the marker query's trace has been shown, for any amount of other work   *)
(* on the traced database and any timing of reader and worker.             *)
(***************************************************************************)
EXTENDS TraceSession, SequenceTheorems, TLAPS

Healthy == fault \in {"none", "other"}
MarkerOnItsWay == \E i \in DOMAIN stream : stream[i] = "marker"

(* The session: who has started it, and who alone ends it when nothing fails. *)
SessionInv ==
  /\ rpc = "start" /\ out # "exited" => session = "none"
  /\ rpc = "start" => stream = <<>> /\ wpc = "-"
  /\ rpc # "start" => wpc # "-"
  /\ session = "none" => rpc = "start" \/ (rpc = "failed" /\ twin = CSharpTrace)
  /\ rpc = "failed" => ~Healthy
  /\ rpc = "eof" => session = "ended" /\ (Healthy => stream = <<>>)
  /\ session = "ended" /\ Healthy /\ out # "exited" => wpc = "ended"
  /\ wpc = "wait" => twin = CSharpTrace
  /\ out = "exited" => session = "ended"

(* The marker query: run before the worker goes on, traced unless something
   failed, and its trace is either fetched or waiting. *)
MarkerInv ==
  /\ wpc \in {"-", "wait", "marker"} => ~ran
  /\ wpc \in {"id", "stop", "ended", "died"} /\ Healthy => ran
  /\ MarkerOnItsWay \/ seen => ran
  /\ ran /\ Healthy /\ out # "exited" => seen \/ MarkerOnItsWay

(* The stream's lines: the id, the marker, other work. *)
RoomInv == Len(stream) <= busy + (IF rpc = "start" THEN 0 ELSE 1) + (IF ran THEN 1 ELSE 0)

(* Whose session the id means, and what the worker's end says. *)
WorkerInv ==
  /\ other => fault = "other"
  /\ id = "other" => fault = "other"
  /\ twin.main = "worker" /\ WorkerOver /\ ~raised /\ fault # "other"
       => session = "ended" \/ (session = "none" /\ rpc = "failed" /\ twin.join)

IInv == /\ TypeOK /\ SessionInv /\ MarkerInv /\ RoomInv /\ WorkerInv
        /\ DoneMeansStopped /\ DoneMeansTraced

Lines == {"id", "marker", "busy"}

LEMMA AppendLine ==
  ASSUME NEW s \in Seq(Lines), NEW x \in Lines, NEW t, t = Append(s, x)
  PROVE  /\ t \in Seq(Lines) /\ Len(t) = Len(s) + 1
         /\ (\E i \in DOMAIN t : t[i] = "marker")
              <=> x = "marker" \/ \E i \in DOMAIN s : s[i] = "marker"
<1>1. /\ t \in Seq(Lines) /\ Len(t) = Len(s) + 1 /\ DOMAIN t = 1..(Len(s) + 1)
      /\ DOMAIN s = 1..Len(s) /\ Len(s) \in Nat
  OBVIOUS
<1>2. t[Len(s) + 1] = x /\ \A i \in 1..Len(s) : t[i] = s[i]
  OBVIOUS
<1>3. \A i \in DOMAIN t : i = Len(s) + 1 \/ i \in DOMAIN s
  BY <1>1
<1>4. Len(s) + 1 \in DOMAIN t /\ \A i \in DOMAIN s : i \in DOMAIN t
  BY <1>1
<1> QED
  BY <1>1, <1>2, <1>3, <1>4

LEMMA TailLine ==
  ASSUME NEW s \in Seq(Lines), s # <<>>, NEW t, t = Tail(s)
  PROVE  /\ t \in Seq(Lines) /\ Len(t) = Len(s) - 1 /\ Len(s) \in Nat
         /\ (\E i \in DOMAIN s : s[i] = "marker")
              <=> Head(s) = "marker" \/ \E i \in DOMAIN t : t[i] = "marker"
<1>1. /\ t \in Seq(Lines) /\ Len(t) = Len(s) - 1 /\ Len(s) \in Nat /\ Head(s) = s[1]
      /\ \A i \in 1..Len(t) : t[i] = s[i + 1]
  BY HeadTailProperties
<1>2. DOMAIN t = 1..(Len(s) - 1) /\ DOMAIN s = 1..Len(s) /\ 1 \in DOMAIN s
  BY <1>1
<1>3. \A i \in DOMAIN t : i + 1 \in DOMAIN s /\ t[i] = s[i + 1]
  BY <1>1, <1>2
<1>4. ASSUME NEW i \in DOMAIN s, i # 1 PROVE i - 1 \in DOMAIN t /\ t[i - 1] = s[i]
  <2>1. i - 1 \in DOMAIN t /\ (i - 1) + 1 = i
    BY <1>1, <1>2, <1>4
  <2> QED
    BY <2>1, <1>3
<1> QED
  BY <1>1, <1>2, <1>3, <1>4, SMTT(30)

(* What the programs have in common: only C# waits for an id before the
   marker query and starts its session on the reader's thread, and where main
   is the worker every error is raised. *)
TwinFacts ==
  /\ twin.main \in {"reader", "worker"}
  /\ twin.main = "worker" => /\ twin.stop = "raise" /\ twin.stream = "reader ends"
                             /\ twin.marker \in {"raise", "raise past the id"}
                             /\ twin.id \in {"list", "stream or list"}
  /\ twin.stream = "reader ends" /\ twin.join => twin = CSharpTrace
  /\ twin.id = "stream or list" => twin = CSharpTrace
  /\ twin = CSharpTrace => twin.main = "worker" /\ twin.join

LEMMA TwinLemma ==
  ASSUME twin \in Twins PROVE TwinFacts
<1> USE DEF TwinFacts
<1>0. CSharpTrace.main = "worker" /\ CSharpTrace.join
  BY DEF CSharpTrace
<1>1. CASE twin = CppTrace
  BY <1>0, <1>1 DEF CppTrace
<1>2. CASE twin = FbCppTrace
  BY <1>0, <1>2 DEF FbCppTrace
<1>3. CASE twin = FpcTrace
  BY <1>0, <1>3 DEF FpcTrace
<1>4. CASE twin = PythonTrace
  BY <1>0, <1>4 DEF PythonTrace
<1>5. CASE twin = GoTrace
  BY <1>0, <1>5 DEF GoTrace
<1>6. CASE twin = JsTrace
  BY <1>0, <1>6 DEF JsTrace
<1>7. CASE twin = JavaTrace
  BY <1>0, <1>7 DEF JavaTrace
<1>8. CASE twin = CSharpTrace
  BY <1>0, <1>8 DEF CSharpTrace
<1> QED
  BY <1>1, <1>2, <1>3, <1>4, <1>5, <1>6, <1>7, <1>8, TwinsAssumption DEF AllTwins

LEMMA FlagsLemma ==
  ASSUME TypeOK, [Next]_vars PROVE FlagsOK'
<1> USE DEF FlagsOK
<1>0. FlagsOK
  BY DEF TypeOK
<1>1. CASE StartSession \/ StartFails \/ OtherWork
  BY <1>0, <1>1, Zenon DEF StartSession, StartFails, OtherWork, server
<1>2. CASE ReadLine
  BY <1>0, <1>2, Zenon DEF ReadLine
<1>3. CASE ReadEof \/ StreamFails
  BY <1>0, <1>3, Zenon DEF ReadEof, StreamFails, server
<1>4. CASE WaitForId
  BY <1>0, <1>4, Zenon DEF WaitForId, server
<1>5. CASE Marker
  BY <1>0, <1>5, Zenon DEF Marker
<1>6. CASE MarkerFails \/ StopFails
  BY <1>0, <1>6, Zenon DEF MarkerFails, StopFails, Handles, server
<1>7. CASE GetId
  BY <1>0, <1>7, Zenon DEF GetId, server
<1>8. CASE Stop
  <2>1. UNCHANGED <<ran, seen>> /\ (other' = other \/ other' = FALSE)
        /\ (raised' = raised \/ Handles(twin.stop))
    BY <1>8, Zenon DEF Stop
  <2> QED
    BY <1>0, <2>1, Zenon DEF Handles
<1>9. CASE Finish \/ Exit
  BY <1>0, <1>9, Zenon DEF Finish, Exit, server
<1>10. CASE UNCHANGED vars
  BY <1>0, <1>10, Zenon DEF vars, server
<1> QED
  BY <1>1, <1>2, <1>3, <1>4, <1>5, <1>6, <1>7, <1>8, <1>9, <1>10
     DEF Next, Reader, Worker, Poll, Quiet

LEMMA StartSessionLemma ==
  ASSUME IInv, FlagsOK', StartSession PROVE IInv'
<1>1. /\ out = "running" /\ rpc = "start"
      /\ session' = "running" /\ rpc' = "reading"
      /\ \/ id' = "own" /\ stream' = <<>>
         \/ id' = id /\ stream' = <<"id">>
      /\ wpc' = IF twin.id = "stream or list" THEN "wait" ELSE "marker"
      /\ UNCHANGED <<twin, busy, asked, out, fault>>
  BY DEF StartSession, Runs
<1>2. (other' <=> other) /\ (ran' <=> ran)
      /\ (seen' <=> seen) /\ (raised' <=> raised)
  BY Zenon DEF StartSession, Runs
<1>3. /\ TypeOK /\ SessionInv /\ MarkerInv /\ RoomInv /\ WorkerInv
      /\ DoneMeansStopped /\ DoneMeansTraced
  BY DEF IInv
<1>4. TwinFacts
  BY <1>3, TwinLemma DEF TypeOK
<1>5. /\ stream \in Seq(Lines) /\ Len(stream) \in Nat /\ busy \in Nat /\ Busy \in Nat
      /\ Len(stream) <= busy + (IF rpc = "start" THEN 0 ELSE 1) + (IF ran THEN 1 ELSE 0)
  BY <1>3, TraceAssumption DEF TypeOK, RoomInv, Lines
<1>6. /\ stream' \in Seq(Lines) /\ Len(stream') \in 0..1 /\ ~MarkerOnItsWay'
  <2>1. CASE stream' = <<>>
    BY <2>1 DEF MarkerOnItsWay, Lines
  <2>2. CASE stream' = <<"id">>
    <3>1. stream' \in Seq(Lines) /\ Len(stream') = 1 /\ DOMAIN stream' = {1} /\ stream'[1] = "id"
      BY <2>2 DEF Lines
    <3> QED
      BY <3>1 DEF MarkerOnItsWay
  <2> QED
    BY <1>1, <2>1, <2>2
<1>7. RoomInv' /\ Len(stream') <= Busy + 2
  <2>1. Len(stream') <= 1 /\ Len(stream') \in Nat
    <3>1. \A n \in 0..1 : n <= 1 /\ n \in Nat
      OBVIOUS
    <3> QED
      BY <1>6, <3>1, Zenon
  <2>2. RoomInv' <=> Len(stream') <= busy + 1 + (IF ran' THEN 1 ELSE 0)
    BY <1>1 DEF RoomInv
  <2> QED
    BY <2>1, <2>2, <1>5
<1>8. TypeOK'
  BY <1>1, <1>2, <1>3, <1>6, <1>7 DEF TypeOK, Lines
<1>9. SessionInv'
  BY <1>1, <1>2, <1>3, <1>4 DEF SessionInv, Healthy, TypeOK, TwinFacts
<1>10. MarkerInv'
  BY <1>1, <1>2, <1>3, <1>6 DEF MarkerInv, SessionInv, Healthy
<1>11. WorkerInv'
  BY <1>1, <1>2, <1>3 DEF WorkerInv, WorkerOver
<1>12. DoneMeansStopped'
  BY <1>1, <1>3 DEF DoneMeansStopped
<1>13. DoneMeansTraced'
  BY <1>1, <1>2, <1>3 DEF DoneMeansTraced
<1> QED
  BY <1>7, <1>8, <1>9, <1>10, <1>11, <1>12, <1>13 DEF IInv

LEMMA StartFailsLemma ==
  ASSUME IInv, FlagsOK', StartFails PROVE IInv'
<1>1. /\ out = "running" /\ rpc = "start" /\ fault = "none"
      /\ fault' = "start"
      /\ \/ /\ twin.stream = "reader ends" /\ twin.join
            /\ rpc' = "failed" /\ wpc' = "wait" /\ out' = out
         \/ out' = "error" /\ rpc' = rpc /\ wpc' = wpc
      /\ UNCHANGED <<twin, session, stream, busy, id, asked>>
  BY DEF StartFails, Runs, server
<1>2. (other' <=> other) /\ (ran' <=> ran)
      /\ (seen' <=> seen) /\ (raised' <=> raised)
  BY Zenon DEF StartFails, Runs, server
<1>3. /\ TypeOK /\ SessionInv /\ MarkerInv /\ RoomInv /\ WorkerInv
      /\ DoneMeansStopped /\ DoneMeansTraced
  BY DEF IInv
<1>4. TwinFacts
  BY <1>3, TwinLemma DEF TypeOK
<1>5. /\ stream \in Seq(Lines) /\ Len(stream) \in Nat /\ busy \in Nat /\ Busy \in Nat
      /\ Len(stream) <= busy + (IF rpc = "start" THEN 0 ELSE 1) + (IF ran THEN 1 ELSE 0)
  BY <1>3, TraceAssumption DEF TypeOK, RoomInv, Lines
<1>6. /\ stream' \in Seq(Lines) /\ Len(stream') = Len(stream)
      /\ MarkerOnItsWay' <=> MarkerOnItsWay
  BY <1>1, <1>5 DEF MarkerOnItsWay
<1>7. RoomInv' /\ Len(stream') <= Busy + 2
  <2>1. Len(stream') = 0
    BY <1>1, <1>3 DEF SessionInv
  <2>2. (IF rpc' = "start" THEN 0 ELSE 1) \in Nat /\ (IF ran' THEN 1 ELSE 0) \in Nat
    OBVIOUS
  <2>3. \A p, q \in Nat : 0 <= busy + p + q
    BY <1>5
  <2>4. RoomInv' <=> 0 <= busy + (IF rpc' = "start" THEN 0 ELSE 1) + (IF ran' THEN 1 ELSE 0)
    BY <1>1, <2>1 DEF RoomInv
  <2>5. RoomInv'
    BY <2>2, <2>3, <2>4, Zenon
  <2> QED
    BY <1>5, <2>1, <2>5
<1>8. TypeOK'
  BY <1>1, <1>2, <1>3, <1>6, <1>7 DEF TypeOK, Lines
<1>9. SessionInv'
  BY <1>1, <1>2, <1>3, <1>4 DEF SessionInv, Healthy, TypeOK, TwinFacts
<1>10. MarkerInv'
  BY <1>1, <1>2, <1>3, <1>6 DEF MarkerInv, SessionInv, Healthy
<1>11. WorkerInv'
  BY <1>1, <1>2, <1>3 DEF WorkerInv, WorkerOver
<1>12. DoneMeansStopped'
  BY <1>1, <1>3 DEF DoneMeansStopped
<1>13. DoneMeansTraced'
  BY <1>1, <1>2, <1>3 DEF DoneMeansTraced
<1> QED
  BY <1>7, <1>8, <1>9, <1>10, <1>11, <1>12, <1>13 DEF IInv

LEMMA OtherWorkLemma ==
  ASSUME IInv, FlagsOK', OtherWork PROVE IInv'
<1>1. /\ session = "running" /\ busy < Busy
      /\ busy' = busy + 1 /\ stream' = Append(stream, "busy")
      /\ UNCHANGED <<twin, session, id, rpc, wpc, asked, out, fault>>
  BY DEF OtherWork
<1>2. (other' <=> other) /\ (ran' <=> ran)
      /\ (seen' <=> seen) /\ (raised' <=> raised)
  BY Zenon DEF OtherWork
<1>3. /\ TypeOK /\ SessionInv /\ MarkerInv /\ RoomInv /\ WorkerInv
      /\ DoneMeansStopped /\ DoneMeansTraced
  BY DEF IInv
<1>4. /\ stream \in Seq(Lines) /\ Len(stream) \in Nat /\ busy \in Nat /\ Busy \in Nat
      /\ Len(stream) <= busy + (IF rpc = "start" THEN 0 ELSE 1) + (IF ran THEN 1 ELSE 0)
  BY <1>3, TraceAssumption DEF TypeOK, RoomInv, Lines
<1>5. /\ stream' \in Seq(Lines) /\ Len(stream') = Len(stream) + 1
      /\ MarkerOnItsWay' <=> MarkerOnItsWay
  BY <1>1, <1>4, AppendLine DEF MarkerOnItsWay, Lines
<1>6. RoomInv' /\ Len(stream') <= Busy + 2
  BY <1>1, <1>2, <1>4, <1>5 DEF RoomInv
<1>7. TypeOK'
  <2>1. busy' \in 0..Busy
    BY <1>1, <1>3, <1>4 DEF TypeOK
  <2> QED
    BY <1>1, <1>2, <1>3, <1>5, <1>6, <2>1 DEF TypeOK, Lines
<1>8. SessionInv'
  BY <1>1, <1>3 DEF SessionInv, Healthy
<1>9. MarkerInv'
  BY <1>1, <1>2, <1>3, <1>5 DEF MarkerInv, Healthy
<1>10. WorkerInv'
  BY <1>1, <1>2, <1>3 DEF WorkerInv, WorkerOver
<1>11. DoneMeansStopped'
  BY <1>1, <1>3 DEF DoneMeansStopped
<1>12. DoneMeansTraced'
  BY <1>1, <1>2, <1>3 DEF DoneMeansTraced
<1> QED
  BY <1>6, <1>7, <1>8, <1>9, <1>10, <1>11, <1>12 DEF IInv

(* The line taken off the stream is the marker, or the marker is still in it. *)
LEMMA ReadLineLemma ==
  ASSUME IInv, FlagsOK', ReadLine PROVE IInv'
<1>1. /\ rpc = "reading" /\ out \in {"running", "done"} /\ stream # <<>>
      /\ stream' = Tail(stream)
      /\ id' = "own" \/ id' = id
      /\ UNCHANGED <<twin, session, busy, rpc, wpc, asked, out, fault>>
  BY DEF ReadLine
<1>2. (other' <=> other) /\ (ran' <=> ran)
      /\ (seen' <=> (seen \/ Head(stream) = "marker")) /\ (raised' <=> raised)
  BY Zenon DEF ReadLine
<1>3. /\ TypeOK /\ SessionInv /\ MarkerInv /\ RoomInv /\ WorkerInv
      /\ DoneMeansStopped /\ DoneMeansTraced
  BY DEF IInv
<1>4. /\ stream \in Seq(Lines) /\ Len(stream) \in Nat /\ busy \in Nat /\ Busy \in Nat
      /\ Len(stream) <= busy + (IF rpc = "start" THEN 0 ELSE 1) + (IF ran THEN 1 ELSE 0)
  BY <1>3, TraceAssumption DEF TypeOK, RoomInv, Lines
<1>5. /\ stream' \in Seq(Lines) /\ Len(stream') = Len(stream) - 1
      /\ MarkerOnItsWay <=> Head(stream) = "marker" \/ MarkerOnItsWay'
  BY <1>1, <1>4, TailLine DEF MarkerOnItsWay
<1>6. RoomInv' /\ Len(stream') <= Busy + 2
  BY <1>1, <1>2, <1>3, <1>4, <1>5 DEF RoomInv, TypeOK
<1>7. TypeOK'
  BY <1>1, <1>2, <1>3, <1>5, <1>6 DEF TypeOK, MarkerInv, Lines
<1>8. SessionInv'
  BY <1>1, <1>3 DEF SessionInv, Healthy
<1>9. MarkerInv'
  BY <1>1, <1>2, <1>3, <1>5 DEF MarkerInv, Healthy
<1>10. WorkerInv'
  BY <1>1, <1>2, <1>3 DEF WorkerInv, WorkerOver
<1>11. DoneMeansStopped'
  BY <1>1, <1>3 DEF DoneMeansStopped
<1>12. DoneMeansTraced'
  BY <1>1, <1>2, <1>3 DEF DoneMeansTraced
<1> QED
  BY <1>6, <1>7, <1>8, <1>9, <1>10, <1>11, <1>12 DEF IInv

(* The end is reported only of an ended session whose lines are all fetched. *)
LEMMA ReadEofLemma ==
  ASSUME IInv, FlagsOK', ReadEof PROVE IInv'
<1>1. /\ rpc = "reading" /\ out \in {"running", "done"} /\ stream = <<>>
      /\ session = "ended"
      /\ rpc' = "eof"
      /\ UNCHANGED <<twin, session, stream, busy, id, wpc, asked, out, fault>>
  BY DEF ReadEof, server
<1>2. (other' <=> other) /\ (ran' <=> ran)
      /\ (seen' <=> seen) /\ (raised' <=> raised)
  BY Zenon DEF ReadEof, server
<1>3. /\ TypeOK /\ SessionInv /\ MarkerInv /\ RoomInv /\ WorkerInv
      /\ DoneMeansStopped /\ DoneMeansTraced
  BY DEF IInv
<1>4. /\ stream \in Seq(Lines) /\ Len(stream) \in Nat /\ busy \in Nat /\ Busy \in Nat
      /\ Len(stream) <= busy + (IF rpc = "start" THEN 0 ELSE 1) + (IF ran THEN 1 ELSE 0)
  BY <1>3, TraceAssumption DEF TypeOK, RoomInv, Lines
<1>5. /\ stream' \in Seq(Lines) /\ Len(stream') = Len(stream)
      /\ MarkerOnItsWay' <=> MarkerOnItsWay
  BY <1>1, <1>4 DEF MarkerOnItsWay
<1>6. RoomInv' /\ Len(stream') <= Busy + 2
  BY <1>1, <1>2, <1>4, <1>5 DEF RoomInv
<1>7. TypeOK'
  BY <1>1, <1>2, <1>3, <1>5, <1>6 DEF TypeOK, Lines
<1>8. SessionInv'
  BY <1>1, <1>3 DEF SessionInv, Healthy
<1>9. MarkerInv'
  BY <1>1, <1>2, <1>3, <1>5 DEF MarkerInv, Healthy
<1>10. WorkerInv'
  BY <1>1, <1>2, <1>3 DEF WorkerInv, WorkerOver
<1>11. DoneMeansStopped'
  BY <1>1, <1>3 DEF DoneMeansStopped
<1>12. DoneMeansTraced'
  <2>1. ~MarkerOnItsWay
    BY <1>1 DEF MarkerOnItsWay
  <2>2. Healthy => ran /\ seen
    BY <1>1, <1>3, <2>1 DEF SessionInv, MarkerInv
  <2> QED
    BY <1>1, <1>2, <2>2 DEF DoneMeansTraced, Healthy
<1> QED
  BY <1>6, <1>7, <1>8, <1>9, <1>10, <1>11, <1>12 DEF IInv

LEMMA StreamFailsLemma ==
  ASSUME IInv, FlagsOK', StreamFails PROVE IInv'
<1>1. /\ rpc = "reading" /\ out = "running" /\ fault = "none"
      /\ fault' = "stream" /\ session' = "ended"
      /\ rpc' \in {"eof", "failed"} /\ out' \in {"aborted", "error", "running"}
      /\ UNCHANGED <<twin, stream, busy, id, wpc, asked>>
  BY DEF StreamFails, Runs
<1>2. (other' <=> other) /\ (ran' <=> ran)
      /\ (seen' <=> seen) /\ (raised' <=> raised)
  BY Zenon DEF StreamFails, Runs
<1>3. /\ TypeOK /\ SessionInv /\ MarkerInv /\ RoomInv /\ WorkerInv
      /\ DoneMeansStopped /\ DoneMeansTraced
  BY DEF IInv
<1>4. /\ stream \in Seq(Lines) /\ Len(stream) \in Nat /\ busy \in Nat /\ Busy \in Nat
      /\ Len(stream) <= busy + (IF rpc = "start" THEN 0 ELSE 1) + (IF ran THEN 1 ELSE 0)
  BY <1>3, TraceAssumption DEF TypeOK, RoomInv, Lines
<1>5. /\ stream' \in Seq(Lines) /\ Len(stream') = Len(stream)
      /\ MarkerOnItsWay' <=> MarkerOnItsWay
  BY <1>1, <1>4 DEF MarkerOnItsWay
<1>6. RoomInv' /\ Len(stream') <= Busy + 2
  BY <1>1, <1>2, <1>3, <1>4, <1>5 DEF RoomInv, TypeOK
<1>7. TypeOK'
  BY <1>1, <1>2, <1>3, <1>5, <1>6 DEF TypeOK, Lines
<1>8. SessionInv'
  BY <1>1, <1>3 DEF SessionInv, Healthy
<1>9. MarkerInv'
  BY <1>1, <1>2, <1>3, <1>5 DEF MarkerInv, Healthy
<1>10. WorkerInv'
  BY <1>1, <1>2, <1>3 DEF WorkerInv, WorkerOver
<1>11. DoneMeansStopped'
  BY <1>1, <1>3 DEF DoneMeansStopped
<1>12. DoneMeansTraced'
  BY <1>1, <1>2, <1>3 DEF DoneMeansTraced
<1> QED
  BY <1>6, <1>7, <1>8, <1>9, <1>10, <1>11, <1>12 DEF IInv

(* The reader of a session nobody has stopped is still reading, so the wait
   ends with the marker query unless something failed. *)
LEMMA WaitForIdLemma ==
  ASSUME IInv, FlagsOK', WaitForId PROVE IInv'
<1>1. /\ out = "running" /\ wpc = "wait"
      /\ \/ wpc' = "marker"
         \/ rpc # "reading" /\ wpc' = "id"
      /\ UNCHANGED <<twin, session, stream, busy, id, rpc, asked, out, fault>>
  BY DEF WaitForId, Runs, server
<1>2. (other' <=> other) /\ (ran' <=> ran)
      /\ (seen' <=> seen)
  BY Zenon DEF WaitForId, Runs, server
<1>3. /\ TypeOK /\ SessionInv /\ MarkerInv /\ RoomInv /\ WorkerInv
      /\ DoneMeansStopped /\ DoneMeansTraced
  BY DEF IInv
<1>4. TwinFacts
  BY <1>3, TwinLemma DEF TypeOK
<1>5. /\ stream \in Seq(Lines) /\ Len(stream) \in Nat /\ busy \in Nat /\ Busy \in Nat
      /\ Len(stream) <= busy + (IF rpc = "start" THEN 0 ELSE 1) + (IF ran THEN 1 ELSE 0)
  BY <1>3, TraceAssumption DEF TypeOK, RoomInv, Lines
<1>6. /\ stream' \in Seq(Lines) /\ Len(stream') = Len(stream)
      /\ MarkerOnItsWay' <=> MarkerOnItsWay
  BY <1>1, <1>5 DEF MarkerOnItsWay
<1>7. RoomInv' /\ Len(stream') <= Busy + 2
  BY <1>1, <1>2, <1>3, <1>5, <1>6 DEF RoomInv, TypeOK
<1>8. TypeOK'
  BY <1>1, <1>2, <1>3, <1>6, <1>7 DEF TypeOK, Lines
<1>9. SessionInv'
  BY <1>1, <1>3 DEF SessionInv, Healthy
<1>10. MarkerInv'
  BY <1>1, <1>2, <1>3, <1>4, <1>6 DEF MarkerInv, SessionInv, Healthy, TypeOK, TwinFacts
<1>11. WorkerInv'
  BY <1>1, <1>2, <1>3 DEF WorkerInv, WorkerOver
<1>12. DoneMeansStopped'
  BY <1>1, <1>3 DEF DoneMeansStopped
<1>13. DoneMeansTraced'
  BY <1>1, <1>2, <1>3 DEF DoneMeansTraced
<1> QED
  BY <1>7, <1>8, <1>9, <1>10, <1>11, <1>12, <1>13 DEF IInv

(* The query is traced: nobody but this worker ends the session. *)
LEMMA MarkerLemma ==
  ASSUME IInv, FlagsOK', Marker PROVE IInv'
<1>1. /\ out = "running" /\ wpc = "marker"
      /\ wpc' = "id"
      /\ stream' = IF session = "running" THEN Append(stream, "marker") ELSE stream
      /\ UNCHANGED <<twin, session, busy, id, rpc, asked, out, fault>>
  BY DEF Marker, Runs
<1>2. (other' <=> other) /\ (ran')
      /\ (seen' <=> seen) /\ (raised' <=> raised)
  BY Zenon DEF Marker, Runs
<1>3. /\ TypeOK /\ SessionInv /\ MarkerInv /\ RoomInv /\ WorkerInv
      /\ DoneMeansStopped /\ DoneMeansTraced
  BY DEF IInv
<1>4. TwinFacts
  BY <1>3, TwinLemma DEF TypeOK
<1>5. /\ stream \in Seq(Lines) /\ Len(stream) \in Nat /\ busy \in Nat /\ Busy \in Nat
      /\ Len(stream) <= busy + (IF rpc = "start" THEN 0 ELSE 1) + (IF ran THEN 1 ELSE 0)
  BY <1>3, TraceAssumption DEF TypeOK, RoomInv, Lines
<1>6. /\ stream' \in Seq(Lines) /\ Len(stream') \in Len(stream)..(Len(stream) + 1)
      /\ MarkerOnItsWay => MarkerOnItsWay'
      /\ session = "running" => MarkerOnItsWay'
  BY <1>1, <1>5, AppendLine DEF MarkerOnItsWay, Lines
<1>7. RoomInv' /\ Len(stream') <= Busy + 2
  BY <1>1, <1>2, <1>3, <1>5, <1>6 DEF RoomInv, TypeOK, MarkerInv
<1>8. TypeOK'
  BY <1>1, <1>2, <1>3, <1>6, <1>7 DEF TypeOK, Lines
<1>9. SessionInv'
  BY <1>1, <1>3 DEF SessionInv, Healthy
<1>10. MarkerInv'
  BY <1>1, <1>2, <1>3, <1>4, <1>6 DEF MarkerInv, SessionInv, Healthy, TypeOK, TwinFacts
<1>11. WorkerInv'
  BY <1>1, <1>2, <1>3 DEF WorkerInv, WorkerOver
<1>12. DoneMeansStopped'
  BY <1>1, <1>3 DEF DoneMeansStopped
<1>13. DoneMeansTraced'
  BY <1>1, <1>2, <1>3 DEF DoneMeansTraced
<1> QED
  BY <1>7, <1>8, <1>9, <1>10, <1>11, <1>12, <1>13 DEF IInv

LEMMA MarkerFailsLemma ==
  ASSUME IInv, FlagsOK', MarkerFails PROVE IInv'
<1>1. /\ out = "running" /\ wpc = "marker" /\ fault = "none"
      /\ fault' = "marker"
      /\ wpc' \in {"id", "ended", "died"} /\ out' \in {"running", "error"}
      /\ UNCHANGED <<twin, session, stream, busy, id, rpc, asked>>
  BY DEF MarkerFails, Runs, server, Handles
<1>2. (other' <=> other) /\ (ran' <=> ran)
      /\ (seen' <=> seen)
      /\ (raised' <=> (raised \/ twin.marker \in {"raise", "raise past the id"}))
  BY Zenon DEF MarkerFails, Runs, server, Handles
<1>3. /\ TypeOK /\ SessionInv /\ MarkerInv /\ RoomInv /\ WorkerInv
      /\ DoneMeansStopped /\ DoneMeansTraced
  BY DEF IInv
<1>4. TwinFacts
  BY <1>3, TwinLemma DEF TypeOK
<1>5. /\ stream \in Seq(Lines) /\ Len(stream) \in Nat /\ busy \in Nat /\ Busy \in Nat
      /\ Len(stream) <= busy + (IF rpc = "start" THEN 0 ELSE 1) + (IF ran THEN 1 ELSE 0)
  BY <1>3, TraceAssumption DEF TypeOK, RoomInv, Lines
<1>6. /\ stream' \in Seq(Lines) /\ Len(stream') = Len(stream)
      /\ MarkerOnItsWay' <=> MarkerOnItsWay
  BY <1>1, <1>5 DEF MarkerOnItsWay
<1>7. RoomInv' /\ Len(stream') <= Busy + 2
  BY <1>1, <1>2, <1>3, <1>5, <1>6 DEF RoomInv, TypeOK
<1>8. TypeOK'
  BY <1>1, <1>2, <1>3, <1>6, <1>7, ZenonT(60) DEF TypeOK, Lines
<1>9. SessionInv'
  BY <1>1, <1>3 DEF SessionInv, Healthy
<1>10. MarkerInv'
  BY <1>1, <1>2, <1>3, <1>6 DEF MarkerInv, Healthy
<1>11. WorkerInv'
  BY <1>1, <1>2, <1>3, <1>4 DEF WorkerInv, WorkerOver, TwinFacts
<1>12. DoneMeansStopped'
  BY <1>1, <1>3 DEF DoneMeansStopped
<1>13. DoneMeansTraced'
  BY <1>1, <1>2, <1>3 DEF DoneMeansTraced
<1> QED
  BY <1>7, <1>8, <1>9, <1>10, <1>11, <1>12, <1>13 DEF IInv

LEMMA GetIdLemma ==
  ASSUME IInv, FlagsOK', GetId PROVE IInv'
<1>1. /\ out = "running" /\ wpc = "id"
      /\ \/ id' = id /\ wpc' = "stop"
         \/ id # "none" /\ id' = id /\ wpc' = "stop"
         \/ id = "none" /\ id' = Listed /\ wpc' = IF Listed = "none" THEN "ended" ELSE "stop"
      /\ UNCHANGED <<twin, session, stream, busy, rpc, asked, out, fault>>
  BY DEF GetId, Runs, server
<1>2. (other' <=> other) /\ (ran' <=> ran)
      /\ (seen' <=> seen) /\ (raised' <=> raised)
  BY Zenon DEF GetId, Runs, server
<1>3. /\ TypeOK /\ SessionInv /\ MarkerInv /\ RoomInv /\ WorkerInv
      /\ DoneMeansStopped /\ DoneMeansTraced
  BY DEF IInv
<1>4. TwinFacts
  BY <1>3, TwinLemma DEF TypeOK
<1>5. /\ stream \in Seq(Lines) /\ Len(stream) \in Nat /\ busy \in Nat /\ Busy \in Nat
      /\ Len(stream) <= busy + (IF rpc = "start" THEN 0 ELSE 1) + (IF ran THEN 1 ELSE 0)
  BY <1>3, TraceAssumption DEF TypeOK, RoomInv, Lines
<1>6. /\ stream' \in Seq(Lines) /\ Len(stream') = Len(stream)
      /\ MarkerOnItsWay' <=> MarkerOnItsWay
  BY <1>1, <1>5 DEF MarkerOnItsWay
<1>7. RoomInv' /\ Len(stream') <= Busy + 2
  BY <1>1, <1>2, <1>3, <1>5, <1>6 DEF RoomInv, TypeOK
<1>8. TypeOK'
  <2>1. Listed \in {"none", "own", "other"}
    BY DEF Listed
  <2>2. id' \in {"none", "own", "other"} /\ wpc' \in {"stop", "ended"}
    BY <1>1, <1>3, <2>1 DEF TypeOK
  <2> QED
    BY <1>1, <1>2, <1>3, <1>6, <1>7, <2>2, ZenonT(60) DEF TypeOK, Lines
<1>9. SessionInv'
  BY <1>1, <1>3 DEF SessionInv, Healthy
<1>10. MarkerInv'
  BY <1>1, <1>2, <1>3, <1>6 DEF MarkerInv, Healthy
<1>11. WorkerInv'
  BY <1>1, <1>2, <1>3, <1>4 DEF WorkerInv, WorkerOver, SessionInv, Listed, TypeOK, TwinFacts
<1>12. DoneMeansStopped'
  BY <1>1, <1>3 DEF DoneMeansStopped
<1>13. DoneMeansTraced'
  BY <1>1, <1>2, <1>3 DEF DoneMeansTraced
<1> QED
  BY <1>7, <1>8, <1>9, <1>10, <1>11, <1>12, <1>13 DEF IInv

LEMMA StopFailsLemma ==
  ASSUME IInv, FlagsOK', StopFails PROVE IInv'
<1>1. /\ out = "running" /\ wpc \in {"id", "stop"} /\ fault = "none"
      /\ fault' = "stop"
      /\ wpc' \in {"id", "ended", "died"} /\ out' \in {"running", "error"}
      /\ UNCHANGED <<twin, session, stream, busy, id, rpc, asked>>
  BY DEF StopFails, Runs, server, Handles
<1>2. (other' <=> other) /\ (ran' <=> ran)
      /\ (seen' <=> seen) /\ (raised' <=> (raised \/ twin.stop \in {"raise", "raise past the id"}))
  BY Zenon DEF StopFails, Runs, server, Handles
<1>3. /\ TypeOK /\ SessionInv /\ MarkerInv /\ RoomInv /\ WorkerInv
      /\ DoneMeansStopped /\ DoneMeansTraced
  BY DEF IInv
<1>4. TwinFacts
  BY <1>3, TwinLemma DEF TypeOK
<1>5. /\ stream \in Seq(Lines) /\ Len(stream) \in Nat /\ busy \in Nat /\ Busy \in Nat
      /\ Len(stream) <= busy + (IF rpc = "start" THEN 0 ELSE 1) + (IF ran THEN 1 ELSE 0)
  BY <1>3, TraceAssumption DEF TypeOK, RoomInv, Lines
<1>6. /\ stream' \in Seq(Lines) /\ Len(stream') = Len(stream)
      /\ MarkerOnItsWay' <=> MarkerOnItsWay
  BY <1>1, <1>5 DEF MarkerOnItsWay
<1>7. RoomInv' /\ Len(stream') <= Busy + 2
  BY <1>1, <1>2, <1>3, <1>5, <1>6 DEF RoomInv, TypeOK
<1>8. TypeOK'
  BY <1>1, <1>2, <1>3, <1>6, <1>7, ZenonT(60) DEF TypeOK, Lines
<1>9. SessionInv'
  BY <1>1, <1>3 DEF SessionInv, Healthy
<1>10. MarkerInv'
  BY <1>1, <1>2, <1>3, <1>6 DEF MarkerInv, Healthy
<1>11. WorkerInv'
  BY <1>1, <1>2, <1>3, <1>4 DEF WorkerInv, WorkerOver, TwinFacts
<1>12. DoneMeansStopped'
  BY <1>1, <1>3 DEF DoneMeansStopped
<1>13. DoneMeansTraced'
  BY <1>1, <1>2, <1>3 DEF DoneMeansTraced
<1> QED
  BY <1>7, <1>8, <1>9, <1>10, <1>11, <1>12, <1>13 DEF IInv

(* Main's last word: on the reader's side after the end of the stream, on the
   worker's side when the worker has neither failed nor left the session. *)
LEMMA FinishLemma ==
  ASSUME IInv, FlagsOK', Finish PROVE IInv'
<1>1. /\ out = "running"
      /\ \/ /\ twin.main = "reader" /\ rpc \in {"eof", "failed"}
            /\ out' = IF rpc = "eof" THEN "done" ELSE "error"
         \/ /\ twin.main = "worker" /\ WorkerOver
            /\ out' = IF raised \/ (twin.join /\ rpc = "failed") THEN "error" ELSE "done"
      /\ UNCHANGED <<twin, session, stream, busy, id, rpc, wpc, asked, fault>>
  BY DEF Finish, Runs, server
<1>2. (other' <=> other) /\ (ran' <=> ran)
      /\ (seen' <=> seen) /\ (raised' <=> raised)
  BY Zenon DEF Finish, Runs, server
<1>3. /\ TypeOK /\ SessionInv /\ MarkerInv /\ RoomInv /\ WorkerInv
      /\ DoneMeansStopped /\ DoneMeansTraced
  BY DEF IInv
<1>4. TwinFacts
  BY <1>3, TwinLemma DEF TypeOK
<1>5. /\ stream \in Seq(Lines) /\ Len(stream) \in Nat /\ busy \in Nat /\ Busy \in Nat
      /\ Len(stream) <= busy + (IF rpc = "start" THEN 0 ELSE 1) + (IF ran THEN 1 ELSE 0)
  BY <1>3, TraceAssumption DEF TypeOK, RoomInv, Lines
<1>6. /\ stream' \in Seq(Lines) /\ Len(stream') = Len(stream)
      /\ MarkerOnItsWay' <=> MarkerOnItsWay
  BY <1>1, <1>5 DEF MarkerOnItsWay
<1>7. RoomInv' /\ Len(stream') <= Busy + 2
  BY <1>1, <1>2, <1>3, <1>5, <1>6 DEF RoomInv, TypeOK
<1>8. TypeOK'
  <2>1. out' \in {"done", "error"}
    BY <1>1
  <2> QED
    BY <1>1, <1>2, <1>3, <1>6, <1>7, <2>1 DEF TypeOK, Lines
<1>9. SessionInv'
  BY <1>1, <1>3 DEF SessionInv, Healthy
<1>10. MarkerInv'
  BY <1>1, <1>2, <1>3, <1>6 DEF MarkerInv, Healthy
<1>11. WorkerInv'
  BY <1>1, <1>2, <1>3 DEF WorkerInv, WorkerOver
<1>12. DoneMeansStopped'
  BY <1>1, <1>2, <1>3, <1>4 DEF DoneMeansStopped, SessionInv, WorkerInv, TwinFacts
<1>13. DoneMeansTraced'
  <2>1. Healthy /\ rpc = "eof"
          => session = "ended" /\ ran /\ (seen \/ MarkerOnItsWay) /\ stream = <<>>
    BY <1>1, <1>3 DEF SessionInv, MarkerInv
  <2>2. stream = <<>> => ~MarkerOnItsWay
    BY DEF MarkerOnItsWay
  <2>3. out' = "done" /\ (twin.main = "reader" \/ rpc = "eof") => rpc = "eof"
    BY <1>1
  <2> QED
    BY <1>1, <1>2, <2>1, <2>2, <2>3 DEF DoneMeansTraced, Healthy
<1> QED
  BY <1>7, <1>8, <1>9, <1>10, <1>11, <1>12, <1>13 DEF IInv

LEMMA ExitLemma ==
  ASSUME IInv, FlagsOK', Exit PROVE IInv'
<1>1. /\ out' = "exited" /\ session' = "ended"
      /\ out \in {"done", "error", "aborted"}
      /\ UNCHANGED <<twin, stream, busy, id, rpc, wpc, asked, fault>>
  BY DEF Exit, server
<1>2. (other' <=> other) /\ (ran' <=> ran)
      /\ (seen' <=> seen) /\ (raised' <=> raised)
  BY Zenon DEF Exit, server
<1>3. /\ TypeOK /\ SessionInv /\ MarkerInv /\ RoomInv /\ WorkerInv
      /\ DoneMeansStopped /\ DoneMeansTraced
  BY DEF IInv
<1>4. /\ stream \in Seq(Lines) /\ Len(stream) \in Nat /\ busy \in Nat /\ Busy \in Nat
      /\ Len(stream) <= busy + (IF rpc = "start" THEN 0 ELSE 1) + (IF ran THEN 1 ELSE 0)
  BY <1>3, TraceAssumption DEF TypeOK, RoomInv, Lines
<1>5. /\ stream' \in Seq(Lines) /\ Len(stream') = Len(stream)
      /\ MarkerOnItsWay' <=> MarkerOnItsWay
  BY <1>1, <1>4 DEF MarkerOnItsWay
<1>6. RoomInv' /\ Len(stream') <= Busy + 2
  BY <1>1, <1>2, <1>3, <1>4, <1>5 DEF RoomInv, TypeOK
<1>7. TypeOK'
  BY <1>1, <1>2, <1>3, <1>5, <1>6 DEF TypeOK, Lines
<1>8. SessionInv'
  BY <1>1, <1>3 DEF SessionInv, Healthy
<1>9. MarkerInv'
  BY <1>1, <1>2, <1>3, <1>5 DEF MarkerInv, Healthy
<1>10. WorkerInv'
  BY <1>1, <1>2, <1>3 DEF WorkerInv, WorkerOver
<1>11. DoneMeansStopped'
  BY <1>1, <1>3 DEF DoneMeansStopped
<1>12. DoneMeansTraced'
  BY <1>1, <1>2, <1>3 DEF DoneMeansTraced
<1> QED
  BY <1>6, <1>7, <1>8, <1>9, <1>10, <1>11, <1>12 DEF IInv

(* The three outcomes of trace_stop. *)
LEMMA StopOwnLemma ==
  ASSUME IInv, FlagsOK', Stop, id = "own", session = "running"
  PROVE  IInv'
<1>1. /\ out = "running" /\ wpc = "stop"
      /\ session' = "ended" /\ wpc' = "ended" /\ asked' = id
      /\ UNCHANGED <<twin, stream, busy, id, rpc, out, fault>>
  BY DEF Stop, Runs
<1>2. (other' <=> other) /\ (ran' <=> ran)
      /\ (seen' <=> seen) /\ (raised' <=> raised)
  <2>1. /\ other' = other /\ ran' = ran /\ seen' = seen
        /\ raised' = raised
    BY DEF Stop, Runs
  <2> QED
    BY <2>1, Zenon
<1>3. /\ TypeOK /\ SessionInv /\ MarkerInv /\ RoomInv /\ WorkerInv
      /\ DoneMeansStopped /\ DoneMeansTraced
  BY DEF IInv
<1>4. /\ stream \in Seq(Lines) /\ Len(stream) \in Nat /\ busy \in Nat /\ Busy \in Nat
      /\ Len(stream) <= busy + (IF rpc = "start" THEN 0 ELSE 1) + (IF ran THEN 1 ELSE 0)
  BY <1>3, TraceAssumption DEF TypeOK, RoomInv, Lines
<1>5. /\ stream' \in Seq(Lines) /\ Len(stream') = Len(stream)
      /\ MarkerOnItsWay' <=> MarkerOnItsWay
  BY <1>1, <1>4 DEF MarkerOnItsWay
<1>6. RoomInv' /\ Len(stream') <= Busy + 2
  BY <1>1, <1>2, <1>3, <1>4, <1>5 DEF RoomInv, TypeOK
<1>7. TypeOK'
  BY <1>1, <1>2, <1>3, <1>5, <1>6 DEF TypeOK, Lines
<1>8. SessionInv'
  BY <1>1, <1>3 DEF SessionInv, Healthy
<1>9. MarkerInv'
  BY <1>1, <1>2, <1>3, <1>5 DEF MarkerInv, Healthy
<1>10. WorkerInv'
  BY <1>1, <1>2, <1>3 DEF WorkerInv, WorkerOver
<1>11. DoneMeansStopped'
  BY <1>1, <1>3 DEF DoneMeansStopped
<1>12. DoneMeansTraced'
  BY <1>1, <1>2, <1>3 DEF DoneMeansTraced
<1> QED
  BY <1>6, <1>7, <1>8, <1>9, <1>10, <1>11, <1>12 DEF IInv

LEMMA StopOtherLemma ==
  ASSUME IInv, FlagsOK', Stop, id = "other"
  PROVE  IInv'
<1>1. /\ out = "running" /\ wpc = "stop"
      /\ wpc' = "ended" /\ asked' = id
      /\ UNCHANGED <<twin, session, stream, busy, id, rpc, out, fault>>
  BY DEF Stop, Runs
<1>2. (~other') /\ (ran' <=> ran)
      /\ (seen' <=> seen) /\ (raised' <=> raised)
  <2>1. /\ other' = FALSE /\ ran' = ran /\ seen' = seen
        /\ raised' = raised
    BY DEF Stop, Runs
  <2> QED
    BY <2>1, Zenon
<1>3. /\ TypeOK /\ SessionInv /\ MarkerInv /\ RoomInv /\ WorkerInv
      /\ DoneMeansStopped /\ DoneMeansTraced
  BY DEF IInv
<1>4. /\ stream \in Seq(Lines) /\ Len(stream) \in Nat /\ busy \in Nat /\ Busy \in Nat
      /\ Len(stream) <= busy + (IF rpc = "start" THEN 0 ELSE 1) + (IF ran THEN 1 ELSE 0)
  BY <1>3, TraceAssumption DEF TypeOK, RoomInv, Lines
<1>5. /\ stream' \in Seq(Lines) /\ Len(stream') = Len(stream)
      /\ MarkerOnItsWay' <=> MarkerOnItsWay
  BY <1>1, <1>4 DEF MarkerOnItsWay
<1>6. RoomInv' /\ Len(stream') <= Busy + 2
  BY <1>1, <1>2, <1>3, <1>4, <1>5 DEF RoomInv, TypeOK
<1>7. TypeOK'
  BY <1>1, <1>2, <1>3, <1>5, <1>6 DEF TypeOK, Lines
<1>8. SessionInv'
  BY <1>1, <1>3 DEF SessionInv, Healthy
<1>9. MarkerInv'
  BY <1>1, <1>2, <1>3, <1>5 DEF MarkerInv, Healthy
<1>10. WorkerInv'
  BY <1>1, <1>2, <1>3 DEF WorkerInv, WorkerOver
<1>11. DoneMeansStopped'
  BY <1>1, <1>3 DEF DoneMeansStopped
<1>12. DoneMeansTraced'
  BY <1>1, <1>2, <1>3 DEF DoneMeansTraced
<1> QED
  BY <1>6, <1>7, <1>8, <1>9, <1>10, <1>11, <1>12 DEF IInv

LEMMA StopRefusedLemma ==
  ASSUME IInv, FlagsOK', Stop, id # "other", ~(id = "own" /\ session = "running")
  PROVE  IInv'
<1>1. /\ out = "running" /\ wpc = "stop"
      /\ wpc' \in {"id", "ended", "died"} /\ out' \in {"running", "error"} /\ asked' = id
      /\ UNCHANGED <<twin, session, stream, busy, id, rpc, fault>>
  BY DEF Stop, Runs, Handles
<1>2. (other' <=> other) /\ (ran' <=> ran)
      /\ (seen' <=> seen) /\ (raised' <=> (raised \/ twin.stop \in {"raise", "raise past the id"}))
  <2>1. /\ other' = other /\ ran' = ran /\ seen' = seen
        /\ raised' = (raised \/ twin.stop \in {"raise", "raise past the id"})
    BY DEF Stop, Runs, Handles
  <2> QED
    BY <2>1, Zenon
<1>3. /\ TypeOK /\ SessionInv /\ MarkerInv /\ RoomInv /\ WorkerInv
      /\ DoneMeansStopped /\ DoneMeansTraced
  BY DEF IInv
<1>4. TwinFacts
  BY <1>3, TwinLemma DEF TypeOK
<1>5. /\ stream \in Seq(Lines) /\ Len(stream) \in Nat /\ busy \in Nat /\ Busy \in Nat
      /\ Len(stream) <= busy + (IF rpc = "start" THEN 0 ELSE 1) + (IF ran THEN 1 ELSE 0)
  BY <1>3, TraceAssumption DEF TypeOK, RoomInv, Lines
<1>6. /\ stream' \in Seq(Lines) /\ Len(stream') = Len(stream)
      /\ MarkerOnItsWay' <=> MarkerOnItsWay
  BY <1>1, <1>5 DEF MarkerOnItsWay
<1>7. RoomInv' /\ Len(stream') <= Busy + 2
  BY <1>1, <1>2, <1>3, <1>5, <1>6 DEF RoomInv, TypeOK
<1>8. TypeOK'
  BY <1>1, <1>2, <1>3, <1>6, <1>7, ZenonT(60) DEF TypeOK, Lines
<1>9. SessionInv'
  BY <1>1, <1>3 DEF SessionInv, Healthy
<1>10. MarkerInv'
  BY <1>1, <1>2, <1>3, <1>6 DEF MarkerInv, Healthy
<1>11. WorkerInv'
  BY <1>1, <1>2, <1>3, <1>4 DEF WorkerInv, WorkerOver, TwinFacts
<1>12. DoneMeansStopped'
  BY <1>1, <1>3 DEF DoneMeansStopped
<1>13. DoneMeansTraced'
  BY <1>1, <1>2, <1>3 DEF DoneMeansTraced
<1> QED
  BY <1>7, <1>8, <1>9, <1>10, <1>11, <1>12, <1>13 DEF IInv

LEMMA StopLemma ==
  ASSUME IInv, FlagsOK', Stop PROVE IInv'
  BY StopOwnLemma, StopOtherLemma, StopRefusedLemma

(* A turn of a loop that finds nothing new changes nothing. *)
LEMMA StutterLemma ==
  ASSUME IInv, FlagsOK', UNCHANGED vars PROVE IInv'
<1>1. UNCHANGED <<twin, session, stream, busy, id, rpc, wpc, asked, out, fault>>
  BY DEF vars, server
<1>2. (other' <=> other) /\ (ran' <=> ran) /\ (seen' <=> seen) /\ (raised' <=> raised)
  BY Zenon DEF vars, server
<1>3. /\ TypeOK /\ SessionInv /\ MarkerInv /\ RoomInv /\ WorkerInv
      /\ DoneMeansStopped /\ DoneMeansTraced
  BY DEF IInv
<1>4. MarkerOnItsWay' <=> MarkerOnItsWay
  BY <1>1 DEF MarkerOnItsWay
<1>5. TypeOK' /\ RoomInv'
  BY <1>1, <1>2, <1>3 DEF TypeOK, RoomInv
<1>6. SessionInv' /\ MarkerInv' /\ WorkerInv'
  BY <1>1, <1>2, <1>3, <1>4 DEF SessionInv, MarkerInv, WorkerInv, Healthy, WorkerOver
<1>7. DoneMeansStopped' /\ DoneMeansTraced'
  BY <1>1, <1>2, <1>3 DEF DoneMeansStopped, DoneMeansTraced
<1> QED
  BY <1>5, <1>6, <1>7 DEF IInv

LEMMA InitLemma == Init => IInv
<1> SUFFICES ASSUME Init PROVE IInv
  OBVIOUS
<1>1. /\ twin \in Twins /\ session = "none" /\ stream = <<>> /\ busy = 0 /\ id = "none"
      /\ rpc = "start" /\ wpc = "-" /\ asked = "-" /\ out = "running"
      /\ fault \in {"none", "other"}
  BY DEF Init
<1>2. ~ran /\ ~seen /\ ~raised /\ (other => fault = "other")
  BY Zenon DEF Init
<1>3. FlagsOK
  BY Zenon DEF Init, FlagsOK
<1>4. Len(stream) = 0 /\ stream \in Seq({"id", "marker", "busy"}) /\ ~MarkerOnItsWay
  BY <1>1 DEF MarkerOnItsWay
<1>5. TypeOK
  BY <1>1, <1>2, <1>3, <1>4, TraceAssumption DEF TypeOK
<1>6. RoomInv
  BY <1>1, <1>2, <1>4 DEF RoomInv
<1>7. SessionInv /\ MarkerInv /\ WorkerInv
  BY <1>1, <1>2, <1>4 DEF SessionInv, MarkerInv, WorkerInv, Healthy, WorkerOver
<1>8. DoneMeansStopped /\ DoneMeansTraced
  BY <1>1 DEF DoneMeansStopped, DoneMeansTraced
<1> QED
  BY <1>5, <1>6, <1>7, <1>8 DEF IInv

LEMMA NextLemma == IInv /\ [Next]_vars => IInv'
<1> SUFFICES ASSUME IInv, [Next]_vars PROVE IInv'
  OBVIOUS
<1>1. FlagsOK'
  BY FlagsLemma DEF IInv
<1> QED
  BY <1>1, StartSessionLemma, StartFailsLemma, OtherWorkLemma, ReadLineLemma, ReadEofLemma,
     StreamFailsLemma, WaitForIdLemma, MarkerLemma, MarkerFailsLemma, GetIdLemma,
     StopFailsLemma, StopLemma, FinishLemma, ExitLemma, StutterLemma
     DEF Next, Reader, Worker, Poll, Quiet

(* The state keeps its types, and no trace program says "done." with its
   session still running, unless it looks the session up by a name that two
   sessions have. *)
THEOREM TraceInvTheorem == Spec => []TraceInv
<1>1. IInv => TraceInv
  BY DEF IInv, TraceInv
<1> QED
  BY <1>1, InitLemma, NextLemma, PTL DEF Spec

(* A trace program that has read its stream to the end says "done." only after
   the trace of the marker query has been printed and the session stopped, for
   any timing and any amount of other work on the database. *)
THEOREM DoneMeansTracedTheorem == Spec => []DoneMeansTraced
<1>1. IInv => DoneMeansTraced
  BY DEF IInv
<1> QED
  BY <1>1, InitLemma, NextLemma, PTL DEF Spec
=============================================================================
