-------------------------- MODULE ServicePolling --------------------------
(***************************************************************************)
(* services and backup: a client drains the output of gbak, which runs on  *)
(* a server thread and blocks while the ring buffer between them is full.  *)
(*                                                                         *)
(* The two OO-API programs read an answer differently: services.cpp walks  *)
(* all items of it and goes on after a timeout, a truncated line or "no    *)
(* data yet"; backup.cpp looks at the first item only and takes an empty   *)
(* line for the end, so that it may stop too soon (cut).  Neither asks for *)
(* a timeout, so a query should wait; the early answers services.cpp is    *)
(* written for are given to the programs in Hasty.  The fb-cpp twins leave *)
(* the loop to the library and get each line in a callback.                *)
(***************************************************************************)
EXTENDS Naturals, Sequences, FiniteSets

CONSTANTS Programs,      \* of AllPrograms
          Hasty,         \* programs whose queries may be answered early
          BackupLines,   \* what gbak writes during a backup
          RestoreLines,  \* and during a restore
          RingSize,      \* lines the ring buffer holds
          MaxEarly,      \* early answers per execution
          MaxFaults      \* API calls that fail

AllPrograms == {"services", "backup", "fb-cpp services", "fb-cpp backup"}
Jobs == {"backup", "restore"}
NoText == ""
Texts == STRING \ {NoText}

ASSUME PollingAssumption ==
  /\ Programs \subseteq AllPrograms /\ Hasty \subseteq Programs
  /\ BackupLines \in Seq(Texts) /\ RestoreLines \in Seq(Texts)
  /\ RingSize \in Nat \ {0} /\ MaxEarly \in Nat /\ MaxFaults \in Nat

VARIABLES prog,      \* the program
          pc,        \* "setup", "start", "drain", "check", "ok", "failed"
          job,       \* the job the client is at
          active,    \* the job whose thread runs on the server, or "none"
          left,      \* what it has still to write
          ring,      \* the ring buffer
          file,      \* the backup file: "none", "partial", "whole"
          copy,      \* the restored database, likewise
          printed,   \* lines the client has printed, by job
          drained,   \* jobs whose output the client has taken for ended
          cut,       \* those of them that had not ended
          early,     \* early answers so far
          faults     \* failed calls so far
client == <<prog, pc, job, printed, drained, cut, early, faults>>
server == <<active, left, ring, file, copy>>
vars == <<client, server>>

-----------------------------------------------------------------------------
(* Answers to query(isc_info_svc_line): the one item asked for, a tag with a
   text, and the tag that ends the buffer, isc_info_end or the reason it is
   all there is. *)

Answer(text, last) == [tag |-> "line", text |-> text, last |-> last]
MoreTags == {"timeout", "not_ready", "truncated"}
Shown(text) == IF text = NoText THEN <<>> ELSE <<text>>

\* Both readers return whether to go on and the texts they print.
\* Mutant: "no data yet" ends the loop
PrintLinesImpatient(ans) ==
  [more |-> ans.text # NoText, texts |-> Shown(ans.text)]
PrintLines(ans) ==
  [more |-> ans.text # NoText \/ ans.tag \in MoreTags \/ ans.last \in MoreTags,
   texts |-> Shown(ans.text)]

\* Mutants: the test for the empty line is missing; the loop is an if
StreamForever(ans) == [more |-> ans.tag = "line", texts |-> Shown(ans.text)]
StreamOnce(ans) == [more |-> FALSE, texts |-> Shown(ans.text)]
StreamServiceOutput(ans) ==
  LET more == ans.tag = "line" /\ ans.text # NoText
  IN [more |-> more, texts |-> IF more THEN Shown(ans.text) ELSE <<>>]

\* The loop of the fb-cpp library, which calls back once per line
WaitForCompletion(ans) == PrintLines(ans)

Reading(ans) ==
  CASE prog = "services" -> PrintLines(ans)
    [] prog = "backup" -> StreamServiceOutput(ans)
    [] OTHER -> WaitForCompletion(ans)

-----------------------------------------------------------------------------
(* The server *)

Finished == active = "none"
ClientGone == pc \in {"ok", "failed"}

\* gbak writes a line; it waits while the buffer is full and somebody may read
Produce ==
  /\ left # <<>> /\ (Len(ring) < RingSize \/ ClientGone)
  /\ left' = Tail(left) /\ ring' = Append(ring, Head(left))
  /\ UNCHANGED <<client, active, file, copy>>

FinishJob ==
  /\ ~Finished /\ left = <<>>
  /\ active' = "none"
  /\ file' = IF active = "backup" THEN "whole" ELSE file
  /\ copy' = IF active = "restore" THEN file ELSE copy
  /\ UNCHANGED <<client, left, ring>>

Gbak == Produce \/ FinishJob

-----------------------------------------------------------------------------
(* The client *)

\* An exception ends in report and exit 1
Throw ==
  /\ pc' = "failed"
  /\ UNCHANGED <<prog, job, printed, drained, cut, early, server>>

\* The scratch database is made or cleaned, the service manager attached
Setup ==
  /\ pc = "setup" /\ pc' = "start"
  /\ UNCHANGED <<prog, job, printed, drained, cut, early, faults, server>>

\* IService::start: refused while the thread of the last job still runs
StartJob ==
  /\ pc = "start" /\ UNCHANGED faults
  /\ IF ~Finished THEN Throw ELSE
     /\ pc' = "drain"
     /\ active' = job /\ ring' = <<>>
     /\ left' = IF job = "backup" THEN BackupLines ELSE RestoreLines
     /\ file' = IF job = "backup" THEN "partial" ELSE file
     /\ copy' = IF job = "restore" THEN "partial" ELSE copy
     /\ UNCHANGED <<prog, job, printed, drained, cut, early>>

\* What is done once a job's output has ended
AfterDrain ==
  IF prog \in {"backup", "fb-cpp backup"}
  THEN IF job = "backup" THEN <<"start", "restore">> ELSE <<"check", "restore">>
  ELSE <<"ok", "backup">>

Read(ans) ==
  LET r == Reading(ans) IN
  /\ printed' = [printed EXCEPT ![job] = @ \o r.texts]
  /\ IF r.more THEN UNCHANGED <<pc, job, drained, cut>>
     ELSE /\ drained' = drained \cup {job}
          /\ cut' = IF ring = <<>> /\ Finished THEN cut ELSE cut \cup {job}
          /\ pc' = AfterDrain[1] /\ job' = AfterDrain[2]
  /\ UNCHANGED <<prog, faults>>

\* One line per query; an empty one once gbak is done and the buffer is empty
Query ==
  /\ pc = "drain"
  /\ \/ ring # <<>> /\ Read(Answer(Head(ring), "end")) /\ ring' = Tail(ring)
     \/ ring = <<>> /\ Finished /\ Read(Answer(NoText, "end")) /\ UNCHANGED ring
  /\ UNCHANGED <<early, active, left, file, copy>>

QueryEarly ==
  /\ pc = "drain" /\ prog \in Hasty /\ early < MaxEarly
  /\ early' = early + 1
  /\ \/ /\ ring = <<>> /\ ~Finished
        /\ \E t \in {"timeout", "not_ready"} : Read(Answer(NoText, t))
        /\ UNCHANGED ring
     \/ /\ ring # <<>>
        /\ Read(Answer(Head(ring), "truncated"))
        /\ ring' = Tail(ring)
  /\ UNCHANGED <<active, left, file, copy>>

\* Attach to the restored database and count its rows
Check ==
  /\ pc = "check" /\ UNCHANGED faults
  /\ IF copy # "whole" THEN Throw ELSE
     /\ pc' = "ok"
     /\ UNCHANGED <<prog, job, printed, drained, cut, early, server>>

Fault ==
  /\ ~ClientGone /\ faults < MaxFaults
  /\ Throw /\ faults' = faults + 1

Client == Setup \/ StartJob \/ Query \/ QueryEarly \/ Check

Init ==
  /\ prog \in Programs /\ pc = "setup" /\ job = "backup"
  /\ active = "none" /\ left = <<>> /\ ring = <<>>
  /\ file \in {"none", "whole"} /\ copy \in {"none", "whole"}   \* an earlier run's
  /\ printed = [j \in Jobs |-> <<>>]
  /\ drained = {} /\ cut = {}
  /\ early = 0 /\ faults = 0

Next == Gbak \/ Client \/ Fault

\* Both threads run; a query is answered when it can be
Spec == Init /\ [][Next]_vars /\ WF_vars(Gbak) /\ WF_vars(Client)

-----------------------------------------------------------------------------
(* Properties *)

TypeOK ==
  /\ prog \in Programs /\ job \in Jobs /\ active \in Jobs \cup {"none"}
  /\ pc \in {"setup", "start", "drain", "check", "ok", "failed"}
  /\ file \in {"none", "partial", "whole"} /\ copy \in {"none", "partial", "whole"}
  /\ left \in Seq(Texts) /\ ring \in Seq(Texts)
  /\ printed \in [Jobs -> Seq(Texts)] /\ drained \in SUBSET Jobs /\ cut \in SUBSET drained
  /\ Len(ring) <= RingSize \/ ClientGone
  /\ early \in 0..MaxEarly /\ faults \in 0..MaxFaults

\* No run fails by its own doing: the drain of the backup ends only when gbak
\* has, so the restore is never refused, and it leaves a database that attaches.
\* The one exception is an empty answer that reaches backup.cpp while gbak still
\* writes: no other program takes that for the end.
FailsOnlyByFault ==
  /\ pc = "failed" => faults > 0 \/ cut # {}
  /\ cut # {} => prog = "backup" /\ early > 0

\* "the file now exists on the SERVER", "prove the restored copy has the data":
\* exit 0 comes after gbak has closed what the program reports on, whatever an
\* earlier run left at the same path, and even when backup.cpp has stopped
\* reading too soon: its next start, or its attach to the copy, then fails.
OkMeansClosed ==
  pc = "ok" => /\ active = "none" /\ file = "whole"
               /\ prog \in {"backup", "fb-cpp backup"} => copy = "whole"

\* The state keeps its types, the ring buffer its size, and exit 0 its promise.
PollingInv == TypeOK /\ OkMeansClosed

EndOf(j) ==
  IF j \in drained \ cut THEN "whole"
  ELSE IF j \in cut \/ ClientGone THEN "abandoned" ELSE "reading"

BackupStream == INSTANCE LineStream
  WITH Lines <- BackupLines, out <- printed["backup"], end <- EndOf("backup")
RestoreStream == INSTANCE LineStream
  WITH Lines <- RestoreLines, out <- printed["restore"], end <- EndOf("restore")

\* printLines and streamServiceOutput, over the ring buffer, implement a stream
\* of lines for each job: each line once, in order, whole only when all were
\* printed, and ending.  services restores nothing and so abandons that stream
\* when it exits; backup abandons one that it has cut.
OutputsAreStreams == BackupStream!Spec /\ RestoreStream!Spec
=============================================================================
