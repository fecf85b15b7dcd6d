--------------------------- MODULE PollingProofs ---------------------------
(***************************************************************************)
(* Proofs about ServicePolling: for any output of gbak, any size of the    *)
(* ring buffer and any number of early answers and faults, exit 0 means    *)
(* that the file and the copy are closed, a program fails only by a failed *)
(* call or because backup has stopped reading too soon, and what it prints *)
(* is at every moment a prefix of what gbak wrote and otherwise all of it  *)
(* when the program takes the output for ended.                            *)
(***************************************************************************)
EXTENDS ServicePolling, SequenceTheorems, TLAPS

LinesOf(j) == IF j = "backup" THEN BackupLines ELSE RestoreLines
Restores == prog \in {"backup", "fb-cpp backup"}
Idle == active = "none" /\ left = <<>>

\* L consists of p, r and l, one after the other
Splits(L, p, r, l) ==
  /\ Len(p) + Len(r) + Len(l) = Len(L)
  /\ \A k \in 1..Len(p) : p[k] = L[k]
  /\ \A k \in 1..Len(r) : r[k] = L[Len(p) + k]
  /\ \A k \in 1..Len(l) : l[k] = L[Len(p) + Len(r) + k]

\* Printed, in the buffer and not yet written: together the lines of the job
Conserved == Splits(LinesOf(job), printed[job], ring, left)

\* Where the client is, what it has drained
ClientInv ==
  /\ pc = "setup" => job = "backup"
  /\ pc \in {"setup", "start", "drain"} =>
       drained = IF job = "backup" THEN {} ELSE {"backup"}
  /\ pc = "check" => job = "restore" /\ drained = Jobs
  /\ job = "restore" => Restores
  /\ pc = "ok" /\ Restores => drained = Jobs

\* What it has drained it has printed, unless it was cut; of what it has not
\* started, nothing
PrintedInv ==
  /\ \A j \in drained \ cut : printed[j] = LinesOf(j)
  /\ pc \in {"setup", "start"} => printed[job] = <<>>
  /\ job = "backup" => printed["restore"] = <<>>

\* What the server does meanwhile.  Between the jobs it is idle, unless the
\* client has cut the output; even then a job that has ended has left a file.
ServerInv ==
  /\ pc \in {"setup", "ok"} \/ (pc = "start" /\ job = "backup") => Idle
  /\ pc = "drain" => active \in {job, "none"} /\ Conserved
  /\ pc = "start" /\ job = "restore" => active \in {"backup", "none"}
  /\ pc = "check" => active \in {"restore", "none"}
  /\ ~ClientGone /\ active = "none" => left = <<>>
  /\ pc = "drain" /\ job = "backup" /\ active = "none" => file = "whole"
  /\ pc = "start" /\ job = "restore" /\ active = "none" => file = "whole"
  /\ pc \in {"drain", "check"} /\ job = "restore" =>
       file = "whole" /\ (active = "none" <=> copy = "whole")
  /\ pc \in {"start", "check"} /\ active # "none" => cut # {}
  /\ pc = "ok" => file = "whole" /\ (Restores => copy = "whole")

PollingIInv == TypeOK /\ ClientInv /\ PrintedInv /\ ServerInv /\ FailsOnlyByFault

-----------------------------------------------------------------------------
(* What the readers make of an answer *)

LEMMA ReadingText ==
  ASSUME NEW t \in Texts, NEW l, prog \in AllPrograms
  PROVE  Reading(Answer(t, l)) = [more |-> TRUE, texts |-> <<t>>]
<1>1. t # NoText
  BY DEF Texts
<1>2. PrintLines(Answer(t, l)) = [more |-> TRUE, texts |-> <<t>>]
  BY <1>1 DEF PrintLines, Answer, Shown
<1>3. StreamServiceOutput(Answer(t, l)) = [more |-> TRUE, texts |-> <<t>>]
  BY <1>1 DEF StreamServiceOutput, Answer, Shown
<1> QED
  BY <1>2, <1>3 DEF Reading, WaitForCompletion, AllPrograms

LEMMA ReadingEnd ==
  ASSUME prog \in AllPrograms
  PROVE  Reading(Answer(NoText, "end")) = [more |-> FALSE, texts |-> <<>>]
<1>1. PrintLines(Answer(NoText, "end")) = [more |-> FALSE, texts |-> <<>>]
  BY DEF PrintLines, Answer, Shown, MoreTags
<1>2. StreamServiceOutput(Answer(NoText, "end")) = [more |-> FALSE, texts |-> <<>>]
  BY DEF StreamServiceOutput, Answer, Shown
<1> QED
  BY <1>1, <1>2 DEF Reading, WaitForCompletion, AllPrograms

(* backup.cpp looks at the line only: no line, no more *)
LEMMA ReadingNothing ==
  ASSUME prog = "backup", NEW l
  PROVE  Reading(Answer(NoText, l)) = [more |-> FALSE, texts |-> <<>>]
<1>1. StreamServiceOutput(Answer(NoText, l)) = [more |-> FALSE, texts |-> <<>>]
  BY DEF StreamServiceOutput, Answer, Shown
<1> QED
  BY <1>1 DEF Reading

LEMMA ReadingEarly ==
  ASSUME prog \in AllPrograms \ {"backup"}, NEW l \in MoreTags
  PROVE  Reading(Answer(NoText, l)) = [more |-> TRUE, texts |-> <<>>]
<1>1. PrintLines(Answer(NoText, l)) = [more |-> TRUE, texts |-> <<>>]
  BY DEF PrintLines, Answer, Shown
<1> QED
  BY <1>1 DEF Reading, WaitForCompletion, AllPrograms

(* Moving the first line of one part to the end of the part before it *)

LEMMA MoveLeft ==
  ASSUME NEW L \in Seq(Texts), NEW p \in Seq(Texts), NEW r \in Seq(Texts), NEW l \in Seq(Texts),
         Splits(L, p, r, l), l # <<>>
  PROVE  Splits(L, p, Append(r, Head(l)), Tail(l))
<1> DEFINE r2 == Append(r, Head(l))
           l2 == Tail(l)
<1>1. Len(l) > 0 /\ Head(l) = l[1] /\ Len(l) \in Nat /\ Len(p) \in Nat /\ Len(r) \in Nat
  OBVIOUS
<1>2. Len(l2) = Len(l) - 1 /\ \A k \in 1..Len(l2) : l2[k] = l[k + 1]
  BY <1>1
<1>3. /\ Len(r2) = Len(r) + 1
      /\ \A k \in 1..Len(r2) : r2[k] = IF k <= Len(r) THEN r[k] ELSE l[1]
  BY <1>1
<1> HIDE DEF r2, l2
<1>4. Splits(L, p, r2, l2)
  <2> DEFINE a == Len(p) b == Len(r) c == Len(l)
  <2>1. Len(p) + Len(r2) + Len(l2) = Len(L)
    <3>1. a + b + c = Len(L) /\ a \in Nat /\ b \in Nat /\ c \in Nat
      BY <1>1 DEF Splits
    <3>2. Len(r2) = b + 1 /\ Len(l2) = c - 1
      BY <1>2, <1>3
    <3>3. \A x, y, z \in Nat : x + (y + 1) + (z - 1) = x + y + z
      OBVIOUS
    <3>4. a + (b + 1) + (c - 1) = a + b + c
      BY <3>1, <3>3, Zenon
    <3> QED
      BY <3>1, <3>2, <3>4, Zenon
  <2>2. \A k \in 1..Len(r2) : r2[k] = L[Len(p) + k]
    <3> SUFFICES ASSUME NEW k \in 1..Len(r2) PROVE r2[k] = L[Len(p) + k]
      OBVIOUS
    <3>1. CASE k \in 1..Len(r)
      <4>1. k <= Len(r)
        BY <1>1, <3>1
      <4>2. r2[k] = r[k]
        BY <1>3, <4>1
      <4>3. r[k] = L[Len(p) + k]
        BY <3>1, Zenon DEF Splits
      <4> QED
        BY <4>2, <4>3
    <3>2. CASE k = Len(r) + 1
      <4>1. r2[k] = l[1] /\ l[1] = L[Len(p) + Len(r) + 1] /\ Len(p) + k = Len(p) + Len(r) + 1
        BY <1>1, <1>3, <3>2 DEF Splits
      <4> QED
        BY <4>1
    <3> QED
      BY <1>1, <1>3, <3>1, <3>2
  <2>3. \A k \in 1..Len(l2) : l2[k] = L[Len(p) + Len(r2) + k]
    <3> SUFFICES ASSUME NEW k \in 1..Len(l2) PROVE l2[k] = L[Len(p) + Len(r2) + k]
      OBVIOUS
    <3>1. k + 1 \in 1..Len(l) /\ l2[k] = l[k + 1]
      BY <1>1, <1>2
    <3>2. Len(p) + Len(r) + (k + 1) = Len(p) + Len(r2) + k
      BY <1>1, <1>3, <1>2
    <3>3. l[k + 1] = L[Len(p) + Len(r) + (k + 1)]
      BY <3>1 DEF Splits
    <3> QED
      BY <3>1, <3>2, <3>3
  <2> QED
    BY <2>1, <2>2, <2>3 DEF Splits
<1> QED
  BY <1>4 DEF r2, l2

LEMMA MoveRing ==
  ASSUME NEW L \in Seq(Texts), NEW p \in Seq(Texts), NEW r \in Seq(Texts), NEW l \in Seq(Texts),
         Splits(L, p, r, l), r # <<>>
  PROVE  Splits(L, Append(p, Head(r)), Tail(r), l)
<1> DEFINE p2 == Append(p, Head(r))
           r2 == Tail(r)
<1>1. Len(r) > 0 /\ Head(r) = r[1] /\ Len(l) \in Nat /\ Len(p) \in Nat /\ Len(r) \in Nat
  OBVIOUS
<1>2. Len(r2) = Len(r) - 1 /\ \A k \in 1..Len(r2) : r2[k] = r[k + 1]
  BY <1>1
<1>3. /\ Len(p2) = Len(p) + 1
      /\ \A k \in 1..Len(p2) : p2[k] = IF k <= Len(p) THEN p[k] ELSE r[1]
  BY <1>1
<1> HIDE DEF p2, r2
<1>4. Splits(L, p2, r2, l)
  <2>1. Len(p2) + Len(r2) + Len(l) = Len(L)
    BY <1>1, <1>2, <1>3 DEF Splits
  <2>2. \A k \in 1..Len(p2) : p2[k] = L[k]
    <3> SUFFICES ASSUME NEW k \in 1..Len(p2) PROVE p2[k] = L[k]
      OBVIOUS
    <3>1. CASE k \in 1..Len(p)
      <4>1. k <= Len(p)
        BY <1>1, <3>1
      <4>2. p2[k] = p[k]
        BY <1>3, <4>1
      <4>3. p[k] = L[k]
        BY <3>1, Zenon DEF Splits
      <4> QED
        BY <4>2, <4>3
    <3>2. CASE k = Len(p) + 1
      <4>1. p2[k] = r[1]
        BY <1>1, <1>3, <3>2
      <4>2. r[1] = L[Len(p) + 1]
        BY <1>1 DEF Splits
      <4> QED
        BY <3>2, <4>1, <4>2
    <3>3. k \in Nat /\ k >= 1 /\ k <= Len(p) + 1
      BY <1>1, <1>3
    <3> QED
      BY <1>1, <3>1, <3>2, <3>3
  <2>3. \A k \in 1..Len(r2) : r2[k] = L[Len(p2) + k]
    <3> SUFFICES ASSUME NEW k \in 1..Len(r2) PROVE r2[k] = L[Len(p2) + k]
      OBVIOUS
    <3>1. k + 1 \in 1..Len(r) /\ r2[k] = r[k + 1]
      BY <1>1, <1>2
    <3>2. Len(p) + (k + 1) = Len(p2) + k
      BY <1>1, <1>2, <1>3
    <3>3. r[k + 1] = L[Len(p) + (k + 1)]
      BY <3>1 DEF Splits
    <3> QED
      BY <3>1, <3>2, <3>3
  <2>4. \A k \in 1..Len(l) : l[k] = L[Len(p2) + Len(r2) + k]
    <3>1. Len(p2) + Len(r2) = Len(p) + Len(r)
      BY <1>1, <1>2, <1>3
    <3> QED
      BY <3>1 DEF Splits
  <2> QED
    BY <2>1, <2>2, <2>3, <2>4 DEF Splits
<1> QED
  BY <1>4 DEF p2, r2

LEMMA ReadText ==
  ASSUME TypeOK, NEW t \in Texts, NEW l, Read(Answer(t, l))
  PROVE  /\ printed' = [printed EXCEPT ![job] = Append(printed[job], t)]
         /\ UNCHANGED <<prog, pc, job, drained, cut, faults>>
<1>1. Reading(Answer(t, l)) = [more |-> TRUE, texts |-> <<t>>]
  BY ReadingText, PollingAssumption DEF TypeOK
<1>2. printed[job] \in Seq(Texts)
  BY DEF TypeOK
<1>3. printed[job] \o <<t>> = Append(printed[job], t)
  BY <1>2
<1>4. /\ Reading(Answer(t, l)).more = TRUE /\ Reading(Answer(t, l)).texts = <<t>>
  BY <1>1
<1> QED
  BY <1>3, <1>4 DEF Read

LEMMA ReadEnd ==
  ASSUME TypeOK, NEW l, Reading(Answer(NoText, l)) = [more |-> FALSE, texts |-> <<>>],
         Read(Answer(NoText, l))
  PROVE  /\ printed' = printed /\ drained' = drained \cup {job}
         /\ cut' = IF ring = <<>> /\ Finished THEN cut ELSE cut \cup {job}
         /\ pc' = AfterDrain[1] /\ job' = AfterDrain[2]
         /\ UNCHANGED <<prog, faults>>
<1>1. printed[job] \in Seq(Texts) /\ printed \in [Jobs -> Seq(Texts)]
  BY DEF TypeOK
<1>2. printed[job] \o <<>> = printed[job]
  BY <1>1
<1>3. Reading(Answer(NoText, l)).more = FALSE /\ Reading(Answer(NoText, l)).texts = <<>>
  OBVIOUS
<1> QED
  BY <1>1, <1>2, <1>3 DEF Read

LEMMA ReadEarly ==
  ASSUME TypeOK, prog # "backup", NEW l \in MoreTags, Read(Answer(NoText, l))
  PROVE  UNCHANGED <<prog, pc, job, printed, drained, cut, faults>>
<1>1. Reading(Answer(NoText, l)) = [more |-> TRUE, texts |-> <<>>]
  BY ReadingEarly, PollingAssumption DEF TypeOK
<1>2. printed[job] \in Seq(Texts) /\ printed \in [Jobs -> Seq(Texts)]
  BY DEF TypeOK
<1>3. printed[job] \o <<>> = printed[job]
  BY <1>2
<1>4. Reading(Answer(NoText, l)).more = TRUE /\ Reading(Answer(NoText, l)).texts = <<>>
  BY <1>1
<1> QED
  BY <1>2, <1>3, <1>4 DEF Read

LEMMA LinesLemma == \A j \in Jobs : LinesOf(j) \in Seq(Texts)
  BY PollingAssumption DEF LinesOf

-----------------------------------------------------------------------------
(* Each step preserves the invariant *)

LEMMA InitLemma == Init => PollingIInv
<1> SUFFICES ASSUME Init PROVE PollingIInv
  OBVIOUS
<1>1. TypeOK
  BY PollingAssumption DEF Init, TypeOK, Jobs, ClientGone
<1> QED
  BY <1>1 DEF Init, PollingIInv, ClientInv, PrintedInv, ServerInv, FailsOnlyByFault, Idle, Jobs

LEMMA ProduceLemma ==
  ASSUME PollingIInv, Produce
  PROVE  PollingIInv'
<1> USE DEF PollingIInv
<1>1. /\ left # <<>> /\ left' = Tail(left) /\ ring' = Append(ring, Head(left))
      /\ Len(ring) < RingSize \/ pc \in {"ok", "failed"}
      /\ UNCHANGED <<prog, pc, job, printed, drained, cut, early, faults, active, file, copy>>
  BY DEF Produce, client, ClientGone
<1>2. left \in Seq(Texts) /\ ring \in Seq(Texts) /\ Len(left) > 0 /\ Head(left) = left[1]
  BY <1>1 DEF TypeOK
<1>3. /\ left' \in Seq(Texts) /\ Len(left') = Len(left) - 1
      /\ \A k \in 1..Len(left') : left'[k] = left[k + 1]
  BY <1>1, <1>2
<1>4. /\ ring' \in Seq(Texts) /\ Len(ring') = Len(ring) + 1
      /\ \A k \in 1..Len(ring') : ring'[k] = IF k <= Len(ring) THEN ring[k] ELSE left[1]
  BY <1>1, <1>2
<1>5. TypeOK'
  BY <1>1, <1>2, <1>3, <1>4, PollingAssumption DEF TypeOK, ClientGone
<1>6. ClientInv' /\ PrintedInv' /\ FailsOnlyByFault'
  BY <1>1 DEF ClientInv, PrintedInv, FailsOnlyByFault, Restores
<1>7. pc = "drain" => Conserved'
  <2> SUFFICES ASSUME pc = "drain" PROVE Conserved'
    OBVIOUS
  <2>1. /\ Conserved /\ printed[job] \in Seq(Texts) /\ LinesOf(job) \in Seq(Texts)
        /\ printed'[job'] = printed[job] /\ LinesOf(job)' = LinesOf(job)
    BY <1>1, LinesLemma DEF ServerInv, TypeOK, LinesOf
  <2> QED
    BY <1>1, <1>2, <2>1, MoveLeft DEF Conserved
<1>8. ServerInv'
  BY <1>1, <1>7 DEF ServerInv, Idle, Restores, ClientGone
<1> QED
  BY <1>5, <1>6, <1>8

LEMMA FinishJobLemma ==
  ASSUME PollingIInv, FinishJob
  PROVE  PollingIInv'
<1> USE DEF PollingIInv
<1>1. /\ active \in Jobs /\ left = <<>> /\ active' = "none"
      /\ file' = IF active = "backup" THEN "whole" ELSE file
      /\ copy' = IF active = "restore" THEN file ELSE copy
      /\ UNCHANGED <<prog, pc, job, printed, drained, cut, early, faults, left, ring>>
  BY DEF FinishJob, client, Finished, TypeOK
<1>2. TypeOK'
  BY <1>1 DEF TypeOK, ClientGone
<1>3. ClientInv' /\ PrintedInv' /\ FailsOnlyByFault'
  BY <1>1 DEF ClientInv, PrintedInv, FailsOnlyByFault, Restores
<1>4. ServerInv'
  BY <1>1 DEF ServerInv, Idle, Restores, Jobs, Conserved, LinesOf, TypeOK
<1> QED
  BY <1>2, <1>3, <1>4

LEMMA SetupLemma ==
  ASSUME PollingIInv, Setup
  PROVE  PollingIInv'
<1> USE DEF PollingIInv
<1>1. /\ pc = "setup" /\ pc' = "start"
      /\ UNCHANGED <<prog, job, printed, drained, cut, early, faults, active, left, ring, file, copy>>
  BY DEF Setup, server
<1> QED
  BY <1>1 DEF TypeOK, ClientGone, ClientInv, PrintedInv, ServerInv, FailsOnlyByFault, Restores, Idle

\* The start is refused while gbak runs, or the job begins
LEMMA StartJobLemma ==
  ASSUME PollingIInv, StartJob
  PROVE  PollingIInv'
<1> USE DEF PollingIInv
<1>1. CASE ~Finished
  <2>1. /\ pc = "start" /\ pc' = "failed" /\ cut # {}
        /\ UNCHANGED <<prog, job, printed, drained, cut, early, faults, active, left, ring,
                       file, copy>>
    BY <1>1 DEF StartJob, Throw, server, ServerInv, Finished, Idle
  <2> QED
    BY <2>1 DEF TypeOK, ClientGone, ClientInv, PrintedInv, ServerInv, FailsOnlyByFault,
                Restores, Idle
<1>2. CASE Finished
  <2>1. /\ pc = "start" /\ pc' = "drain" /\ active' = job /\ ring' = <<>>
        /\ left' = LinesOf(job) /\ active = "none"
        /\ file' = IF job = "backup" THEN "partial" ELSE file
        /\ copy' = IF job = "restore" THEN "partial" ELSE copy
        /\ UNCHANGED <<prog, job, printed, drained, cut, early, faults>>
    BY <1>2 DEF StartJob, LinesOf, Finished
  <2>2. TypeOK'
    BY <2>1, LinesLemma, PollingAssumption DEF TypeOK, ClientGone
  <2>3. ClientInv' /\ PrintedInv' /\ FailsOnlyByFault'
    BY <2>1 DEF ClientInv, PrintedInv, FailsOnlyByFault, Restores, LinesOf
  <2>4. Conserved'
    <3>1. printed'[job'] = <<>> /\ LinesOf(job)' = LinesOf(job) /\ LinesOf(job) \in Seq(Texts)
      BY <2>1, LinesLemma DEF PrintedInv, LinesOf, TypeOK
    <3> HIDE DEF PollingIInv
    <3> QED
      BY <2>1, <3>1 DEF Conserved, Splits
  <2>5. job # "none" /\ job \in Jobs
    BY DEF TypeOK, Jobs
  <2>6. ServerInv'
    BY <2>1, <2>4, <2>5 DEF ServerInv, Jobs
  <2> QED
    BY <2>2, <2>3, <2>6
<1> QED
  BY <1>1, <1>2

\* A line is taken from the buffer and printed
LEMMA TakeLine ==
  ASSUME PollingIInv, pc = "drain", ring # <<>>, early' \in 0..MaxEarly, early' >= early,
         printed' = [printed EXCEPT ![job] = Append(printed[job], Head(ring))],
         ring' = Tail(ring),
         UNCHANGED <<prog, pc, job, drained, cut, faults, active, left, file, copy>>
  PROVE  PollingIInv'
<1> USE DEF PollingIInv
<1> DEFINE p == printed[job]
           L == LinesOf(job)
           q == Append(p, Head(ring))
<1>1. /\ job \in Jobs /\ p \in Seq(Texts) /\ ring \in Seq(Texts) /\ left \in Seq(Texts)
      /\ L \in Seq(Texts) /\ Conserved
  BY LinesLemma DEF TypeOK, ServerInv
<1>2. Len(ring) > 0 /\ Head(ring) = ring[1] /\ ring[1] \in Texts
  BY <1>1
<1>3. /\ ring' \in Seq(Texts) /\ Len(ring') = Len(ring) - 1
      /\ \A k \in 1..Len(ring') : ring'[k] = ring[k + 1]
  BY <1>1, <1>2
<1>4. /\ q \in Seq(Texts) /\ Len(q) = Len(p) + 1
      /\ \A k \in 1..Len(q) : q[k] = IF k <= Len(p) THEN p[k] ELSE ring[1]
  BY <1>1, <1>2
<1>5. /\ printed' \in [Jobs -> Seq(Texts)] /\ printed'[job'] = q
      /\ \A j \in Jobs \ {job} : printed'[j] = printed[j]
  BY <1>1, <1>4 DEF TypeOK
<1>6. LinesOf(job)' = L
  BY DEF LinesOf
<1>7. Conserved'
  BY <1>1, <1>5, <1>6, MoveRing DEF Conserved
<1>8. TypeOK'
  BY <1>1, <1>3, <1>5, PollingAssumption DEF TypeOK, ClientGone
<1>9. ClientInv' /\ FailsOnlyByFault'
  <2>1. ClientInv'
    BY DEF ClientInv, Restores
  <2>2. early > 0 => early' > 0
    BY PollingAssumption DEF TypeOK
  <2> QED
    BY <2>1, <2>2 DEF FailsOnlyByFault
<1>10. PrintedInv'
  <2>1. job \notin drained
    BY DEF ClientInv, TypeOK, Jobs
  <2>2. \A j \in drained \ cut : printed'[j] = LinesOf(j)
    BY <1>5, <2>1 DEF PrintedInv, TypeOK
  <2>3. job = "backup" => printed'["restore"] = <<>>
    BY <1>5 DEF PrintedInv, Jobs
  <2> HIDE DEF p, L, q
  <2> QED
    BY <2>2, <2>3 DEF PrintedInv, LinesOf
<1>11. ServerInv'
  BY <1>7 DEF ServerInv, Idle, Restores, ClientGone
<1> QED
  BY <1>8, <1>9, <1>10, <1>11

LEMMA AllPrinted ==
  ASSUME PollingIInv, pc = "drain", ring = <<>>, Finished
  PROVE  printed[job] = LinesOf(job)
<1>1. Conserved /\ left = <<>> /\ printed[job] \in Seq(Texts) /\ LinesOf(job) \in Seq(Texts)
  BY LinesLemma DEF PollingIInv, ServerInv, TypeOK, Finished, ClientGone
<1>2. /\ Len(printed[job]) = Len(LinesOf(job))
      /\ \A k \in 1..Len(printed[job]) : printed[job][k] = LinesOf(job)[k]
  BY <1>1 DEF Conserved, Splits
<1> QED
  BY <1>1, <1>2, SeqEqual

\* The output is taken for ended: by right, or too soon by backup
LEMMA EndLemma ==
  ASSUME PollingIInv, pc = "drain", ring = <<>>,
         Finished \/ (prog = "backup" /\ early' > 0),
         early' \in 0..MaxEarly, early' >= early,
         printed' = printed, drained' = drained \cup {job},
         cut' = (IF Finished THEN cut ELSE cut \cup {job}),
         pc' = AfterDrain[1], job' = AfterDrain[2],
         UNCHANGED <<prog, faults, active, left, ring, file, copy>>
  PROVE  PollingIInv'
<1> USE DEF PollingIInv
<1>1. /\ pc' = (IF Restores THEN IF job = "backup" THEN "start" ELSE "check" ELSE "ok")
      /\ job' = (IF Restores THEN "restore" ELSE "backup")
  BY DEF AfterDrain, Restores
<1>2. /\ Restores' = Restores /\ job \in Jobs /\ (job = "restore" => Restores)
      /\ prog = "backup" => Restores
  BY DEF Restores, ClientInv, TypeOK
<1>3. Finished => printed[job] = LinesOf(job)
  BY AllPrinted
<1>4. TypeOK'
  <2>1. drained' \in SUBSET Jobs /\ cut' \in SUBSET drained'
    BY <1>2 DEF TypeOK
  <2> QED
    BY <1>1, <1>2, <2>1, PollingAssumption DEF TypeOK, ClientGone, Jobs
<1>5. ClientInv'
  BY <1>1, <1>2 DEF ClientInv, Jobs
<1>6. PrintedInv'
  <2>1. \A j \in drained' \ cut' : printed'[j] = LinesOf(j)
    BY <1>3 DEF PrintedInv
  <2>2. pc' = "start" => printed["restore"] = <<>>
    BY <1>1 DEF PrintedInv
  <2>3. job' = "backup" => job = "backup"
    BY <1>1, <1>2 DEF Jobs
  <2> QED
    BY <1>1, <2>1, <2>2, <2>3 DEF PrintedInv, LinesOf
<1>7. ServerInv'
  <2>1. /\ active \in {job, "none"}
        /\ active = "none" => left = <<>>
        /\ job = "backup" /\ active = "none" => file = "whole"
        /\ job = "restore" => file = "whole" /\ (active = "none" => copy = "whole")
    BY DEF ServerInv, ClientGone
  <2>2. ~Finished => cut' # {} /\ Restores
    BY <1>2
  <2>3. CASE Restores /\ job = "backup"
    BY <1>1, <1>2, <2>1, <2>2, <2>3 DEF ServerInv, Idle, Finished
  <2>4. CASE Restores /\ job = "restore"
    BY <1>1, <1>2, <2>1, <2>2, <2>4 DEF ServerInv, Idle, Finished
  <2>5. CASE ~Restores
    BY <1>1, <1>2, <2>1, <2>2, <2>5 DEF ServerInv, Idle, Finished, ClientGone, Jobs
  <2> QED
    BY <1>2, <2>3, <2>4, <2>5 DEF Jobs
<1>8. FailsOnlyByFault'
  BY <1>1 DEF FailsOnlyByFault, TypeOK
<1> QED
  BY <1>4, <1>5, <1>6, <1>7, <1>8

LEMMA QueryLemma ==
  ASSUME PollingIInv, Query
  PROVE  PollingIInv'
<1>1. TypeOK /\ pc = "drain" /\ UNCHANGED <<early, active, left, file, copy>>
  BY DEF PollingIInv, Query
<1>2. CASE ring # <<>> /\ Read(Answer(Head(ring), "end")) /\ ring' = Tail(ring)
  <2>1. Head(ring) \in Texts
    BY <1>1, <1>2 DEF TypeOK
  <2>2. /\ printed' = [printed EXCEPT ![job] = Append(printed[job], Head(ring))]
        /\ UNCHANGED <<prog, pc, job, drained, cut, faults>>
    BY <1>1, <1>2, <2>1, ReadText
  <2>3. early' \in 0..MaxEarly /\ early' >= early
    BY <1>1 DEF TypeOK
  <2> QED
    BY <1>1, <1>2, <2>2, <2>3, TakeLine
<1>3. CASE ring = <<>> /\ Finished /\ Read(Answer(NoText, "end")) /\ UNCHANGED ring
  <2>1. Reading(Answer(NoText, "end")) = [more |-> FALSE, texts |-> <<>>]
    BY <1>1, ReadingEnd, PollingAssumption DEF TypeOK
  <2>2. /\ printed' = printed /\ drained' = drained \cup {job} /\ cut' = cut
        /\ pc' = AfterDrain[1] /\ job' = AfterDrain[2] /\ UNCHANGED <<prog, faults>>
    BY <1>1, <1>3, <2>1, ReadEnd
  <2>3. early' \in 0..MaxEarly /\ early' >= early
    BY <1>1 DEF TypeOK
  <2> QED
    BY <1>1, <1>3, <2>2, <2>3, EndLemma
<1> QED
  BY <1>2, <1>3 DEF Query

LEMMA QueryEarlyLemma ==
  ASSUME PollingIInv, QueryEarly
  PROVE  PollingIInv'
<1>1. /\ TypeOK /\ pc = "drain" /\ early' = early + 1 /\ early < MaxEarly
      /\ UNCHANGED <<active, left, file, copy>>
  BY DEF PollingIInv, QueryEarly
<1>2. early' \in 0..MaxEarly /\ early' >= early /\ early' > 0
  BY <1>1, PollingAssumption DEF TypeOK
<1>3. CASE /\ ring = <<>> /\ ~Finished
           /\ \E t \in {"timeout", "not_ready"} : Read(Answer(NoText, t))
           /\ UNCHANGED ring
  <2>1. PICK t \in {"timeout", "not_ready"} : Read(Answer(NoText, t))
    BY <1>3
  <2>2. t \in MoreTags
    BY DEF MoreTags
  <2>3. CASE prog = "backup"
    <3>1. /\ printed' = printed /\ drained' = drained \cup {job} /\ cut' = cut \cup {job}
          /\ pc' = AfterDrain[1] /\ job' = AfterDrain[2] /\ UNCHANGED <<prog, faults>>
      BY <1>1, <1>3, <2>1, <2>3, ReadingNothing, ReadEnd
    <3> QED
      BY <1>1, <1>2, <1>3, <2>3, <3>1, EndLemma
  <2>4. CASE prog # "backup"
    <3>1. UNCHANGED <<prog, pc, job, printed, drained, cut, faults>>
      BY <1>1, <2>1, <2>2, <2>4, ReadEarly
    <3>2. TypeOK' /\ ClientInv' /\ PrintedInv' /\ FailsOnlyByFault'
      BY <1>1, <1>2, <1>3, <3>1 DEF PollingIInv, TypeOK, ClientGone, ClientInv, PrintedInv,
         FailsOnlyByFault, Restores, LinesOf
    <3>3. ServerInv'
      BY <1>1, <1>3, <3>1 DEF PollingIInv, ServerInv, Restores, Idle, Conserved, LinesOf,
         ClientGone
    <3> QED
      BY <3>2, <3>3 DEF PollingIInv
  <2> QED
    BY <2>3, <2>4
<1>4. CASE /\ ring # <<>>
           /\ Read(Answer(Head(ring), "truncated"))
           /\ ring' = Tail(ring)
  <2>1. Head(ring) \in Texts
    BY <1>1, <1>4 DEF TypeOK
  <2>2. /\ printed' = [printed EXCEPT ![job] = Append(printed[job], Head(ring))]
        /\ UNCHANGED <<prog, pc, job, drained, cut, faults>>
    BY <1>1, <1>4, <2>1, ReadText
  <2> QED
    BY <1>1, <1>2, <1>4, <2>2, TakeLine
<1> QED
  BY <1>3, <1>4 DEF QueryEarly

LEMMA CheckLemma ==
  ASSUME PollingIInv, Check
  PROVE  PollingIInv'
<1> USE DEF PollingIInv
<1>1. /\ pc = "check" /\ job = "restore" /\ file = "whole"
      /\ active \in {"restore", "none"} /\ (active = "none" => left = <<>> /\ copy = "whole")
      /\ active # "none" => cut # {}
      /\ UNCHANGED <<prog, job, printed, drained, cut, early, faults, active, left, ring, file, copy>>
  BY DEF Check, Throw, server, ServerInv, ClientInv, ClientGone
<1>2. CASE copy # "whole"
  <2>1. pc' = "failed" /\ cut # {}
    BY <1>1, <1>2 DEF Check, Throw
  <2> QED
    BY <1>1, <2>1
       DEF TypeOK, ClientGone, ClientInv, PrintedInv, ServerInv, FailsOnlyByFault, Restores, Idle
<1>3. CASE copy = "whole"
  <2>1. pc' = "ok"
    BY <1>3 DEF Check
  <2>2. active = "none"
    BY <1>1, <1>3 DEF ServerInv
  <2> QED
    BY <1>1, <1>3, <2>1, <2>2
       DEF TypeOK, ClientGone, ClientInv, PrintedInv, ServerInv, FailsOnlyByFault, Restores, Idle
<1> QED
  BY <1>2, <1>3

LEMMA FaultLemma ==
  ASSUME PollingIInv, Fault
  PROVE  PollingIInv'
<1> USE DEF PollingIInv
<1>1. /\ pc' = "failed" /\ faults' = faults + 1 /\ faults < MaxFaults
      /\ UNCHANGED <<prog, job, printed, drained, cut, early, active, left, ring, file, copy>>
  BY DEF Fault, Throw, server
<1>2. TypeOK' /\ FailsOnlyByFault'
  BY <1>1, PollingAssumption DEF TypeOK, ClientGone, FailsOnlyByFault
<1> QED
  BY <1>1, <1>2 DEF ClientInv, PrintedInv, ServerInv, Restores, ClientGone

LEMMA NextLemma == PollingIInv /\ [Next]_vars => PollingIInv'
<1> SUFFICES ASSUME PollingIInv, [Next]_vars PROVE PollingIInv'
  OBVIOUS
<1>1. CASE Next
  BY <1>1, ProduceLemma, FinishJobLemma, SetupLemma, StartJobLemma, QueryLemma, QueryEarlyLemma,
     CheckLemma, FaultLemma DEF Next, Gbak, Client
<1>2. CASE UNCHANGED vars
  <2>1. UNCHANGED <<prog, pc, job, printed, drained, cut, early, faults, active, left, ring, file, copy>>
    BY <1>2 DEF vars, client, server
  <2>2. TypeOK' /\ ClientInv' /\ FailsOnlyByFault'
    BY <2>1, ZenonT(60) DEF PollingIInv, TypeOK, ClientGone, ClientInv, FailsOnlyByFault, Restores
  <2>3. PrintedInv' /\ Conserved' = Conserved
    BY <2>1 DEF PollingIInv, PrintedInv, Conserved, LinesOf
  <2>4. ServerInv'
    BY <2>1, <2>3 DEF PollingIInv, ServerInv, Restores, Idle, ClientGone
  <2> QED
    BY <2>2, <2>3, <2>4 DEF PollingIInv
<1> QED
  BY <1>1, <1>2

LEMMA Invariant == Spec => []PollingIInv
  BY InitLemma, NextLemma, PTL DEF Spec

(* The state keeps its types, the ring buffer its size; exit 0 comes only
   after gbak has closed the file and the copy, whatever an earlier run had
   left at the same paths. *)
THEOREM PollingInvTheorem == Spec => []PollingInv
<1>1. PollingIInv => PollingInv
  BY DEF PollingIInv, PollingInv, OkMeansClosed, ServerInv, Idle, Restores
<1> QED
  BY <1>1, Invariant, PTL

(* The restore is never refused because the backup still runs, and never
   leaves a copy that cannot be attached: only a failed call fails a run, or
   an empty answer that backup.cpp takes for the end while gbak still writes;
   no other program cuts its output. *)
THEOREM FailsOnlyByFaultTheorem == Spec => []FailsOnlyByFault
  BY Invariant, PTL DEF PollingIInv

-----------------------------------------------------------------------------
(* Both streams, step by step *)

\* A step of the client prints the next line of its job, or takes it for
\* ended with all lines printed, or cuts it, or ends the client, or none of these.
LEMMA StepOfStreams ==
  ASSUME PollingIInv, [Next]_vars
  PROVE  \/ /\ UNCHANGED <<printed, drained, cut>>
            /\ pc' = pc \/ ~ClientGone
         \/ /\ pc = "drain" /\ ring # <<>> /\ UNCHANGED <<pc, job, drained, cut>>
            /\ printed' = [printed EXCEPT ![job] = Append(printed[job], Head(ring))]
         \/ /\ pc = "drain" /\ printed[job] = LinesOf(job) /\ UNCHANGED <<printed, cut>>
            /\ drained' = drained \cup {job}
         \/ /\ pc = "drain" /\ UNCHANGED printed
            /\ drained' = drained \cup {job} /\ cut' = cut \cup {job}
<1>1. TypeOK
  BY DEF PollingIInv
<1>2. CASE Gbak \/ UNCHANGED vars
  BY <1>2 DEF Gbak, Produce, FinishJob, client, vars
<1>3. CASE Setup
  BY <1>3 DEF Setup, ClientGone
<1>4. CASE StartJob
  BY <1>4 DEF StartJob, Throw, ClientGone
<1>5. CASE Query
  <2>1. pc = "drain"
    BY <1>5 DEF Query
  <2>2. CASE ring # <<>> /\ Read(Answer(Head(ring), "end")) /\ ring' = Tail(ring)
    <3>1. Head(ring) \in Texts
      BY <1>1, <2>2 DEF TypeOK
    <3> QED
      BY <1>1, <2>1, <2>2, <3>1, ReadText
  <2>3. CASE ring = <<>> /\ Finished /\ Read(Answer(NoText, "end")) /\ UNCHANGED ring
    <3>1. Reading(Answer(NoText, "end")) = [more |-> FALSE, texts |-> <<>>]
      BY <1>1, ReadingEnd, PollingAssumption DEF TypeOK
    <3>2. printed' = printed /\ drained' = drained \cup {job} /\ cut' = cut
      BY <1>1, <2>3, <3>1, ReadEnd
    <3> QED
      BY <2>1, <2>3, <3>2, AllPrinted
  <2> QED
    BY <1>5, <2>2, <2>3 DEF Query
<1>6. CASE QueryEarly
  <2>1. pc = "drain"
    BY <1>6 DEF QueryEarly
  <2>2. CASE /\ ring = <<>> /\ ~Finished
             /\ \E t \in {"timeout", "not_ready"} : Read(Answer(NoText, t))
    <3>1. PICK t \in MoreTags : Read(Answer(NoText, t))
      BY <2>2 DEF MoreTags
    <3>2. CASE prog = "backup"
      <4>1. printed' = printed /\ drained' = drained \cup {job} /\ cut' = cut \cup {job}
        BY <1>1, <2>2, <3>1, <3>2, ReadingNothing, ReadEnd
      <4> QED
        BY <2>1, <4>1
    <3>3. CASE prog # "backup"
      BY <1>1, <3>1, <3>3, ReadEarly
    <3> QED
      BY <3>2, <3>3
  <2>3. CASE ring # <<>> /\ Read(Answer(Head(ring), "truncated"))
    <3>1. Head(ring) \in Texts
      BY <1>1, <2>3 DEF TypeOK
    <3> QED
      BY <1>1, <2>1, <2>3, <3>1, ReadText
  <2> QED
    BY <1>6, <2>2, <2>3 DEF QueryEarly
<1>7. CASE Check
  BY <1>7 DEF Check, Throw, ClientGone
<1>8. CASE Fault
  BY <1>8 DEF Fault, Throw
<1> QED
  BY <1>2, <1>3, <1>4, <1>5, <1>6, <1>7, <1>8 DEF Next, Client

\* The stream of a job, as LineStream steps
StreamStep(j) ==
  LET end == EndOf(j)
      out == printed[j]
  IN \/ UNCHANGED <<out, end>>
     \/ /\ end = "reading" /\ Len(out) < Len(LinesOf(j))
        /\ out' = Append(out, LinesOf(j)[Len(out) + 1]) /\ end' = end
     \/ end = "reading" /\ out = LinesOf(j) /\ end' = "whole" /\ out' = out
     \/ end = "reading" /\ end' = "abandoned" /\ out' = out

LEMMA StreamStepLemma ==
  ASSUME PollingIInv, [Next]_vars, NEW j \in Jobs
  PROVE  StreamStep(j)
<1>1. /\ TypeOK /\ job \in Jobs /\ drained \subseteq Jobs /\ printed \in [Jobs -> Seq(Texts)]
      /\ pc \in {"setup", "start", "drain", "check", "ok", "failed"}
  BY DEF PollingIInv, TypeOK
<1>2. /\ EndOf(j) = IF j \in drained \ cut THEN "whole" ELSE
                    IF j \in cut \/ pc \in {"ok", "failed"} THEN "abandoned" ELSE "reading"
      /\ EndOf(j)' = IF j \in drained' \ cut' THEN "whole" ELSE
                     IF j \in cut' \/ pc' \in {"ok", "failed"} THEN "abandoned" ELSE "reading"
  BY DEF EndOf, ClientGone
<1>3. CASE UNCHANGED <<printed, drained, cut>> /\ (pc \in {"ok", "failed"} => pc' = pc)
  BY <1>2, <1>3 DEF StreamStep
<1>9. pc = "drain" => job \notin drained /\ job \notin cut
  BY DEF PollingIInv, ClientInv, TypeOK, Jobs
<1>4. CASE /\ pc = "drain" /\ ring # <<>> /\ UNCHANGED <<pc, job, drained, cut>>
           /\ printed' = [printed EXCEPT ![job] = Append(printed[job], Head(ring))]
  <2>1. CASE j # job
    BY <1>1, <1>2, <1>4, <2>1 DEF StreamStep
  <2>2. CASE j = job
    <3>1. /\ printed[j] \in Seq(Texts) /\ ring \in Seq(Texts) /\ left \in Seq(Texts)
          /\ Splits(LinesOf(j), printed[j], ring, left) /\ j \notin drained
      BY <1>4, <2>2 DEF PollingIInv, TypeOK, ServerInv, ClientInv, Conserved, Jobs
    <3>2. Len(ring) > 0 /\ Head(ring) = ring[1] /\ Len(ring) \in Nat /\ Len(left) \in Nat
          /\ Len(printed[j]) \in Nat
      BY <1>4, <3>1
    <3>3. ring[1] = LinesOf(j)[Len(printed[j]) + 1]
      BY <3>1, <3>2 DEF Splits
    <3>4. Len(printed[j]) + Len(ring) + Len(left) = Len(LinesOf(j))
      BY <3>1 DEF Splits
    <3>5. Len(printed[j]) < Len(LinesOf(j))
      BY <3>2, <3>4
    <3>6. printed'[j] = Append(printed[j], LinesOf(j)[Len(printed[j]) + 1])
      BY <1>1, <1>4, <2>2, <3>2, <3>3
    <3>7. EndOf(j) = "reading" /\ EndOf(j)' = "reading"
      BY <1>2, <1>4, <1>9, <2>2, <3>1
    <3> QED
      BY <3>5, <3>6, <3>7 DEF StreamStep
  <2> QED
    BY <2>1, <2>2
<1>5. CASE /\ pc = "drain" /\ printed[job] = LinesOf(job) /\ UNCHANGED <<printed, cut>>
           /\ drained' = drained \cup {job}
  BY <1>1, <1>2, <1>5, <1>9 DEF StreamStep
<1>6. CASE /\ pc = "drain" /\ UNCHANGED printed
           /\ drained' = drained \cup {job} /\ cut' = cut \cup {job}
  BY <1>1, <1>2, <1>6, <1>9 DEF StreamStep
<1> QED
  BY <1>1, <1>3, <1>4, <1>5, <1>6, StepOfStreams DEF ClientGone

(* printLines and streamServiceOutput over the ring buffer implement the
   stream of lines of each job in its safety part: each line once and in
   order, whole only when all were printed, abandoned when cut.  That a stream ends is a
   matter of fairness and stays with the model checker. *)
THEOREM StreamsInOrderTheorem == Spec => BackupStream!Safety /\ RestoreStream!Safety
<1>1. Init => BackupStream!Init /\ RestoreStream!Init
  BY DEF Init, BackupStream!Init, RestoreStream!Init, EndOf, ClientGone, Jobs
<1>2. StreamStep("backup") => [BackupStream!Next]_(BackupStream!stream)
  BY DEF StreamStep, LinesOf, BackupStream!Next, BackupStream!stream, BackupStream!Deliver,
         BackupStream!Finish, BackupStream!Abandon
<1>3. StreamStep("restore") => [RestoreStream!Next]_(RestoreStream!stream)
  BY DEF StreamStep, LinesOf, RestoreStream!Next, RestoreStream!stream, RestoreStream!Deliver,
         RestoreStream!Finish, RestoreStream!Abandon
<1>4. PollingIInv /\ [Next]_vars => [BackupStream!Next]_(BackupStream!stream)
                                  /\ [RestoreStream!Next]_(RestoreStream!stream)
  BY <1>2, <1>3, StreamStepLemma DEF Jobs
<1> QED
  BY <1>1, <1>4, Invariant, PTL DEF Spec, BackupStream!Safety, RestoreStream!Safety
=============================================================================
