----------------------------- MODULE EventProofs ----------------------------
(***************************************************************************)
(* events_demo.cpp counts every committed post at most once, whatever      *)
(* others post and however late deliveries come; its threads stay out of   *)
(* each other's way while no wait gives up on a delivery; and its verdict  *)
(* is the right one.  The last part is about events.py, whose collector    *)
(* keeps account of every post in the same way.                            *)
(***************************************************************************)
EXTENDS EventDemo, EventCollector, SequenceTheorems, TLAPS

Inv == TypeOK /\ Ordered /\ CountedOnce

LEMMA InitLemma == Init => Inv
<1> SUFFICES ASSUME Init PROVE Inv
  OBVIOUS
<1>1. TypeOK
  <2>1. cnt \in Nat /\ 0 \in 0..MaxForeign /\ <<>> \in Seq(Nat)
    BY EventAssumption DEF Init
  <2>2. [at |-> "queue", in |-> "-"] \in [at : Phases, in : {"-"}]
    BY DEF Phases
  <2>3. pc \in [at : Phases, in : {"-"}]
    BY <2>2 DEF Init
  <2>4. reqs \in Seq(Nat) /\ wire \in Seq(Nat) /\ got \in Seq(Nat)
    BY <2>1 DEF Init
  <2>5. copied \in BOOLEAN /\ late \in BOOLEAN
    BY DEF Init
  <2>6. /\ eveBuffer \in Nat /\ eveResult \in Nat /\ total \in Nat /\ fired \in Nat
        /\ posted \in 0..3 /\ foreign \in 0..MaxForeign
        /\ reported \in Nat /\ after \in Nat
    BY <2>1 DEF Init
  <2> QED
    BY <2>1, <2>3, <2>4, <2>5, <2>6 DEF TypeOK
<1>2. Ordered /\ CountedOnce
  BY EventAssumption DEF Init, Ordered, CountedOnce
<1> QED
  BY <1>1, <1>2 DEF Inv

(* Where the control is afterwards is always a place. *)
LEMMA PlaceLemma ==
  /\ \A p \in Phases : [at |-> p, in |-> "-"] \in [at : Phases, in : {"-"}]
  /\ \A w \in Waits, i \in {"poll", "counts", "clear"} :
       [at |-> w, in |-> i] \in [at : Waits, in : {"poll", "counts", "clear"}]
  /\ \A w \in Waits : AfterWait(w) \in Phases
  BY DEF Waits, Phases, AfterWait

(* An interest that fires leaves a sequence one shorter, and its packet is
   the newest count there is. *)
LEMMA ServerFiresLemma ==
  ASSUME Inv, ServerFires PROVE Inv'
<1>1. PICK i \in DOMAIN reqs :
         reqs' = [j \in 1..(Len(reqs) - 1) |-> IF j < i THEN reqs[j] ELSE reqs[j+1]]
  BY DEF ServerFires
<1>2. /\ wire' = Append(wire, cnt + 1)
      /\ UNCHANGED <<cnt, eveBuffer, eveResult, fired, copied, total, posted, pc,
                     got, reported, after, foreign, late>>
  BY DEF ServerFires, history
<1>3. TypeOK /\ Ordered /\ CountedOnce
  BY DEF Inv
<1>4. reqs' \in Seq(Nat)
  <2>1. reqs \in Seq(Nat) /\ Len(reqs) \in Nat /\ i \in 1..Len(reqs)
    BY <1>1, <1>3 DEF TypeOK
  <2>2. \A j \in 1..(Len(reqs) - 1) : (IF j < i THEN reqs[j] ELSE reqs[j+1]) \in Nat
    BY <2>1
  <2>3. Len(reqs) - 1 \in Nat
    BY <2>1
  <2> QED
    BY <1>1, <2>2, <2>3
<1>5. TypeOK'
  <2>1. wire' \in Seq(Nat)
    BY <1>2, <1>3 DEF TypeOK
  <2> QED
    BY <1>2, <1>3, <1>4, <2>1 DEF TypeOK
<1>6. Ordered'
  <2>1. /\ wire \in Seq(Nat) /\ Len(wire) \in Nat /\ DOMAIN wire = 1..Len(wire)
        /\ cnt \in Nat /\ eveResult \in Nat
    BY <1>3 DEF TypeOK
  <2>2. /\ DOMAIN wire' = 1..(Len(wire) + 1) /\ wire'[Len(wire) + 1] = cnt + 1
        /\ \A k \in 1..Len(wire) : wire'[k] = wire[k]
    BY <1>2, <2>1
  <2>3. \A k \in DOMAIN wire : wire[k] \in Nat
    BY <2>1
  <2>4. \A k \in DOMAIN wire' : eveResult <= wire'[k] /\ wire'[k] <= cnt + 1
    BY <1>3, <2>1, <2>2, <2>3 DEF Ordered
  <2>5. \A k, m \in DOMAIN wire' : k <= m => wire'[k] <= wire'[m]
    BY <1>3, <2>1, <2>2, <2>3, <2>4, SMTT(30) DEF Ordered
  <2> QED
    BY <1>2, <1>3, <2>4, <2>5 DEF Ordered
<1>7. CountedOnce'
  BY <1>2, <1>3 DEF CountedOnce
<1> QED
  BY <1>5, <1>6, <1>7 DEF Inv

(* The oldest packet is the smallest, and none is older than eveResult. *)
LEMMA CopiesLemma ==
  ASSUME Inv, CallbackCopies PROVE Inv'
<1>1. /\ eveResult' = Head(wire) /\ wire' = Tail(wire) /\ wire # <<>>
      /\ copied' = TRUE
      /\ UNCHANGED <<cnt, reqs, eveBuffer, fired, total, posted, pc, got, reported,
                     after, foreign, late>>
  BY DEF CallbackCopies, history
<1>2. TypeOK /\ Ordered /\ CountedOnce /\ wire \in Seq(Nat)
  BY DEF Inv, TypeOK
<1>3. /\ Head(wire) = wire[1] /\ wire[1] \in Nat /\ 1 \in DOMAIN wire
      /\ wire' \in Seq(Nat) /\ Len(wire') = Len(wire) - 1
      /\ \A k \in 1..Len(wire') : wire'[k] = wire[k + 1]
  BY <1>1, <1>2, HeadTailProperties
<1>4. TypeOK'
  BY <1>1, <1>2, <1>3 DEF TypeOK
<1>5. Ordered'
  <2>1. /\ Len(wire) \in Nat /\ DOMAIN wire = 1..Len(wire)
        /\ DOMAIN wire' = 1..(Len(wire) - 1) /\ Len(wire') = Len(wire) - 1
    BY <1>2, <1>3
  <2>2. \A k \in DOMAIN wire' : k + 1 \in DOMAIN wire /\ wire'[k] = wire[k + 1]
    BY <1>3, <2>1
  <2>3. \A k, m \in DOMAIN wire' : k <= m => wire'[k] <= wire'[m]
    <3> SUFFICES ASSUME NEW k \in DOMAIN wire', NEW m \in DOMAIN wire', k <= m
                 PROVE  wire[k + 1] <= wire[m + 1]
      BY <2>2
    <3>1. k + 1 <= m + 1
      BY <2>1
    <3> QED
      BY <1>2, <2>2, <3>1 DEF Ordered
  <2>4. \A k \in DOMAIN wire' : wire[1] <= wire'[k] /\ wire'[k] <= cnt + 1
    <3> SUFFICES ASSUME NEW k \in DOMAIN wire'
                 PROVE  wire[1] <= wire[k + 1] /\ wire[k + 1] <= cnt + 1
      BY <2>2
    <3>1. 1 <= k + 1
      BY <2>1
    <3> QED
      BY <1>2, <1>3, <2>2, <3>1 DEF Ordered
  <2>5. eveBuffer <= wire[1] /\ wire[1] <= cnt + 1
    <3>1. eveBuffer <= eveResult /\ eveResult <= wire[1] /\ wire[1] <= cnt + 1
      BY <1>2, <1>3 DEF Ordered
    <3>2. eveBuffer \in Nat /\ eveResult \in Nat
      BY <1>2 DEF TypeOK
    <3> QED
      BY <1>3, <3>1, <3>2
  <2> QED
    BY <1>1, <1>3, <2>3, <2>4, <2>5 DEF Ordered
<1>6. CountedOnce'
  BY <1>1, <1>2 DEF CountedOnce
<1> QED
  BY <1>4, <1>5, <1>6 DEF Inv

(* isc_event_counts: the difference it returns is the step of the baseline. *)
LEMMA CountsLemma ==
  ASSUME Inv, EventCounts PROVE Inv'
<1>1. PICK w \in Waits :
         /\ pc = [at |-> w, in |-> "counts"]
         /\ total' = IF eveResult > eveBuffer THEN eveResult - eveBuffer ELSE 0
         /\ eveBuffer' = eveResult
         /\ pc' = [at |-> w, in |-> "clear"]
         /\ UNCHANGED <<cnt, reqs, wire, eveResult, fired, copied, posted, got,
                        reported, after, foreign, late>>
  BY DEF EventCounts, server, history
<1>2. TypeOK /\ Ordered /\ CountedOnce
  BY DEF Inv
<1>3. pc' \in [at : Waits, in : {"poll", "counts", "clear"}]
  BY <1>1, PlaceLemma
<1>4. TypeOK'
  BY <1>1, <1>2, <1>3 DEF TypeOK
<1>5. Ordered'
  BY <1>1, <1>2 DEF Ordered, TypeOK
<1>6. CountedOnce'
  BY <1>1, <1>2 DEF CountedOnce, Ordered, TypeOK
<1> QED
  BY <1>4, <1>5, <1>6 DEF Inv

LEMMA ReturnsLemma ==
  ASSUME Inv, WaitReturns PROVE Inv'
<1>1. PICK w \in Waits :
         /\ pc = [at |-> w, in |-> "clear"]
         /\ fired' = 0 /\ got' = Append(got, total) /\ reported' = reported + total
         /\ pc' = [at |-> AfterWait(w), in |-> "-"]
         /\ UNCHANGED <<cnt, reqs, wire, eveBuffer, eveResult, copied, total, posted,
                        after, foreign, late>>
  BY DEF WaitReturns, server, Goto
<1>2. TypeOK /\ Ordered /\ CountedOnce
  BY DEF Inv
<1>3. pc' \in [at : Phases, in : {"-"}]
  BY <1>1, PlaceLemma
<1>4. got' \in Seq(Nat)
  BY <1>1, <1>2 DEF TypeOK
<1>5. TypeOK'
  BY <1>1, <1>2, <1>3, <1>4 DEF TypeOK
<1>6. Ordered'
  BY <1>1, <1>2 DEF Ordered
<1>7. CountedOnce'
  BY <1>1, <1>2 DEF CountedOnce, TypeOK
<1> QED
  BY <1>5, <1>6, <1>7 DEF Inv

LEMMA CommitLemma ==
  ASSUME Inv, CommitPosts PROVE Inv'
<1>1. /\ cnt' = cnt + posted /\ posted' = 0 /\ after' = cnt'
      /\ pc = [at |-> "commit", in |-> "-"]
      /\ pc' = [at |-> "committed", in |-> "poll"]
      /\ UNCHANGED <<reqs, wire, eveBuffer, eveResult, fired, copied, total, got,
                     reported, foreign, late>>
  BY DEF CommitPosts, GotoWait, At
<1>2. TypeOK /\ Ordered /\ CountedOnce /\ posted \in Nat /\ cnt \in Nat
  BY DEF Inv, TypeOK
<1>3. pc' \in [at : Waits, in : {"poll", "counts", "clear"}]
  BY <1>1, PlaceLemma DEF Waits
<1>4. cnt' \in Nat /\ cnt <= cnt'
  BY <1>1, <1>2
<1>5. TypeOK'
  BY <1>1, <1>2, <1>3, <1>4 DEF TypeOK
<1>6. Ordered'
  <2>1. \A i \in DOMAIN wire : wire[i] \in Nat
    BY <1>2 DEF TypeOK
  <2> QED
    BY <1>1, <1>2, <1>4, <2>1 DEF Ordered, TypeOK
<1>7. CountedOnce'
  BY <1>1, <1>2, <1>4 DEF CountedOnce, TypeOK
<1> QED
  BY <1>5, <1>6, <1>7 DEF Inv

LEMMA ForeignLemma ==
  ASSUME Inv, ForeignCommit PROVE Inv'
<1>1. /\ cnt' = cnt + 1 /\ foreign' = foreign + 1 /\ foreign < MaxForeign
      /\ UNCHANGED <<reqs, wire, eveBuffer, eveResult, fired, copied, total, posted,
                     pc, got, reported, after, late>>
  BY DEF ForeignCommit, history
<1>2. TypeOK /\ Ordered /\ CountedOnce /\ cnt \in Nat
  BY DEF Inv, TypeOK
<1>3. cnt' \in Nat /\ cnt <= cnt'
  BY <1>1, <1>2
<1>4. foreign' \in 0..MaxForeign
  BY <1>1, <1>2, EventAssumption DEF TypeOK
<1>5. TypeOK'
  BY <1>1, <1>2, <1>3, <1>4 DEF TypeOK
<1>6. Ordered'
  <2>1. \A i \in DOMAIN wire : wire[i] \in Nat
    BY <1>2 DEF TypeOK
  <2> QED
    BY <1>1, <1>2, <1>3, <2>1 DEF Ordered, TypeOK
<1>7. CountedOnce'
  BY <1>1, <1>2, <1>3 DEF CountedOnce, TypeOK
<1> QED
  BY <1>5, <1>6, <1>7 DEF Inv

(* Everything else moves the control, the transaction or fired only. *)
LEMMA OtherLemma ==
  ASSUME Inv,
         UNCHANGED <<cnt, wire, eveBuffer, eveResult, total, reported, after, foreign>>,
         reqs' \in Seq(Nat), got' \in Seq(Nat), posted' \in 0..3,
         fired' \in Nat, copied' \in BOOLEAN, late' \in BOOLEAN,
         pc' = pc \/ (pc.in # "clear" /\
                     \/ pc' \in [at : Phases, in : {"-"}]
                     \/ pc' \in [at : Waits, in : {"poll", "counts"}])
  PROVE  Inv'
<1>1. TypeOK /\ Ordered /\ CountedOnce
  BY DEF Inv
<1>2. TypeOK'
  <2>1. pc' \in [at : Phases, in : {"-"}]
               \cup [at : Waits, in : {"poll", "counts", "clear"}]
    BY <1>1 DEF TypeOK
  <2> QED
    BY <1>1, <2>1 DEF TypeOK
<1>3. Ordered'
  BY <1>1 DEF Ordered
<1>4. CountedOnce'
  <2>1. pc'.in = "clear" <=> pc.in = "clear"
    OBVIOUS
  <2> QED
    BY <1>1, <2>1 DEF CountedOnce
<1> QED
  BY <1>2, <1>3, <1>4 DEF Inv

LEMMA NextLemma == Inv /\ [Next]_vars => Inv'
<1> SUFFICES ASSUME Inv, [Next]_vars PROVE Inv'
  OBVIOUS
<1>0. TypeOK
  BY DEF Inv
<1> USE DEF server, history
<1>1. CASE Queue \/ Requeue
  <2>1. pc.in = "-" /\ (Goto("post1") \/ GotoWait("baseline"))
    BY <1>1 DEF Queue, Requeue, At
  <2>2. pc' \in [at : Phases, in : {"-"}] \/ pc' \in [at : Waits, in : {"poll", "counts"}]
    BY <2>1 DEF Goto, GotoWait, Phases, Waits
  <2>3. reqs' = Append(reqs, eveBuffer)
        /\ UNCHANGED <<cnt, wire, eveBuffer, eveResult, fired, copied, total, posted,
                       got, reported, after, foreign, late>>
    BY <1>1 DEF Queue, Requeue
  <2>4. reqs' \in Seq(Nat)
    BY <2>3, <1>0 DEF TypeOK
  <2> QED
    BY <2>1, <2>2, <2>3, <2>4, <1>0, OtherLemma DEF TypeOK
<1>2. CASE WaitSeesFired
  <2>1. PICK w \in Waits : Polls(w) /\ pc' = [at |-> w, in |-> "counts"]
    BY <1>2 DEF WaitSeesFired
  <2>2. pc.in = "poll" /\ pc' \in [at : Waits, in : {"poll", "counts"}]
    BY <2>1 DEF Polls
  <2> QED
    BY <2>2, <1>2, <1>0, OtherLemma DEF TypeOK, WaitSeesFired
<1>3. CASE WaitTimesOut
  <2>1. PICK w \in Waits : Polls(w) /\ Goto(AfterWait(w))
    BY <1>3 DEF WaitTimesOut
  <2>2. pc.in = "poll" /\ pc' \in [at : Phases, in : {"-"}]
    BY <2>1, PlaceLemma DEF Polls, Goto
  <2>3. /\ got' = Append(got, 0) /\ late' = (late \/ Due)
        /\ UNCHANGED <<cnt, reqs, wire, eveBuffer, eveResult, fired, copied, total,
                       posted, reported, after, foreign>>
    BY <1>3 DEF WaitTimesOut
  <2>4. got' \in Seq(Nat)
    BY <2>3, <1>0 DEF TypeOK
  <2>5. late' \in BOOLEAN
    BY <2>3
  <2> QED
    BY <2>2, <2>3, <2>4, <2>5, <1>0, OtherLemma DEF TypeOK
<1>4. CASE EventCounts
  BY <1>4, CountsLemma
<1>5. CASE WaitReturns
  BY <1>5, ReturnsLemma
<1>6. CASE Post1 \/ Post3 \/ RollbackPosts \/ Shutdown \/ ApiFails
  <2>1. pc.in = "-"
    <3>1. CASE ApiFails
      BY <3>1, <1>0 DEF ApiFails, TypeOK, Phases, Waits
    <3>2. CASE ~ApiFails
      BY <3>2, <1>6 DEF Post1, Post3, Post, RollbackPosts, Shutdown, At
    <3> QED
      BY <3>1, <3>2
  <2>2. \/ \E p \in Phases : Goto(p)
        \/ \E w \in Waits : GotoWait(w)
    BY <1>6 DEF Post1, Post3, Post, RollbackPosts, Shutdown, ApiFails, Phases, Waits
  <2>3. pc' \in [at : Phases, in : {"-"}] \/ pc' \in [at : Waits, in : {"poll", "counts"}]
    BY <2>2 DEF Goto, GotoWait
  <2>4. posted' \in 0..3
    <3>1. posted' \in {0, 1, 3} \/ posted' = posted
      BY <1>6 DEF Post1, Post3, Post, RollbackPosts, Shutdown, ApiFails
    <3> QED
      BY <3>1, <1>0 DEF TypeOK
  <2>6. reqs' \in Seq(Nat)
    <3>1. reqs' = <<>> \/ reqs' = reqs
      BY <1>6 DEF Post1, Post3, Post, RollbackPosts, Shutdown, ApiFails, server
    <3>2. <<>> \in Seq(Nat) /\ reqs \in Seq(Nat)
      BY <1>0 DEF TypeOK
    <3> QED
      BY <3>1, <3>2
  <2>5. UNCHANGED <<cnt, wire, eveBuffer, eveResult, fired, copied, total, got,
                    reported, after, foreign, late>>
    BY <1>6 DEF Post1, Post3, Post, RollbackPosts, Shutdown, ApiFails, server, history
  <2> QED
    BY <2>1, <2>3, <2>4, <2>5, <2>6, <1>0, OtherLemma DEF TypeOK
<1>7. CASE CommitPosts
  BY <1>7, CommitLemma
<1>8. CASE CallbackCopies
  BY <1>8, CopiesLemma
<1>9. CASE CallbackCounts
  <2>1. /\ copied' = FALSE /\ fired' = fired + 1
        /\ UNCHANGED <<cnt, reqs, wire, eveBuffer, eveResult, total, posted, pc, got,
                       reported, after, foreign, late>>
    BY <1>9 DEF CallbackCounts, server, history
  <2>2. fired' \in Nat
    BY <2>1, <1>0 DEF TypeOK
  <2>3. copied' \in BOOLEAN
    BY <2>1
  <2>4. TypeOK'
    BY <2>1, <2>2, <2>3, <1>0 DEF TypeOK
  <2>5. Ordered'
    BY <2>1 DEF Inv, Ordered
  <2>6. CountedOnce'
    BY <2>1 DEF Inv, CountedOnce
  <2> QED
    BY <2>4, <2>5, <2>6 DEF Inv
<1>10. CASE ServerFires
  BY <1>10, ServerFiresLemma
<1>11. CASE ForeignCommit
  BY <1>11, ForeignLemma
<1>12. CASE UNCHANGED vars
  BY <1>12 DEF vars, Inv, TypeOK, Ordered, CountedOnce
<1> QED
  BY <1>1, <1>2, <1>3, <1>4, <1>5, <1>6, <1>7, <1>8, <1>9, <1>10, <1>11, <1>12
     DEF Next, Main, EventThread, Terminating

(* Whatever counter the event starts from, whatever other clients post and
   however late deliveries come, the counts the demo's waits return add up to
   posts that were committed, each counted once. *)
THEOREM CountedOnceTheorem == Spec => []CountedOnce
<1>1. Inv => CountedOnce
  BY DEF Inv
<1> QED
  BY <1>1, InitLemma, NextLemma, PTL DEF Spec
-----------------------------------------------------------------------------
(* The judgements of the demo.  How many waits have returned, what they add  *)
(* up to, and where the poster's transaction is, by place.                   *)

Turn(p) == CASE p \in {"queue", "baseline"}                          -> 0
             [] p \in {"requeue", "post1", "rollback", "rolledBack"} -> 1
             [] p \in {"post3", "uncommitted"}                       -> 2
             [] p \in {"commit", "committed"}                        -> 3
             [] OTHER                                                -> 4

(* One wait after the other has returned, and their counts add up. *)
SumInv ==
  /\ pc.at # "failed" => Len(got) = Turn(pc.at)
  /\ Len(got) = 0 => reported = 0
  /\ Len(got) = 1 => reported = got[1]
  /\ Len(got) = 2 => reported = got[1] + got[2]
  /\ Len(got) = 3 => reported = got[1] + got[2] + got[3]
  /\ Len(got) = 4 => reported = got[1] + got[2] + got[3] + got[4]

Committed == {"committed", "shutdown", "exited"}

(* The poster's three posts are open until its commit, and only then is the
   counter after it known. *)
PosterInv ==
  /\ pc.at \in {"uncommitted", "commit"} => posted = 3
  /\ pc.at \notin Committed \cup {"failed"} => after = 0
  /\ pc.at \in Committed => after # 0
  /\ after <= cnt
  /\ after # 0 /\ pc.at # "failed" => Len(got) >= 3 /\ got[1] + 2 <= after

(* Until then only others have posted since a count was taken. *)
NearInv ==
  after = 0 =>
    /\ \A i \in DOMAIN wire : cnt + 1 <= wire[i] + foreign
    /\ eveResult # 0 => cnt + 1 <= eveResult + foreign
    /\ eveBuffer # 0 => cnt + 1 <= eveBuffer + foreign
    /\ got # <<>> /\ got[1] # 0 => cnt + 1 <= got[1] + foreign

(* A count taken before the commit is not far from the baseline, one taken
   after it covers the commit. *)
Side(v) == v >= after + 1 \/ v <= got[1] + foreign

SidesInv ==
  pc.at \in Committed /\ got[1] # 0 =>
    /\ \A i \in DOMAIN wire : Side(wire[i])
    /\ Side(eveResult) /\ Side(eveBuffer)

GenuineInv == SumInv /\ PosterInv /\ NearInv /\ SidesInv

(* Deliveries on their way, or made and not yet taken notice of. *)
Pending == Len(reqs) + Len(wire) + (IF copied THEN 1 ELSE 0) + fired

OneShotInv ==
  /\ pc.at \in {"queue", "baseline", "requeue"} => \A i \in DOMAIN reqs : reqs[i] = 0
  /\ pc.at = "queue" => eveBuffer = 0
  /\ ~late => /\ Pending <= 1
              /\ pc.at \in {"queue", "requeue"} => Pending = 0
              /\ pc.in \in {"counts", "clear"} => fired >= 1

(* Undisturbed: every delivery came in time and nobody else posted. *)
Alone == ~late /\ foreign = 0

Carry(v) == /\ \A i \in DOMAIN wire : wire[i] = v
            /\ copied \/ fired # 0 => eveResult = v

(* Between requeue and commit the new interest has nothing to report. *)
Idle ==
  /\ Len(reqs) = 1 /\ reqs[1] = cnt + 1 /\ wire = <<>> /\ ~copied /\ fired = 0
  /\ eveBuffer = cnt + 1

InBaseline ==
  /\ pc.at = "baseline" => Pending = 1 /\ Carry(cnt + 1)
  /\ pc.at = "baseline" /\ pc.in = "clear" => eveBuffer = cnt + 1
  /\ pc.at = "requeue" => eveBuffer = cnt + 1

Open == {"post1", "rollback", "rolledBack", "post3", "uncommitted", "commit"}

BeforeCommit == pc.at \in Open => Idle /\ pc.in \notin {"counts", "clear"}

AfterCommit ==
  pc.at = "committed" =>
    /\ Pending = 1 /\ Carry(cnt + 1) /\ \A i \in DOMAIN reqs : reqs[i] <= cnt
    /\ pc.in # "clear" => eveBuffer + 3 = cnt + 1
    /\ pc.in = "clear" => total = 3

AsExpected ==
  /\ Len(got) >= 2 => got[2] = 0
  /\ Len(got) >= 3 => got[3] = 0
  /\ Len(got) >= 4 => got[4] = 3

TimelyInv == Alone => InBaseline /\ BeforeCommit /\ AfterCommit /\ AsExpected

IInv == Inv /\ GenuineInv /\ OneShotInv /\ TimelyInv

LEMMA NaturalLemma ==
  ASSUME Inv
  PROVE  /\ cnt \in Nat /\ eveBuffer \in Nat /\ eveResult \in Nat /\ total \in Nat
         /\ fired \in Nat /\ posted \in Nat /\ foreign \in Nat /\ reported \in Nat
         /\ after \in Nat /\ Len(reqs) \in Nat /\ Len(wire) \in Nat /\ Len(got) \in Nat
         /\ DOMAIN reqs = 1..Len(reqs) /\ DOMAIN wire = 1..Len(wire)
         /\ DOMAIN got = 1..Len(got)
         /\ \A i \in DOMAIN reqs : reqs[i] \in Nat
         /\ \A i \in DOMAIN wire : wire[i] \in Nat
         /\ \A i \in DOMAIN got : got[i] \in Nat
         /\ got = <<>> <=> Len(got) = 0
         /\ wire = <<>> <=> Len(wire) = 0
<1>1. TypeOK
  BY DEF Inv
<1>2. foreign \in Nat /\ posted \in Nat
  BY <1>1, EventAssumption DEF TypeOK
<1> QED
  BY <1>1, <1>2 DEF TypeOK

(* A place is in one of its sets. *)
LEMMA WhereLemma ==
  ASSUME Inv
  PROVE  \/ pc.at \in Phases /\ pc.in = "-"
         \/ pc.at \in Waits /\ pc.in \in {"poll", "counts", "clear"}
  BY DEF Inv, TypeOK

LEMMA TurnLemma ==
  /\ Turn("queue") = 0 /\ Turn("baseline") = 0
  /\ Turn("requeue") = 1 /\ Turn("post1") = 1 /\ Turn("rollback") = 1
  /\ Turn("rolledBack") = 1 /\ Turn("post3") = 2 /\ Turn("uncommitted") = 2
  /\ Turn("commit") = 3 /\ Turn("committed") = 3
  /\ Turn("shutdown") = 4 /\ Turn("exited") = 4
  BY DEF Turn

LEMMA AppendLemma ==
  ASSUME NEW s \in Seq(Nat), NEW x \in Nat, NEW t, t = Append(s, x)
  PROVE  /\ t \in Seq(Nat) /\ Len(t) = Len(s) + 1 /\ DOMAIN t = 1..(Len(s) + 1)
         /\ \A k \in DOMAIN s : k \in DOMAIN t /\ t[k] = s[k]
         /\ t[Len(s) + 1] = x
         /\ \A k \in DOMAIN t : t[k] = x \/ (k \in DOMAIN s /\ t[k] = s[k])
  OBVIOUS

LEMMA IInitLemma == Init => IInv
<1> SUFFICES ASSUME Init PROVE IInv
  OBVIOUS
<1>1. Inv
  BY InitLemma
<1>2. pc.at = "queue" /\ pc.in = "-" /\ Len(got) = 0 /\ Len(reqs) = 0 /\ Len(wire) = 0
  BY DEF Init
<1>3. SumInv /\ PosterInv /\ NearInv /\ SidesInv
  BY <1>1, <1>2, TurnLemma, NaturalLemma
     DEF Init, SumInv, PosterInv, NearInv, SidesInv, Committed
<1>4. OneShotInv
  BY <1>1, <1>2 DEF Init, OneShotInv, Pending
<1>5. TimelyInv
  BY <1>1, <1>2
     DEF Init, TimelyInv, InBaseline, BeforeCommit, AfterCommit, AsExpected, Open
<1> QED
  BY <1>1, <1>3, <1>4, <1>5 DEF IInv, GenuineInv

(* What is said of the main thread alone is not disturbed by the others. *)
LEMMA SumStays ==
  ASSUME SumInv, UNCHANGED <<pc, got, reported>> PROVE SumInv'
  BY DEF SumInv

LEMMA FiresLemma ==
  ASSUME IInv, Inv', ServerFires PROVE IInv'
<1>1. PICK i \in DOMAIN reqs :
        /\ cnt >= reqs[i]
        /\ reqs' = [j \in 1..(Len(reqs) - 1) |-> IF j < i THEN reqs[j] ELSE reqs[j+1]]
  BY DEF ServerFires
<1>2. /\ wire' = Append(wire, cnt + 1)
      /\ UNCHANGED <<cnt, eveBuffer, eveResult, fired, total, posted, pc, got, reported,
                     after, foreign>>
  BY DEF ServerFires, history
<1>3. (copied' <=> copied) /\ (late' <=> late)
  BY Zenon DEF ServerFires
<1>4. Inv /\ wire \in Seq(Nat)
  BY DEF IInv, Inv, TypeOK
<1>5. /\ Len(wire') = Len(wire) + 1 /\ cnt + 1 \in Nat
      /\ \A k \in DOMAIN wire' : wire'[k] = cnt + 1 \/ (k \in DOMAIN wire /\ wire'[k] = wire[k])
  <2>1. cnt + 1 \in Nat
    BY <1>4, NaturalLemma
  <2> QED
    BY <2>1, <1>2, <1>4, AppendLemma
<1>6. /\ Len(reqs') = Len(reqs) - 1
      /\ \A k \in DOMAIN reqs' : \E j \in DOMAIN reqs : reqs'[k] = reqs[j]
  <2>1. Len(reqs) \in Nat /\ DOMAIN reqs = 1..Len(reqs) /\ i \in 1..Len(reqs)
    BY <1>1, <1>4, NaturalLemma
  <2>2. DOMAIN reqs' = 1..(Len(reqs) - 1) /\ Len(reqs) - 1 \in Nat
    BY <1>1, <2>1
  <2>3. reqs' \in Seq(Nat)
    BY DEF Inv, TypeOK
  <2>4. Len(reqs') = Len(reqs) - 1
    BY <2>2, <2>3
  <2>5. ASSUME NEW k \in DOMAIN reqs' PROVE \E j \in DOMAIN reqs : reqs'[k] = reqs[j]
    <3>1. k \in DOMAIN reqs /\ k + 1 \in DOMAIN reqs
      BY <2>1, <2>2
    <3>2. reqs'[k] = reqs[k] \/ reqs'[k] = reqs[k + 1]
      BY <1>1, <2>2
    <3> QED
      BY <3>1, <3>2
  <2> QED
    BY <2>4, <2>5
<1>7. Pending' = Pending
  BY <1>2, <1>3, <1>4, <1>5, <1>6, NaturalLemma DEF Pending
<1>8. SumInv'
  BY <1>2, SumStays DEF IInv, GenuineInv
<1>9. PosterInv'
  BY <1>2 DEF IInv, GenuineInv, PosterInv
<1>10. NearInv'
  BY <1>2, <1>4, <1>5, NaturalLemma, SMTT(30) DEF IInv, GenuineInv, NearInv
<1>11. SidesInv'
  <2>1. Side(cnt + 1)
    BY <1>4, NaturalLemma DEF IInv, GenuineInv, PosterInv, Side
  <2>2. \A v : Side(v)' <=> Side(v)
    BY <1>2 DEF Side
  <2> QED
    BY <1>2, <1>5, <2>1, <2>2 DEF IInv, GenuineInv, SidesInv
<1>12. OneShotInv'
  BY <1>2, <1>3, <1>6, <1>7 DEF IInv, OneShotInv
<1>13. pc.at \in Open /\ Alone => FALSE
  BY <1>1, <1>4, NaturalLemma DEF IInv, TimelyInv, BeforeCommit, Idle
<1>14. Carry(cnt + 1) => Carry(cnt + 1)'
  BY <1>2, <1>3, <1>5 DEF Carry
<1>15. (Alone' <=> Alone) /\ (InBaseline => InBaseline') /\ (AsExpected => AsExpected')
  BY <1>2, <1>3, <1>7, <1>14 DEF Alone, InBaseline, AsExpected
<1>16. AfterCommit => AfterCommit'
  BY <1>2, <1>6, <1>7, <1>14 DEF AfterCommit
<1>17. TimelyInv'
  BY <1>2, <1>13, <1>15, <1>16 DEF IInv, TimelyInv, BeforeCommit
<1> QED
  BY <1>8, <1>9, <1>10, <1>11, <1>12, <1>17 DEF IInv, GenuineInv

LEMMA PostsLemma ==
  ASSUME IInv, Inv', ForeignCommit PROVE IInv'
<1>1. /\ cnt' = cnt + 1 /\ foreign' = foreign + 1
      /\ UNCHANGED <<reqs, wire, eveBuffer, eveResult, fired, total, posted,
                     pc, got, reported, after>>
  BY DEF ForeignCommit, history
<1>2. (copied' <=> copied) /\ (late' <=> late)
  BY Zenon DEF ForeignCommit
<1>3. Inv
  BY DEF IInv
<1>4. Pending' = Pending
  BY <1>1, <1>2 DEF Pending
<1>5. SumInv'
  BY <1>1, SumStays DEF IInv, GenuineInv
<1>6. PosterInv'
  BY <1>1, <1>3, NaturalLemma, SMTT(30) DEF IInv, GenuineInv, PosterInv
<1>7. NearInv'
  <2>1. \A v \in Nat : cnt + 1 <= v + foreign => (cnt + 1) + 1 <= v + (foreign + 1)
    BY <1>3, NaturalLemma, SMTT(30)
  <2>2. got # <<>> => 1 \in DOMAIN got
    BY <1>3, NaturalLemma
  <2> QED
    BY <1>1, <1>3, <2>1, <2>2, NaturalLemma DEF IInv, GenuineInv, NearInv
<1>8. SidesInv'
  <2>1. pc.at \in Committed => got[1] \in Nat
    BY <1>3, NaturalLemma, SMTT(30) DEF IInv, GenuineInv, PosterInv, Committed
  <2>2. \A v \in Nat : got[1] \in Nat /\ v <= got[1] + foreign => v <= got[1] + (foreign + 1)
    BY <1>3, NaturalLemma, SMTT(30)
  <2>3. \A v \in Nat : pc.at \in Committed /\ Side(v) => Side(v)'
    BY <1>1, <2>1, <2>2 DEF Side
  <2> QED
    BY <1>1, <1>3, <2>3, NaturalLemma DEF IInv, GenuineInv, SidesInv
<1>9. OneShotInv'
  BY <1>1, <1>2, <1>4 DEF IInv, OneShotInv
<1>10. TimelyInv'
  BY <1>1, <1>3, NaturalLemma DEF TimelyInv, Alone
<1> QED
  BY <1>5, <1>6, <1>7, <1>8, <1>9, <1>10 DEF IInv, GenuineInv

LEMMA CopyLemma ==
  ASSUME IInv, Inv', CallbackCopies PROVE IInv'
<1>1. /\ wire # <<>> /\ eveResult' = Head(wire) /\ wire' = Tail(wire)
      /\ UNCHANGED <<cnt, reqs, eveBuffer, fired, total, posted, pc, got, reported, after,
                     foreign>>
  BY DEF CallbackCopies, history
<1>2. ~copied /\ copied' /\ (late' <=> late)
  BY Zenon DEF CallbackCopies
<1>3. Inv /\ wire \in Seq(Nat)
  BY DEF IInv, Inv, TypeOK
<1>4. /\ 1 \in DOMAIN wire /\ eveResult' = wire[1] /\ Len(wire') = Len(wire) - 1
      /\ \A k \in DOMAIN wire' : k + 1 \in DOMAIN wire /\ wire'[k] = wire[k + 1]
  BY <1>1, <1>3, HeadTailProperties
<1>5. Pending' = Pending
  BY <1>1, <1>2, <1>3, <1>4, NaturalLemma DEF Pending
<1>6. SumInv'
  BY <1>1, SumStays DEF IInv, GenuineInv
<1>7. PosterInv'
  BY <1>1 DEF IInv, GenuineInv, PosterInv
<1>8. NearInv'
  BY <1>1, <1>4 DEF IInv, GenuineInv, NearInv
<1>9. SidesInv'
  <2>1. \A v : Side(v)' <=> Side(v)
    BY <1>1 DEF Side
  <2> QED
    BY <1>1, <1>4, <2>1 DEF IInv, GenuineInv, SidesInv
<1>10. OneShotInv'
  BY <1>1, <1>2, <1>5 DEF IInv, OneShotInv
<1>11. pc.at \in Open /\ Alone => FALSE
  BY <1>1 DEF IInv, TimelyInv, BeforeCommit, Idle
<1>12. Carry(cnt + 1) => Carry(cnt + 1)'
  BY <1>1, <1>4 DEF Carry
<1>13. (Alone' <=> Alone) /\ (InBaseline => InBaseline') /\ (AsExpected => AsExpected')
  BY <1>1, <1>2, <1>5, <1>12 DEF Alone, InBaseline, AsExpected
<1>14. AfterCommit => AfterCommit'
  BY <1>1, <1>5, <1>12 DEF AfterCommit
<1>15. TimelyInv'
  BY <1>1, <1>11, <1>13, <1>14 DEF IInv, TimelyInv, BeforeCommit
<1> QED
  BY <1>6, <1>7, <1>8, <1>9, <1>10, <1>15 DEF IInv, GenuineInv

LEMMA CallbackLemma ==
  ASSUME IInv, Inv', CallbackCounts PROVE IInv'
<1>1. /\ fired' = fired + 1
      /\ UNCHANGED <<cnt, reqs, wire, eveBuffer, eveResult, total, posted, pc, got,
                     reported, after, foreign>>
  BY DEF CallbackCounts, history, server
<1>2. copied /\ ~copied' /\ (late' <=> late)
  BY Zenon DEF CallbackCounts
<1>3. Inv
  BY DEF IInv
<1>4. Pending' = Pending
  BY <1>1, <1>2, <1>3, NaturalLemma DEF Pending
<1>5. SumInv'
  BY <1>1, SumStays DEF IInv, GenuineInv
<1>6. PosterInv' /\ NearInv' /\ SidesInv'
  BY <1>1 DEF IInv, GenuineInv, PosterInv, NearInv, SidesInv, Side
<1>7. OneShotInv'
  BY <1>1, <1>2, <1>3, <1>4, NaturalLemma DEF IInv, OneShotInv
<1>8. pc.at \in Open /\ Alone => FALSE
  BY <1>2 DEF IInv, TimelyInv, BeforeCommit, Idle
<1>9. Carry(cnt + 1) => Carry(cnt + 1)'
  BY <1>1, <1>2 DEF Carry
<1>10. (Alone' <=> Alone) /\ (InBaseline => InBaseline') /\ (AsExpected => AsExpected')
  BY <1>1, <1>2, <1>4, <1>9 DEF Alone, InBaseline, AsExpected
<1>11. AfterCommit => AfterCommit'
  BY <1>1, <1>4, <1>9 DEF AfterCommit
<1>12. TimelyInv'
  BY <1>1, <1>8, <1>10, <1>11 DEF IInv, TimelyInv, BeforeCommit
<1> QED
  BY <1>5, <1>6, <1>7, <1>12 DEF IInv, GenuineInv

LEMMA SeesLemma ==
  ASSUME IInv, Inv', WaitSeesFired PROVE IInv'
<1>1. PICK w \in Waits :
        /\ pc = [at |-> w, in |-> "poll"] /\ fired # 0 /\ pc' = [at |-> w, in |-> "counts"]
        /\ UNCHANGED <<cnt, reqs, wire, eveBuffer, eveResult, fired, total, posted, got,
                       reported, after, foreign>>
  BY DEF WaitSeesFired, Polls, history, server
<1>2. (copied' <=> copied) /\ (late' <=> late)
  <2>1. copied' = copied /\ late' = late
    BY DEF WaitSeesFired
  <2> QED
    BY <2>1, Zenon
<1>3. /\ pc.at = w /\ pc'.at = w /\ pc.in = "poll" /\ pc'.in = "counts"
      /\ w \notin {"queue", "requeue"}
  BY <1>1 DEF Waits
<1>4. Inv
  BY DEF IInv
<1>5. Pending' = Pending
  BY <1>1, <1>2 DEF Pending
<1>6. SumInv'
  BY <1>1, <1>3 DEF IInv, GenuineInv, SumInv
<1>7. PosterInv' /\ NearInv' /\ SidesInv'
  BY <1>1, <1>3 DEF IInv, GenuineInv, PosterInv, NearInv, SidesInv, Side
<1>8. OneShotInv'
  BY <1>1, <1>2, <1>3, <1>4, <1>5, NaturalLemma DEF IInv, OneShotInv
<1>9. w \in Open /\ Alone => FALSE
  BY <1>1, <1>3 DEF IInv, TimelyInv, BeforeCommit, Idle
<1>10. Carry(cnt + 1) => Carry(cnt + 1)'
  BY <1>1, <1>2 DEF Carry
<1>11. (Alone' <=> Alone) /\ (InBaseline => InBaseline') /\ (AsExpected => AsExpected')
  BY <1>1, <1>2, <1>3, <1>5, <1>10 DEF Alone, InBaseline, AsExpected
<1>12. AfterCommit => AfterCommit'
  BY <1>1, <1>3, <1>5, <1>10 DEF AfterCommit
<1>13. TimelyInv'
  BY <1>1, <1>3, <1>9, <1>11, <1>12 DEF IInv, TimelyInv, BeforeCommit
<1> QED
  BY <1>6, <1>7, <1>8, <1>13 DEF IInv, GenuineInv

(* A wait that returns appends to got, whatever it returns. *)
LEMMA ReturnedLemma ==
  ASSUME IInv, Inv', NEW w \in Waits, NEW n \in Nat,
         pc.at = w, pc'.at = AfterWait(w), got' = Append(got, n),
         reported' = reported + n, UNCHANGED <<cnt, posted, after>>
  PROVE  /\ SumInv' /\ PosterInv'
         /\ Len(got') = Len(got) + 1 /\ got'[Len(got) + 1] = n
         /\ \A k \in DOMAIN got : got'[k] = got[k]
         /\ Len(got) = Turn(w)
<1>1. Inv /\ SumInv /\ PosterInv /\ got \in Seq(Nat)
  BY DEF IInv, GenuineInv, Inv, TypeOK
<1>2. /\ Len(got') = Len(got) + 1 /\ got'[Len(got) + 1] = n
      /\ \A k \in DOMAIN got : got'[k] = got[k]
  BY <1>1, AppendLemma
<1>3. Len(got) = Turn(w) /\ w # "failed"
  BY <1>1 DEF SumInv, Waits
<1>4. /\ Turn(AfterWait(w)) = Turn(w) + 1
      /\ Turn(w) \in 0..3 /\ AfterWait(w) # "failed"
  BY TurnLemma DEF Waits, AfterWait
<1>5. /\ DOMAIN got = 1..Len(got) /\ reported \in Nat
      /\ \A k \in DOMAIN got : got[k] \in Nat
  BY <1>1, NaturalLemma
<1>6. SumInv'
  <2>1. CASE Len(got) = 0
    BY <2>1, <1>1, <1>2, <1>3, <1>4, <1>5 DEF SumInv
  <2>2. CASE Len(got) = 1
    <3>1. got'[1] = got[1] /\ got'[2] = n /\ reported = got[1] /\ Len(got') = 2
      BY <2>2, <1>1, <1>2, <1>5 DEF SumInv
    <3> QED
      BY <2>2, <3>1, <1>3, <1>4 DEF SumInv
  <2>3. CASE Len(got) = 2
    <3>1. got'[1] = got[1] /\ got'[2] = got[2] /\ got'[3] = n
          /\ reported = got[1] + got[2] /\ Len(got') = 3
      BY <2>3, <1>1, <1>2, <1>5, SMTT(30) DEF SumInv
    <3> QED
      BY <2>3, <3>1, <1>3, <1>4 DEF SumInv
  <2>4. CASE Len(got) = 3
    <3>1. got'[1] = got[1] /\ got'[2] = got[2] /\ got'[3] = got[3] /\ got'[4] = n
          /\ reported = got[1] + got[2] + got[3] /\ Len(got') = 4
      <4>1. 1 \in DOMAIN got /\ 2 \in DOMAIN got /\ 3 \in DOMAIN got
        BY <2>4, <1>5
      <4>2. reported = got[1] + got[2] + got[3]
        BY <2>4, <1>1, Zenon DEF SumInv
      <4>3. Len(got') = 4 /\ got'[4] = n
        BY <2>4, <1>2
      <4> QED
        BY <4>1, <4>2, <4>3, <1>2
    <3> QED
      BY <2>4, <3>1, <1>3, <1>4 DEF SumInv
  <2> QED
    BY <2>1, <2>2, <2>3, <2>4, <1>3, <1>4
<1>7. PosterInv'
  <2>1. /\ AfterWait(w) \in Committed <=> w \in Committed
        /\ AfterWait(w) \in {"uncommitted", "commit"} => w = "uncommitted"
    BY DEF Waits, AfterWait, Committed
  <2>2. Len(got) >= 3 => got'[1] = got[1] /\ Len(got') >= 3
    BY <1>2, <1>5
  <2> QED
    BY <1>1, <1>3, <1>4, <2>1, <2>2 DEF PosterInv
<1> QED
  BY <1>2, <1>3, <1>6, <1>7

LEMMA TimesOutLemma ==
  ASSUME IInv, Inv', WaitTimesOut PROVE IInv'
<1>1. PICK w \in Waits :
        /\ pc = [at |-> w, in |-> "poll"] /\ fired = 0
        /\ pc' = [at |-> AfterWait(w), in |-> "-"] /\ got' = Append(got, 0)
        /\ UNCHANGED <<cnt, reqs, wire, eveBuffer, eveResult, fired, total, posted,
                       reported, after, foreign>>
  BY DEF WaitTimesOut, Polls, Goto, server
<1>2. (copied' <=> copied) /\ (~late' <=> ~late /\ ~Due)
  <2>1. copied' = copied /\ late' = (late \/ Due)
    BY DEF WaitTimesOut
  <2> QED
    BY <2>1, Zenon
<1>3. /\ pc.at = w /\ pc'.at = AfterWait(w) /\ pc.in = "poll" /\ pc'.in = "-"
  BY <1>1
<1>4. Inv /\ OneShotInv /\ NearInv /\ SidesInv /\ PosterInv
  BY DEF IInv, GenuineInv
<1>5. reported' = reported + 0
  BY <1>1, <1>4, NaturalLemma
<1>6. /\ SumInv' /\ PosterInv'
      /\ Len(got') = Len(got) + 1 /\ got'[Len(got) + 1] = 0
      /\ \A k \in DOMAIN got : got'[k] = got[k]
      /\ Len(got) = Turn(w)
  BY <1>1, <1>3, <1>5, ReturnedLemma
<1>7. NearInv'
  <2>1. got'[1] # 0 => got # <<>> /\ got'[1] = got[1]
    <3>1. CASE got = <<>>
      BY <3>1, <1>6
    <3>2. CASE got # <<>>
      <4>1. 1 \in DOMAIN got
        BY <3>2, <1>4, NaturalLemma
      <4> QED
        BY <3>2, <4>1, <1>6
    <3> QED
      BY <3>1, <3>2
  <2> QED
    BY <1>1, <1>4, <2>1 DEF NearInv
<1>8. SidesInv'
  <2>1. AfterWait(w) \in Committed => w \in Committed
    BY DEF AfterWait, Waits, Committed
  <2>2. w \in Committed => got'[1] = got[1]
    BY <1>3, <1>4, <1>6, NaturalLemma, SMTT(30) DEF PosterInv, Committed
  <2> QED
    BY <1>1, <1>3, <1>4, <2>1, <2>2 DEF SidesInv, Side
<1>9. Pending' = Pending
  BY <1>1, <1>2 DEF Pending
<1>10. ~Due => wire = <<>> /\ ~copied /\ \A i \in DOMAIN reqs : ~(cnt >= reqs[i])
  BY Zenon DEF Due
<1>11. w = "baseline" /\ ~late' => Pending = 0
  <2> SUFFICES ASSUME w = "baseline", ~late' PROVE Pending = 0
    OBVIOUS
  <2>1. ~copied /\ Len(wire) = 0 /\ \A i \in DOMAIN reqs : ~(cnt >= reqs[i])
    BY <1>2, <1>4, <1>10, NaturalLemma
  <2>2. \A i \in DOMAIN reqs : reqs[i] = 0
    BY <1>3, <1>4 DEF OneShotInv
  <2>3. Len(reqs) = 0
    <3>1. 1 \notin DOMAIN reqs
      BY <2>1, <2>2, <1>4, NaturalLemma
    <3>2. Len(reqs) \in Nat /\ (1 \in 1..Len(reqs) \/ Len(reqs) = 0)
      BY <1>4, NaturalLemma
    <3> QED
      BY <3>1, <3>2, <1>4, NaturalLemma
  <2> QED
    BY <1>1, <2>1, <2>3 DEF Pending
<1>12. OneShotInv'
  <2>1. AfterWait(w) \in {"queue", "baseline", "requeue"}
          => AfterWait(w) = "requeue" /\ w = "baseline"
    BY DEF AfterWait, Waits
  <2> QED
    BY <1>1, <1>2, <1>3, <1>4, <1>9, <1>11, <2>1 DEF OneShotInv
<1>13. Alone' => Alone /\ TimelyInv /\ ~Due
  BY <1>1, <1>2 DEF IInv, Alone
<1>14. Alone' => w \in {"rolledBack", "uncommitted"}
  <2> SUFFICES ASSUME Alone' PROVE w \notin {"baseline", "committed"}
    BY DEF Waits
  <2>1. w = "committed" => Pending = 1 /\ \A i \in DOMAIN reqs : reqs[i] <= cnt
    BY <1>3, <1>13 DEF TimelyInv, AfterCommit
  <2>2. w = "committed" => Len(reqs) = 1
    BY <2>1, <1>1, <1>4, <1>10, <1>13, NaturalLemma DEF Pending
  <2>3. w # "committed"
    BY <2>1, <2>2, <1>4, <1>10, <1>13, NaturalLemma
  <2>4. w = "baseline" => Pending = 1
    BY <1>3, <1>13 DEF TimelyInv, InBaseline
  <2> QED
    BY <2>3, <2>4, <1>2, <1>11, <1>13 DEF Alone
<1>15. TimelyInv'
  <2> SUFFICES ASSUME Alone'
               PROVE  InBaseline' /\ BeforeCommit' /\ AfterCommit' /\ AsExpected'
    BY DEF TimelyInv
  <2>1. pc'.at \in {"post3", "commit"} /\ w \in Open
    BY <1>3, <1>14 DEF AfterWait, Open
  <2>2. Idle
    BY <1>3, <1>13, <2>1 DEF TimelyInv, BeforeCommit
  <2>3. Idle'
    BY <1>1, <1>2, <2>2 DEF Idle
  <2>4. AsExpected'
    <3>1. AsExpected
      BY <1>13 DEF TimelyInv
    <3>2. CASE w = "rolledBack"
      <4>1. Len(got) = 1
        BY <3>2, <1>6, TurnLemma
      <4> QED
        BY <4>1, <1>6 DEF AsExpected
    <3>3. CASE w = "uncommitted"
      <4>1. Len(got) = 2 /\ 2 \in DOMAIN got
        BY <3>3, <1>4, <1>6, TurnLemma, NaturalLemma
      <4> QED
        BY <3>1, <4>1, <1>6 DEF AsExpected
    <3> QED
      BY <3>2, <3>3, <1>14
  <2> QED
    BY <1>3, <2>1, <2>3, <2>4 DEF InBaseline, BeforeCommit, AfterCommit
<1> QED
  BY <1>6, <1>7, <1>8, <1>12, <1>15 DEF IInv, GenuineInv

LEMMA CountsStepLemma ==
  ASSUME IInv, Inv', EventCounts PROVE IInv'
<1>1. PICK w \in Waits :
        /\ pc = [at |-> w, in |-> "counts"] /\ pc' = [at |-> w, in |-> "clear"]
        /\ total' = IF eveResult > eveBuffer THEN eveResult - eveBuffer ELSE 0
        /\ eveBuffer' = eveResult
        /\ UNCHANGED <<cnt, reqs, wire, eveResult, fired, posted, got, reported, after,
                       foreign>>
  BY DEF EventCounts, history, server
<1>2. (copied' <=> copied) /\ (late' <=> late)
  <2>1. copied' = copied /\ late' = late
    BY DEF EventCounts
  <2> QED
    BY <2>1, Zenon
<1>3. /\ pc.at = w /\ pc'.at = w /\ pc.in = "counts" /\ pc'.in = "clear"
      /\ w \notin {"queue", "requeue"}
  BY <1>1 DEF Waits
<1>4. Inv /\ OneShotInv
  BY DEF IInv
<1>5. Pending' = Pending
  BY <1>1, <1>2 DEF Pending
<1>6. SumInv'
  BY <1>1, <1>3 DEF IInv, GenuineInv, SumInv
<1>7. PosterInv' /\ NearInv' /\ SidesInv'
  BY <1>1, <1>3 DEF IInv, GenuineInv, PosterInv, NearInv, SidesInv, Side
<1>8. OneShotInv'
  BY <1>1, <1>2, <1>3, <1>4, <1>5 DEF OneShotInv
<1>9. Alone => fired # 0
  BY <1>3, <1>4, NaturalLemma DEF OneShotInv, Alone
<1>10. Carry(cnt + 1) => Carry(cnt + 1)'
  BY <1>1, <1>2 DEF Carry
<1>11. Alone' <=> Alone
  BY <1>1, <1>2 DEF Alone
<1>12. TimelyInv'
  <2> SUFFICES ASSUME Alone, TimelyInv
               PROVE  InBaseline' /\ BeforeCommit' /\ AfterCommit' /\ AsExpected'
    BY <1>11 DEF TimelyInv, IInv
  <2>1. InBaseline'
    BY <1>1, <1>3, <1>5, <1>9, <1>10 DEF TimelyInv, InBaseline, Carry
  <2>2. BeforeCommit'
    BY <1>3 DEF TimelyInv, BeforeCommit
  <2>3. AfterCommit'
    <3>1. w = "committed" => eveResult = cnt + 1 /\ eveBuffer + 3 = cnt + 1
      BY <1>3, <1>9 DEF TimelyInv, AfterCommit, Carry
    <3>2. w = "committed" => total' = 3
      BY <3>1, <1>1, <1>4, NaturalLemma, SMTT(30)
    <3> QED
      BY <1>1, <1>3, <1>5, <1>10, <3>2 DEF TimelyInv, AfterCommit
  <2>4. AsExpected'
    BY <1>1 DEF TimelyInv, AsExpected
  <2> QED
    BY <2>1, <2>2, <2>3, <2>4
<1> QED
  BY <1>6, <1>7, <1>8, <1>12 DEF IInv, GenuineInv

LEMMA ReturnsStepLemma ==
  ASSUME IInv, Inv', WaitReturns PROVE IInv'
<1>1. PICK w \in Waits :
        /\ pc = [at |-> w, in |-> "clear"] /\ pc' = [at |-> AfterWait(w), in |-> "-"]
        /\ fired' = 0 /\ got' = Append(got, total) /\ reported' = reported + total
        /\ UNCHANGED <<cnt, reqs, wire, eveBuffer, eveResult, total, posted, after, foreign>>
  BY DEF WaitReturns, Goto, server
<1>2. (copied' <=> copied) /\ (late' <=> late)
  <2>1. copied' = copied /\ late' = late
    BY DEF WaitReturns
  <2> QED
    BY <2>1, Zenon
<1>3. pc.at = w /\ pc'.at = AfterWait(w) /\ pc.in = "clear" /\ pc'.in = "-"
  BY <1>1
<1>4. Inv /\ OneShotInv /\ NearInv /\ SidesInv /\ PosterInv /\ SumInv
  BY DEF IInv, GenuineInv
<1>5. total \in Nat
  BY <1>4, NaturalLemma
<1>6. /\ SumInv' /\ PosterInv'
      /\ Len(got') = Len(got) + 1 /\ got'[Len(got) + 1] = total
      /\ \A k \in DOMAIN got : got'[k] = got[k]
      /\ Len(got) = Turn(w)
  BY <1>1, <1>3, <1>5, ReturnedLemma
<1>7. NearInv'
  <2>1. CASE got = <<>>
    <3>1. reported = 0 /\ got'[1] = total
      BY <2>1, <1>4, <1>6 DEF SumInv
    <3>2. total = eveBuffer
      BY <3>1, <1>3, <1>4, NaturalLemma DEF Inv, CountedOnce
    <3> QED
      BY <3>1, <3>2, <1>1, <1>4 DEF NearInv
  <2>2. CASE got # <<>>
    <3>1. 1 \in DOMAIN got
      BY <2>2, <1>4, NaturalLemma
    <3> QED
      BY <2>2, <3>1, <1>1, <1>4, <1>6 DEF NearInv
  <2> QED
    BY <2>1, <2>2
<1>8. SidesInv'
  <2>1. AfterWait(w) \in Committed => w \in Committed
    BY DEF AfterWait, Waits, Committed
  <2>2. w \in Committed => got'[1] = got[1]
    BY <1>3, <1>4, <1>6, NaturalLemma, SMTT(30) DEF PosterInv, Committed
  <2> QED
    BY <1>1, <1>3, <1>4, <2>1, <2>2 DEF SidesInv, Side
<1>9. ~late => Pending' = 0
  <2>1. ~late => fired >= 1 /\ Pending <= 1
    BY <1>3, <1>4 DEF OneShotInv
  <2>2. ~late => Len(reqs) = 0 /\ Len(wire) = 0 /\ ~copied
    BY <2>1, <1>4, NaturalLemma DEF Pending
  <2> QED
    BY <2>2, <1>1, <1>2 DEF Pending
<1>10. OneShotInv'
  <2>1. AfterWait(w) \in {"queue", "baseline", "requeue"}
          => AfterWait(w) = "requeue" /\ w = "baseline"
    BY DEF AfterWait, Waits
  <2> QED
    BY <1>1, <1>2, <1>3, <1>4, <1>9, <2>1 DEF OneShotInv
<1>11. Alone' <=> Alone
  BY <1>1, <1>2 DEF Alone
<1>12. TimelyInv'
  <2> SUFFICES ASSUME Alone, TimelyInv
               PROVE  InBaseline' /\ BeforeCommit' /\ AfterCommit' /\ AsExpected'
    BY <1>11 DEF TimelyInv, IInv
  <2>1. w \in {"baseline", "committed"}
    BY <1>3 DEF TimelyInv, BeforeCommit, Open, Waits
  <2>2. pc'.at = IF w = "baseline" THEN "requeue" ELSE "shutdown"
    BY <1>3, <2>1 DEF AfterWait
  <2>3. InBaseline' /\ BeforeCommit' /\ AfterCommit'
    BY <1>1, <1>3, <2>1, <2>2 DEF TimelyInv, InBaseline, BeforeCommit, AfterCommit, Open
  <2>4. AsExpected'
    <3>1. AsExpected
      BY DEF TimelyInv
    <3>2. CASE w = "baseline"
      <4>1. Len(got) = 0
        BY <3>2, <1>6, TurnLemma
      <4> QED
        BY <4>1, <1>6 DEF AsExpected
    <3>3. CASE w = "committed"
      <4>1. Len(got) = 3 /\ 2 \in DOMAIN got /\ 3 \in DOMAIN got
        BY <3>3, <1>4, <1>6, TurnLemma, NaturalLemma
      <4>2. total = 3
        BY <3>3, <1>3 DEF TimelyInv, AfterCommit
      <4> QED
        BY <3>1, <4>1, <4>2, <1>6 DEF AsExpected
    <3> QED
      BY <3>2, <3>3, <2>1
  <2> QED
    BY <2>3, <2>4
<1> QED
  BY <1>6, <1>7, <1>8, <1>10, <1>12 DEF IInv, GenuineInv

LEMMA QueueLemma ==
  ASSUME IInv, Inv', Queue \/ Requeue PROVE IInv'
<1>1. /\ \/ pc = [at |-> "queue", in |-> "-"] /\ pc' = [at |-> "baseline", in |-> "poll"]
         \/ pc = [at |-> "requeue", in |-> "-"] /\ pc' = [at |-> "post1", in |-> "-"]
      /\ reqs' = Append(reqs, eveBuffer)
      /\ UNCHANGED <<cnt, wire, eveBuffer, eveResult, fired, total, posted, got, reported,
                     after, foreign>>
  BY DEF Queue, Requeue, At, Goto, GotoWait, history
<1>2. (copied' <=> copied) /\ (late' <=> late)
  <2>1. copied' = copied /\ late' = late
    BY DEF Queue, Requeue
  <2> QED
    BY <2>1, Zenon
<1>3. /\ \/ pc.at = "queue" /\ pc'.at = "baseline" /\ pc'.in = "poll"
         \/ pc.at = "requeue" /\ pc'.at = "post1" /\ pc'.in = "-"
      /\ Turn(pc.at) = Turn(pc'.at)
  BY <1>1, TurnLemma
<1>4. Inv /\ OneShotInv /\ reqs \in Seq(Nat) /\ eveBuffer \in Nat
  BY DEF IInv, Inv, TypeOK
<1>5. /\ Len(reqs') = Len(reqs) + 1 /\ reqs'[Len(reqs) + 1] = eveBuffer
      /\ DOMAIN reqs' = 1..(Len(reqs) + 1)
      /\ \A k \in DOMAIN reqs' : reqs'[k] = eveBuffer \/ (k \in DOMAIN reqs /\ reqs'[k] = reqs[k])
  BY <1>1, <1>4, AppendLemma
<1>6. Pending' = Pending + 1 /\ Pending \in Nat
  <2> DEFINE c == IF copied THEN 1 ELSE 0
  <2>1. c' = c /\ c \in Nat
    BY <1>2
  <2>2. /\ Pending = Len(reqs) + Len(wire) + c + fired
        /\ Pending' = Len(reqs') + Len(wire') + c' + fired'
    BY DEF Pending
  <2>3. /\ Len(wire') = Len(wire) /\ fired' = fired
        /\ Len(reqs) \in Nat /\ Len(wire) \in Nat /\ fired \in Nat
    BY <1>1, <1>4, NaturalLemma
  <2> HIDE DEF c
  <2> QED
    BY <2>1, <2>2, <2>3, <1>5
<1>7. SumInv'
  BY <1>1, <1>3 DEF IInv, GenuineInv, SumInv
<1>8. PosterInv' /\ NearInv' /\ SidesInv'
  BY <1>1, <1>3 DEF IInv, GenuineInv, PosterInv, NearInv, SidesInv, Side, Committed
<1>9. ~late => /\ Pending = 0 /\ Len(reqs) = 0 /\ Len(wire) = 0 /\ fired = 0 /\ ~copied
               /\ wire = <<>>
  <2>1. ~late => Pending = 0
    BY <1>3, <1>4 DEF OneShotInv
  <2> QED
    BY <2>1, <1>4, NaturalLemma DEF Pending
<1>10. OneShotInv'
  <2>1. pc'.at = "baseline" => \A i \in DOMAIN reqs' : reqs'[i] = 0
    BY <1>3, <1>4, <1>5 DEF OneShotInv
  <2> QED
    BY <1>2, <1>3, <1>6, <1>9, <2>1 DEF OneShotInv
<1>11. TimelyInv'
  <2> SUFFICES ASSUME Alone, ~late, TimelyInv
               PROVE  InBaseline' /\ BeforeCommit' /\ AfterCommit' /\ AsExpected'
    BY <1>1, <1>2 DEF TimelyInv, IInv, Alone
  <2>1. Carry(cnt + 1)'
    BY <1>1, <1>2, <1>4, <1>9, NaturalLemma DEF Carry
  <2>2. InBaseline'
    BY <1>3, <1>6, <1>9, <2>1 DEF InBaseline
  <2>3. pc'.at = "post1" => Idle'
    <3>1. pc'.at = "post1" => eveBuffer = cnt + 1
      BY <1>3 DEF TimelyInv, InBaseline
    <3> QED
      BY <1>1, <1>2, <1>5, <1>9, <3>1 DEF Idle
  <2>4. BeforeCommit' /\ AfterCommit'
    BY <1>3, <2>3 DEF BeforeCommit, AfterCommit, Open
  <2>5. AsExpected'
    BY <1>1 DEF TimelyInv, AsExpected
  <2> QED
    BY <2>2, <2>4, <2>5
<1> QED
  BY <1>7, <1>8, <1>10, <1>11 DEF IInv, GenuineInv

(* The poster's own steps before its commit. *)
LEMMA PosterLemma ==
  ASSUME IInv, Inv', Post1 \/ Post3 \/ RollbackPosts PROVE IInv'
<1>1. /\ \/ /\ pc = [at |-> "post1", in |-> "-"] /\ pc' = [at |-> "rollback", in |-> "-"]
            /\ posted' = 1
         \/ /\ pc = [at |-> "rollback", in |-> "-"] /\ pc' = [at |-> "rolledBack", in |-> "poll"]
            /\ posted' = 0
         \/ /\ pc = [at |-> "post3", in |-> "-"] /\ pc' = [at |-> "uncommitted", in |-> "poll"]
            /\ posted' = 3
      /\ UNCHANGED <<cnt, reqs, wire, eveBuffer, eveResult, fired, total, got, reported,
                     after, foreign>>
  BY DEF Post1, Post3, Post, RollbackPosts, At, Goto, GotoWait, history, server
<1>2. (copied' <=> copied) /\ (late' <=> late)
  <2>1. copied' = copied /\ late' = late
    BY DEF Post1, Post3, Post, RollbackPosts
  <2> QED
    BY <2>1, Zenon
<1>3. /\ pc.at \in {"post1", "rollback", "post3"}
      /\ pc'.at \in {"rollback", "rolledBack", "uncommitted"}
      /\ pc'.in \in {"-", "poll"}
      /\ pc'.at = "uncommitted" => posted' = 3
      /\ Turn(pc.at) = Turn(pc'.at)
  BY <1>1, TurnLemma
<1>4. Pending' = Pending
  BY <1>1, <1>2 DEF Pending
<1>5. SumInv'
  BY <1>1, <1>3 DEF IInv, GenuineInv, SumInv
<1>6. PosterInv' /\ NearInv' /\ SidesInv'
  BY <1>1, <1>3 DEF IInv, GenuineInv, PosterInv, NearInv, SidesInv, Committed
<1>7. OneShotInv'
  BY <1>2, <1>3, <1>4 DEF IInv, OneShotInv
<1>8. TimelyInv'
  <2> SUFFICES ASSUME Alone, TimelyInv
               PROVE  InBaseline' /\ BeforeCommit' /\ AfterCommit' /\ AsExpected'
    BY <1>1, <1>2 DEF TimelyInv, IInv, Alone
  <2>1. Idle
    BY <1>3 DEF TimelyInv, BeforeCommit, Open
  <2>2. Idle'
    BY <1>1, <1>2, <2>1 DEF Idle
  <2>3. InBaseline' /\ BeforeCommit' /\ AfterCommit'
    BY <1>3, <2>2 DEF InBaseline, BeforeCommit, AfterCommit
  <2>4. AsExpected'
    BY <1>1 DEF TimelyInv, AsExpected
  <2> QED
    BY <2>3, <2>4
<1> QED
  BY <1>5, <1>6, <1>7, <1>8 DEF IInv, GenuineInv

LEMMA CommitStepLemma ==
  ASSUME IInv, Inv', CommitPosts PROVE IInv'
<1>1. /\ pc = [at |-> "commit", in |-> "-"] /\ pc' = [at |-> "committed", in |-> "poll"]
      /\ cnt' = cnt + posted /\ posted' = 0 /\ after' = cnt'
      /\ UNCHANGED <<reqs, wire, eveBuffer, eveResult, fired, total, got, reported, foreign>>
  BY DEF CommitPosts, At, GotoWait
<1>2. (copied' <=> copied) /\ (late' <=> late)
  BY Zenon DEF CommitPosts
<1>3. pc.at = "commit" /\ pc.in = "-" /\ pc'.at = "committed" /\ pc'.in = "poll"
  BY <1>1
<1>4. Inv /\ SumInv /\ PosterInv /\ NearInv /\ OneShotInv
  BY DEF IInv, GenuineInv
<1>5. posted = 3 /\ after = 0 /\ cnt' = cnt + 3 /\ Len(got) = 3
  BY <1>1, <1>3, <1>4, TurnLemma DEF PosterInv, SumInv, Committed
<1>6. 1 \in DOMAIN got /\ 2 \in DOMAIN got /\ 3 \in DOMAIN got /\ got # <<>>
  BY <1>4, <1>5, NaturalLemma
<1>7. Pending' = Pending
  BY <1>1, <1>2 DEF Pending
<1>8. got[1] <= cnt + 1
  <2>1. reported = got[1] + got[2] + got[3]
    BY <1>4, <1>5 DEF SumInv
  <2>2. reported + 0 = eveBuffer /\ eveBuffer <= cnt + 1
    BY <1>3, <1>4 DEF Inv, CountedOnce
  <2>3. got[1] \in Nat /\ got[2] \in Nat /\ got[3] \in Nat
    BY <1>4, <1>6, NaturalLemma
  <2>4. cnt \in Nat /\ reported \in Nat /\ eveBuffer \in Nat
    BY <1>4, NaturalLemma
  <2> QED
    BY <2>1, <2>2, <2>3, <2>4
<1>9. SumInv'
  BY <1>1, <1>3, <1>4, TurnLemma DEF SumInv
<1>10. PosterInv'
  BY <1>1, <1>3, <1>4, <1>5, <1>6, <1>8, NaturalLemma DEF PosterInv, Committed
<1>11. NearInv'
  BY <1>1, <1>4, <1>5, NaturalLemma DEF NearInv
<1>12. SidesInv'
  <2>1. got[1] # 0 => cnt + 1 <= got[1] + foreign
    BY <1>4, <1>5, <1>6 DEF NearInv
  <2>2. /\ \A i \in DOMAIN wire : wire[i] <= cnt + 1
        /\ eveResult <= cnt + 1 /\ eveBuffer <= cnt + 1
    BY <1>4, NaturalLemma DEF Inv, Ordered, CountedOnce
  <2>3. \A v \in Nat : v <= cnt + 1 /\ got[1] # 0 => v <= got[1] + foreign
    <3>1. got[1] \in Nat /\ cnt \in Nat /\ foreign \in Nat
      BY <1>4, <1>6, NaturalLemma
    <3> QED
      BY <2>1, <3>1
  <2>4. \A v \in Nat : v <= cnt + 1 /\ got[1] # 0 => Side(v)'
    BY <1>1, <2>3 DEF Side
  <2> QED
    BY <1>1, <1>4, <2>2, <2>4, NaturalLemma DEF SidesInv
<1>13. OneShotInv'
  BY <1>2, <1>3, <1>4, <1>7 DEF OneShotInv
<1>14. TimelyInv'
  <2> SUFFICES ASSUME Alone, TimelyInv
               PROVE  InBaseline' /\ BeforeCommit' /\ AfterCommit' /\ AsExpected'
    BY <1>1, <1>2 DEF TimelyInv, IInv, Alone
  <2>1. Idle
    BY <1>3 DEF TimelyInv, BeforeCommit, Open
  <2>2. Pending = 1
    BY <2>1, <1>4, NaturalLemma DEF Pending, Idle
  <2>3. Carry(cnt + 1)'
    BY <2>1, <1>1, <1>2 DEF Idle, Carry
  <2>4. \A i \in DOMAIN reqs : reqs[i] <= cnt + 3
    BY <2>1, <1>4, NaturalLemma DEF Idle
  <2>5. eveBuffer + 3 = (cnt + 3) + 1
    BY <2>1, <1>4, NaturalLemma DEF Idle
  <2>6. AfterCommit'
    BY <2>2, <2>3, <2>4, <2>5, <1>1, <1>3, <1>5, <1>7 DEF AfterCommit
  <2>7. InBaseline' /\ BeforeCommit'
    BY <1>3 DEF InBaseline, BeforeCommit, Open
  <2>8. AsExpected'
    BY <1>1 DEF TimelyInv, AsExpected
  <2> QED
    BY <2>6, <2>7, <2>8
<1> QED
  BY <1>9, <1>10, <1>11, <1>12, <1>13, <1>14 DEF IInv, GenuineInv

LEMMA EndLemma ==
  ASSUME IInv, Inv', Shutdown \/ ApiFails PROVE IInv'
<1>1. /\ \/ /\ pc = [at |-> "shutdown", in |-> "-"] /\ pc' = [at |-> "exited", in |-> "-"]
            /\ reqs' = <<>>
         \/ pc' = [at |-> "failed", in |-> "-"] /\ reqs' = reqs
      /\ UNCHANGED <<cnt, wire, eveBuffer, eveResult, fired, total, posted, got, reported,
                     after, foreign>>
  BY DEF Shutdown, ApiFails, At, Goto, history, server
<1>2. (copied' <=> copied) /\ (late' <=> late)
  <2>1. copied' = copied /\ late' = late
    BY DEF Shutdown, ApiFails
  <2> QED
    BY <2>1, Zenon
<1>3. /\ (pc.at = "shutdown" /\ pc'.at = "exited") \/ pc'.at = "failed"
      /\ pc'.in = "-" /\ Turn("shutdown") = Turn("exited")
  BY <1>1, TurnLemma
<1>4. Inv
  BY DEF IInv
<1>5. Len(reqs') <= Len(reqs) /\ Len(reqs') \in Nat
  BY <1>1, <1>4, NaturalLemma
<1>6. Pending' <= Pending /\ Pending' \in Nat /\ Pending \in Nat
  <2> DEFINE c == IF copied THEN 1 ELSE 0
  <2>1. c' = c /\ c \in Nat
    BY <1>2
  <2>2. /\ Pending = Len(reqs) + Len(wire) + c + fired
        /\ Pending' = Len(reqs') + Len(wire') + c' + fired'
    BY DEF Pending
  <2>3. /\ Len(wire') = Len(wire) /\ fired' = fired
        /\ Len(reqs) \in Nat /\ Len(wire) \in Nat /\ fired \in Nat
    BY <1>1, <1>4, NaturalLemma
  <2> HIDE DEF c
  <2> QED
    BY <2>1, <2>2, <2>3, <1>5
<1>7. SumInv'
  BY <1>1, <1>3 DEF IInv, GenuineInv, SumInv
<1>8. PosterInv' /\ NearInv' /\ SidesInv'
  BY <1>1, <1>3 DEF IInv, GenuineInv, PosterInv, NearInv, SidesInv, Side, Committed
<1>9. OneShotInv'
  <2>1. ~late => Pending <= 1
    BY DEF IInv, OneShotInv
  <2>2. ~late => Pending' <= 1
    BY <2>1, <1>6
  <2> QED
    BY <1>2, <1>3, <2>2 DEF OneShotInv
<1>10. TimelyInv'
  BY <1>1, <1>2, <1>3
     DEF IInv, TimelyInv, Alone, InBaseline, BeforeCommit, AfterCommit, AsExpected, Open
<1> QED
  BY <1>7, <1>8, <1>9, <1>10 DEF IInv, GenuineInv

LEMMA INextLemma == IInv /\ [Next]_vars => IInv'
<1> SUFFICES ASSUME IInv, [Next]_vars PROVE IInv'
  OBVIOUS
<1>1. Inv'
  BY NextLemma DEF IInv
<1>2. CASE UNCHANGED vars
  <2>1. /\ UNCHANGED <<cnt, reqs, wire, eveBuffer, eveResult, fired, total, posted, pc, got,
                       reported, after, foreign>>
    BY <1>2 DEF vars, server, history
  <2>2. (copied' <=> copied) /\ (late' <=> late)
    <3>1. copied' = copied /\ late' = late
      BY <1>2 DEF vars
    <3> QED
      BY <3>1, Zenon
  <2>3. GenuineInv'
    BY <2>1 DEF IInv, GenuineInv, SumInv, PosterInv, NearInv, SidesInv, Side
  <2>4. Pending' = Pending /\ (Idle' <=> Idle) /\ (Carry(cnt + 1)' <=> Carry(cnt + 1))
    BY <2>1, <2>2 DEF Pending, Idle, Carry
  <2>5. OneShotInv'
    BY <2>1, <2>2, <2>4 DEF IInv, OneShotInv
  <2>6. TimelyInv'
    BY <2>1, <2>2, <2>4
       DEF IInv, TimelyInv, Alone, InBaseline, BeforeCommit, AfterCommit, AsExpected
  <2> QED
    BY <1>1, <2>3, <2>5, <2>6 DEF IInv
<1> QED
  BY <1>1, <1>2, FiresLemma, PostsLemma, CopyLemma, CallbackLemma, SeesLemma, TimesOutLemma,
     CountsStepLemma, ReturnsStepLemma, QueueLemma, PosterLemma, CommitStepLemma, EndLemma
     DEF Next, Main, EventThread, Terminating

LEMMA TailLemma ==
  ASSUME NEW s \in Seq(Nat), Len(s) = 4
  PROVE  /\ s # <<>> /\ s[1] \in Nat /\ Tail(s) \in Seq(Nat) /\ Len(Tail(s)) = 3
         /\ Tail(s)[1] = s[2] /\ Tail(s)[2] = s[3] /\ Tail(s)[3] = s[4]
<1>1. s # <<>> /\ 1 \in DOMAIN s
  <2>1. Len(<<>>) = 0 /\ 0 # 4
    OBVIOUS
  <2>2. s # <<>>
    BY <2>1, Zenon
  <2>3. DOMAIN s = 1..4
    OBVIOUS
  <2> QED
    BY <2>2, <2>3
<1>2. s[1] \in Nat
  BY <1>1
<1>3. /\ Tail(s) \in Seq(Nat) /\ Len(Tail(s)) = Len(s) - 1
      /\ \A i \in 1..Len(Tail(s)) : Tail(s)[i] = s[i + 1]
  BY <1>1, HeadTailProperties
<1> DEFINE t == Tail(s)
<1>4. Len(t) = 3 /\ \A i \in 1..3 : t[i] = s[i + 1]
  <2>1. Len(s) - 1 = 3
    OBVIOUS
  <2> QED
    BY <1>3, <2>1, Zenon
<1> HIDE DEF t
<1>5. t[1] = s[2] /\ t[2] = s[3] /\ t[3] = s[4]
  <2>1. 1 \in 1..3 /\ 2 \in 1..3 /\ 3 \in 1..3 /\ 1 + 1 = 2 /\ 2 + 1 = 3 /\ 3 + 1 = 4
    OBVIOUS
  <2>2. t[1] = s[1 + 1] /\ t[2] = s[2 + 1] /\ t[3] = s[3 + 1]
    BY <1>4, <2>1, Zenon
  <2> QED
    BY <2>1, <2>2, Zenon
<1> QED
  BY <1>1, <1>2, <1>3, <1>4, <1>5, Zenon DEF t

(* The buffers keep their types, counts only grow on their way from the server
   to the baseline, and as long as no wait gave up on a delivery that was on
   its way, the event thread does not write what main reads between the end of
   its loop and fired = 0. *)
THEOREM EventInvTheorem == Spec => []EventInv
<1>1. IInv => EventInv
  <2> SUFFICES ASSUME IInv PROVE EventInv
    OBVIOUS
  <2>1. Inv /\ OneShotInv
    BY DEF IInv
  <2>2. ASSUME ~late, pc.in \in {"counts", "clear"} PROVE ~copied /\ fired = 1
    <3>1. Pending <= 1 /\ fired >= 1
      BY <2>1, <2>2 DEF OneShotInv
    <3> QED
      BY <2>1, <3>1, NaturalLemma DEF Pending
  <2> QED
    BY <2>1, <2>2 DEF EventInv, NoOverlap, Inv
<1> QED
  BY <1>1, IInitLemma, INextLemma, PTL DEF Spec

(* When no delivery comes later than the timeout of its wait and no other
   client posts, the demo's waits return what it expects and it prints PASS,
   whatever the counter was before. *)
THEOREM PassesWhenTimelyTheorem == Spec => []PassesWhenTimely
<1>1. IInv => PassesWhenTimely
  <2> SUFFICES ASSUME IInv, At("exited"), ~late, foreign = 0 PROVE rc = 0
    BY DEF PassesWhenTimely
  <2>1. AsExpected /\ got \in Seq(Nat)
    BY DEF IInv, TimelyInv, Alone, Inv, TypeOK
  <2>2. Len(got) = 4
    BY TurnLemma DEF IInv, GenuineInv, SumInv, At
  <2>3. got[2] = 0 /\ got[3] = 0 /\ got[4] = 3
    BY <2>1, <2>2 DEF AsExpected
  <2>4. Tail(got) = Expected
    <3>1. got # <<>> /\ Len(Tail(got)) = 3 /\ Tail(got) \in Seq(Nat)
          /\ Tail(got)[1] = got[2] /\ Tail(got)[2] = got[3] /\ Tail(got)[3] = got[4]
      BY <2>1, <2>2, TailLemma
    <3>2. Expected \in Seq(Nat) /\ Len(Expected) = 3
          /\ Expected[1] = 0 /\ Expected[2] = 0 /\ Expected[3] = 3
      BY DEF Expected
    <3>3. \A i \in 1..3 : i = 1 \/ i = 2 \/ i = 3
      OBVIOUS
    <3>4. \A i \in 1..3 : Tail(got)[i] = Expected[i]
      BY <3>1, <3>2, <3>3, <2>3
    <3> QED
      BY <3>1, <3>2, <3>4, SeqEqual
  <2> QED
    BY <2>4 DEF rc
<1> QED
  BY <1>1, IInitLemma, INextLemma, PTL DEF Spec

(* PASS is never printed by mistake: with the baseline consumed and fewer than
   three posts of others, the three posts of the last wait are those of the
   demo's own commit, however late the deliveries came. *)
THEOREM PassIsGenuineTheorem == Spec => []PassIsGenuine
<1>1. IInv => PassIsGenuine
  <2> SUFFICES ASSUME IInv, At("exited"), rc = 0, got[1] # 0, foreign < 3
               PROVE  eveBuffer = after + 1
    BY DEF PassIsGenuine
  <2>1. Inv /\ pc.at = "exited" /\ pc.in = "-" /\ got \in Seq(Nat)
    BY DEF IInv, At, Inv, TypeOK
  <2>2. Len(got) = 4 /\ Tail(got) = Expected
    BY <2>1, TurnLemma DEF IInv, GenuineInv, SumInv, rc
  <2>3. got[2] = 0 /\ got[3] = 0 /\ got[4] = 3 /\ got[1] \in Nat
    <3>1. /\ Tail(got)[1] = got[2] /\ Tail(got)[2] = got[3] /\ Tail(got)[3] = got[4]
          /\ got[1] \in Nat
      BY <2>1, <2>2, TailLemma
    <3>2. Expected[1] = 0 /\ Expected[2] = 0 /\ Expected[3] = 3
      BY DEF Expected
    <3> QED
      BY <2>2, <3>1, <3>2
  <2>4. eveBuffer = got[1] + 3
    <3>1. reported = got[1] + got[2] + got[3] + got[4]
      BY <2>2 DEF IInv, GenuineInv, SumInv
    <3>2. reported + 0 = eveBuffer /\ reported \in Nat
      BY <2>1, NaturalLemma DEF Inv, CountedOnce
    <3> QED
      BY <3>1, <3>2, <2>3
  <2>5. got[1] + 2 <= after /\ after \in Nat /\ foreign \in Nat
    BY <2>1, NaturalLemma DEF IInv, GenuineInv, PosterInv, Committed
  <2>6. eveBuffer >= after + 1 \/ eveBuffer <= got[1] + foreign
    BY <2>1 DEF IInv, GenuineInv, SidesInv, Side, Committed
  <2> QED
    BY <2>3, <2>4, <2>5, <2>6
<1> QED
  BY <1>1, IInitLemma, INextLemma, PTL DEF Spec

-----------------------------------------------------------------------------
(* events.py keeps account of every committed post, for any number of other
   posters and whatever comes between wait and flush. *)

Counters ==
  /\ step \in 1..11
  /\ open \in Nat /\ inFlight \in Nat /\ counts \in Nat /\ handed \in Nat
  /\ dropped \in Nat /\ mine \in Nat /\ others \in Nat
  /\ given \in Seq(Nat)

(* delivered() has returned once for each flush that is behind. *)
OnePerFlush ==
  Len(given) = IF step <= 4 THEN 0 ELSE IF step <= 7 THEN 1 ELSE IF step <= 10 THEN 2 ELSE 3

(* Between wait and flush the dictionary only grows: what wait handed out is
   still in it. *)
HandedIsThere == Here("flush") => handed <= counts

CollectorInv == Counters /\ OnePerFlush /\ HandedIsThere /\ NeverOvercounts

(* Where main's calls are. *)
LEMMA StepsLemma ==
  /\ DOMAIN Steps = 1..10 /\ Len(Steps) = 10
  /\ \A k \in 1..10 :
       /\ Steps[k] = "flush" <=> k \in {4, 7, 10}
       /\ Steps[k] = "wait" <=> k \in {3, 6, 9}
       /\ Steps[k] = "rollback" <=> k = 2
       /\ Steps[k] = "commit" <=> k = 8
       /\ Steps[k] = "post1" <=> k = 1
       /\ Steps[k] = "post3" <=> k = 5
  BY DEF Steps

(* One more result adds to the sum of those before. *)
LEMMA SumLemma ==
  ASSUME NEW s \in Seq(Nat), NEW x \in Nat, Len(s) < 3
  PROVE  /\ Append(s, x) \in Seq(Nat) /\ Len(Append(s, x)) = Len(s) + 1
         /\ Sum(Append(s, x)) = Sum(s) + x
  BY DEF Sum

LEMMA SumTypeLemma == \A s \in Seq(Nat) : Sum(s) \in Nat
  BY SMTT(30) DEF Sum

LEMMA AccountInitLemma == CollectorInit => CollectorInv
  BY StepsLemma DEF CollectorInit, CollectorInv, Counters, OnePerFlush, HandedIsThere,
                    NeverOvercounts, Here, Sum

LEMMA FlushLemma ==
  ASSUME CollectorInv, Flush
  PROVE  CollectorInv'
<1>1. /\ step \in {4, 7, 10} /\ step' = step + 1 /\ handed <= counts
      /\ given' = Append(given, handed) /\ dropped' = dropped + (counts - handed)
      /\ counts' = 0
      /\ UNCHANGED <<open, inFlight, handed, mine, others>>
  BY StepsLemma DEF CollectorInv, Counters, HandedIsThere, Flush, Here
<1>2. Len(given) < 3 /\ Len(given') = Len(given) + 1
  <2>1. given \in Seq(Nat) /\ handed \in Nat
    BY DEF CollectorInv, Counters
  <2>2. Len(given) < 3
    BY <1>1 DEF CollectorInv, OnePerFlush
  <2> QED
    BY <1>1, <2>1, <2>2
<1>3. given' \in Seq(Nat) /\ Sum(given') = Sum(given) + handed /\ Sum(given) \in Nat
  BY <1>1, <1>2, SumLemma, SumTypeLemma DEF CollectorInv, Counters
<1>4. Counters'
  BY <1>1, <1>3 DEF CollectorInv, Counters
<1>5. OnePerFlush'
  BY <1>1, <1>2 DEF CollectorInv, OnePerFlush
<1>6. HandedIsThere'
  BY <1>1, StepsLemma DEF HandedIsThere, Here
<1>7. NeverOvercounts'
  BY <1>1, <1>3 DEF CollectorInv, Counters, NeverOvercounts
<1> QED
  BY <1>4, <1>5, <1>6, <1>7 DEF CollectorInv

LEMMA AccountNextLemma == CollectorInv /\ [CollectorNext]_collectorVars => CollectorInv'
<1> SUFFICES ASSUME CollectorInv, [CollectorNext]_collectorVars PROVE CollectorInv'
  OBVIOUS
<1>1. CASE PostEvent
  <2>1. step \in {1, 5} /\ step' = step + 1
    BY <1>1, StepsLemma DEF PostEvent, Here, CollectorInv, Counters
  <2>2. Counters' /\ OnePerFlush' /\ HandedIsThere'
    BY <1>1, <2>1, StepsLemma
    DEF PostEvent, CollectorInv, Counters, OnePerFlush, HandedIsThere, Here
  <2>3. NeverOvercounts'
    BY <1>1, SumTypeLemma DEF PostEvent, CollectorInv, Counters, NeverOvercounts
  <2> QED
    BY <2>2, <2>3 DEF CollectorInv
<1>2. CASE RollbackPoster
  <2>1. step = 2 /\ step' = 3
    BY <1>2, StepsLemma DEF RollbackPoster, Here, CollectorInv, Counters
  <2>2. Counters' /\ OnePerFlush' /\ HandedIsThere'
    BY <1>2, <2>1, StepsLemma
    DEF RollbackPoster, CollectorInv, Counters, OnePerFlush, HandedIsThere, Here
  <2>3. NeverOvercounts'
    BY <1>2, SumTypeLemma DEF RollbackPoster, CollectorInv, Counters, NeverOvercounts
  <2> QED
    BY <2>2, <2>3 DEF CollectorInv
<1>3. CASE CommitPoster
  <2>1. step = 8 /\ step' = 9
    BY <1>3, StepsLemma DEF CommitPoster, Here, CollectorInv, Counters
  <2>2. Counters' /\ OnePerFlush' /\ HandedIsThere'
    BY <1>3, <2>1, StepsLemma
    DEF CommitPoster, CollectorInv, Counters, OnePerFlush, HandedIsThere, Here
  <2>3. NeverOvercounts'
    BY <1>3, SumTypeLemma DEF CommitPoster, CollectorInv, Counters, NeverOvercounts
  <2> QED
    BY <2>2, <2>3 DEF CollectorInv
<1>4. CASE Wait
  <2>1. step \in {3, 6, 9} /\ step' = step + 1
    BY <1>4, StepsLemma DEF Wait, Here, CollectorInv, Counters
  <2>2. Counters' /\ OnePerFlush' /\ HandedIsThere'
    BY <1>4, <2>1, StepsLemma
    DEF Wait, CollectorInv, Counters, OnePerFlush, HandedIsThere, Here
  <2>3. NeverOvercounts'
    BY <1>4, SumTypeLemma DEF Wait, CollectorInv, Counters, NeverOvercounts
  <2> QED
    BY <2>2, <2>3 DEF CollectorInv
<1>5. CASE Flush
  BY <1>5, FlushLemma
<1>6. CASE Deliver
  <2>1. step' = step
    BY <1>6, StepsLemma DEF Deliver, Here, CollectorInv, Counters
  <2>2. Counters' /\ OnePerFlush' /\ HandedIsThere'
    BY <1>6, <2>1, StepsLemma
    DEF Deliver, CollectorInv, Counters, OnePerFlush, HandedIsThere, Here
  <2>3. NeverOvercounts'
    BY <1>6, SumTypeLemma DEF Deliver, CollectorInv, Counters, NeverOvercounts
  <2> QED
    BY <2>2, <2>3 DEF CollectorInv
<1>7. CASE OtherPosts
  <2>1. step' = step
    BY <1>7, StepsLemma DEF OtherPosts, Here, CollectorInv, Counters
  <2>2. Counters' /\ OnePerFlush' /\ HandedIsThere'
    BY <1>7, <2>1, StepsLemma
    DEF OtherPosts, CollectorInv, Counters, OnePerFlush, HandedIsThere, Here
  <2>3. NeverOvercounts'
    BY <1>7, SumTypeLemma DEF OtherPosts, CollectorInv, Counters, NeverOvercounts
  <2> QED
    BY <2>2, <2>3 DEF CollectorInv
<1>8. CASE UNCHANGED collectorVars
  BY <1>8 DEF collectorVars, CollectorInv, Counters, OnePerFlush, HandedIsThere, NeverOvercounts, Here
<1> QED
  BY <1>1, <1>2, <1>3, <1>4, <1>5, <1>6, <1>7, <1>8 DEF CollectorNext, PyMain

(* Whatever falls between wait and flush and however many others post: every
   committed post is counted once, thrown away once, or still to come. *)
THEOREM NeverOvercountsTheorem == CollectorSpec => []NeverOvercounts
<1>1. CollectorInv => NeverOvercounts
  BY DEF CollectorInv
<1> QED
  BY <1>1, AccountInitLemma, AccountNextLemma, PTL DEF CollectorSpec
=============================================================================
