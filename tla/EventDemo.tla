------------------------------ MODULE EventDemo -----------------------------
(***************************************************************************)
(* samples/events_demo.cpp: a Listener whose callback runs on the client's *)
(* event thread, and a main thread that posts, polls with a timeout and    *)
(* judges what it counted.  The server's part (the event counter, one-shot *)
(* interests, delivery at commit) is what the program uses of it.          *)
(***************************************************************************)
EXTENDS Integers, Sequences

CONSTANTS Start,        \* counter values the event may have had before
          MaxForeign    \* posts other clients of the database may commit

ASSUME EventAssumption == Start \subseteq Nat /\ MaxForeign \in Nat

VARIABLES
  cnt,        \* server: posts committed so far under this name
  reqs,       \* server: baselines of the interests queued (a sequence)
  wire,       \* op_event packets on the auxiliary connection
  eveBuffer,  \* the baseline, eveResult: the last delivery
  eveResult,
  fired,      \* callbacks since the last wait() that returned a count
  copied,     \* event thread: between memcpy and ++fired
  total,      \* wait()'s local variable
  posted,     \* POST_EVENTs of the poster's open transaction
  pc,         \* main thread
  got,        \* what the waits returned, in order
  reported,   \* and the sum of it
  after,      \* the counter just after the poster's commit (0 before it)
  foreign,    \* posts by others so far
  late        \* some wait gave up although its delivery was on the way

server == <<cnt, reqs, wire>>
history == <<got, reported, after>>
vars == <<server, eveBuffer, eveResult, fired, copied, total, posted, pc, history,
          foreign, late>>

(* The waits of main(): baseline, after the rollback, before and after the
   commit. *)
Waits == {"baseline", "rolledBack", "uncommitted", "committed"}
Expected == <<0, 0, 3>>

Phases == {"queue", "requeue", "post1", "rollback", "post3", "commit",
           "shutdown", "exited", "failed"}

TypeOK ==
  /\ cnt \in Nat /\ eveBuffer \in Nat /\ eveResult \in Nat /\ total \in Nat
  /\ reqs \in Seq(Nat) /\ wire \in Seq(Nat)
  /\ fired \in Nat /\ copied \in BOOLEAN
  /\ posted \in 0..3 /\ foreign \in 0..MaxForeign /\ late \in BOOLEAN
  /\ pc \in [at : Phases, in : {"-"}]
            \cup [at : Waits, in : {"poll", "counts", "clear"}]
  /\ got \in Seq(Nat) /\ reported \in Nat /\ after \in Nat

At(p) == pc = [at |-> p, in |-> "-"]
Goto(p) == pc' = [at |-> p, in |-> "-"]
Polls(w) == pc = [at |-> w, in |-> "poll"]
GotoWait(w) == pc' = [at |-> w, in |-> "poll"]

AfterWait(w) == CASE w = "baseline"    -> "requeue"
                  [] w = "rolledBack"  -> "post3"
                  [] w = "uncommitted" -> "commit"
                  [] w = "committed"   -> "shutdown"

Init ==
  /\ cnt \in Start /\ reqs = <<>> /\ wire = <<>>
  /\ eveBuffer = 0 /\ eveResult = 0 /\ fired = 0 /\ copied = FALSE /\ total = 0
  /\ posted = 0 /\ foreign = 0 /\ late = FALSE
  /\ got = <<>> /\ reported = 0 /\ after = 0
  /\ pc = [at |-> "queue", in |-> "-"]

-----------------------------------------------------------------------------
(* The server and the event thread *)

(* An interest is one-shot: it fires once the counter reaches its baseline,
   and the packet carries the counter plus one. *)
ServerFires ==
  /\ \E i \in DOMAIN reqs :
       /\ cnt >= reqs[i]
       /\ reqs' = [j \in 1..(Len(reqs) - 1) |-> IF j < i THEN reqs[j] ELSE reqs[j+1]]
  /\ wire' = Append(wire, cnt + 1)
  /\ UNCHANGED <<cnt, eveBuffer, eveResult, fired, copied, total, posted, pc, history,
                 foreign, late>>

ForeignCommit ==
  /\ foreign < MaxForeign
  /\ foreign' = foreign + 1
  /\ cnt' = cnt + 1
  /\ UNCHANGED <<reqs, wire, eveBuffer, eveResult, fired, copied, total, posted,
                 pc, history, late>>

(* eventCallbackFunction: memcpy, then ++fired. *)
CallbackCopies ==
  /\ wire # <<>> /\ ~copied
  /\ eveResult' = Head(wire) /\ wire' = Tail(wire)
  /\ copied' = TRUE
  /\ UNCHANGED <<cnt, reqs, eveBuffer, fired, total, posted, pc, history, foreign, late>>

CallbackCounts ==
  /\ copied
  /\ copied' = FALSE /\ fired' = fired + 1
  /\ UNCHANGED <<server, eveBuffer, eveResult, total, posted, pc, history, foreign, late>>

-----------------------------------------------------------------------------
(* The main thread *)

(* new Listener: the constructor queues with the empty baseline. *)
Queue ==
  /\ At("queue")
  /\ reqs' = Append(reqs, eveBuffer)
  /\ GotoWait("baseline")
  /\ UNCHANGED <<cnt, wire, eveBuffer, eveResult, fired, copied, total, posted, history,
                 foreign, late>>

(* Mutant: the listener does not queue a new interest. *)
RequeueForgotten ==
  /\ At("requeue")
  /\ Goto("post1")
  /\ UNCHANGED <<server, eveBuffer, eveResult, fired, copied, total, posted, history,
                 foreign, late>>

(* requeue(): release() drops the old handle without cancelling an interest
   that has not fired. *)
Requeue ==
  /\ At("requeue")
  /\ reqs' = Append(reqs, eveBuffer)
  /\ Goto("post1")
  /\ UNCHANGED <<cnt, wire, eveBuffer, eveResult, fired, copied, total, posted, history,
                 foreign, late>>

Due == copied \/ wire # <<>> \/ \E i \in DOMAIN reqs : cnt >= reqs[i]

(* wait(): the loop sees fired, or gives up; then isc_event_counts, which
   makes the result the next baseline; then fired = 0. *)
WaitSeesFired ==
  \E w \in Waits :
    /\ Polls(w) /\ fired # 0
    /\ pc' = [at |-> w, in |-> "counts"]
    /\ UNCHANGED <<server, eveBuffer, eveResult, fired, copied, total, posted, history,
                   foreign, late>>

(* Mutant: a poll that finds nothing starts the timeout again. *)
WaitStartsOver == (\E w \in Waits : Polls(w) /\ fired = 0) /\ UNCHANGED vars

WaitTimesOut ==
  \E w \in Waits :
    /\ Polls(w) /\ fired = 0
    /\ got' = Append(got, 0)
    /\ late' = (late \/ Due)
    /\ Goto(AfterWait(w))
    /\ UNCHANGED <<server, eveBuffer, eveResult, fired, copied, total, posted,
                   reported, after, foreign>>

(* Mutants of isc_event_counts: the baseline stays; the raw counter is taken
   for the difference. *)
EventCountsKeepsBaseline ==
  \E w \in Waits :
    /\ pc = [at |-> w, in |-> "counts"]
    /\ total' = IF eveResult > eveBuffer THEN eveResult - eveBuffer ELSE 0
    /\ pc' = [at |-> w, in |-> "clear"]
    /\ UNCHANGED <<server, eveBuffer, eveResult, fired, copied, posted, history,
                   foreign, late>>
EventCountsRaw ==
  \E w \in Waits :
    /\ pc = [at |-> w, in |-> "counts"]
    /\ total' = eveResult
    /\ eveBuffer' = eveResult
    /\ pc' = [at |-> w, in |-> "clear"]
    /\ UNCHANGED <<server, eveResult, fired, copied, posted, history, foreign, late>>

EventCounts ==
  \E w \in Waits :
    /\ pc = [at |-> w, in |-> "counts"]
    /\ total' = IF eveResult > eveBuffer THEN eveResult - eveBuffer ELSE 0
    /\ eveBuffer' = eveResult
    /\ pc' = [at |-> w, in |-> "clear"]
    /\ UNCHANGED <<server, eveResult, fired, copied, posted, history, foreign, late>>

(* Mutant: fired is not reset. *)
WaitKeepsFired ==
  \E w \in Waits :
    /\ pc = [at |-> w, in |-> "clear"]
    /\ got' = Append(got, total) /\ reported' = reported + total
    /\ Goto(AfterWait(w))
    /\ UNCHANGED <<server, eveBuffer, eveResult, fired, copied, total, posted, after,
                   foreign, late>>

WaitReturns ==
  \E w \in Waits :
    /\ pc = [at |-> w, in |-> "clear"]
    /\ fired' = 0
    /\ got' = Append(got, total) /\ reported' = reported + total
    /\ Goto(AfterWait(w))
    /\ UNCHANGED <<server, eveBuffer, eveResult, copied, total, posted, after,
                   foreign, late>>

Post(p, n, goesOn) ==
  /\ At(p)
  /\ posted' = n
  /\ goesOn
  /\ UNCHANGED <<server, eveBuffer, eveResult, fired, copied, total, history, foreign, late>>

Post1 == Post("post1", 1, Goto("rollback"))
Post3 == Post("post3", 3, GotoWait("uncommitted"))

RollbackPosts ==
  /\ At("rollback")
  /\ posted' = 0
  /\ GotoWait("rolledBack")
  /\ UNCHANGED <<server, eveBuffer, eveResult, fired, copied, total, history, foreign, late>>

CommitPosts ==
  /\ At("commit")
  /\ cnt' = cnt + posted /\ posted' = 0
  /\ after' = cnt'
  /\ GotoWait("committed")
  /\ UNCHANGED <<reqs, wire, eveBuffer, eveResult, fired, copied, total, got,
                 reported, foreign, late>>

(* shutdown(), release(), the two detaches, PASS or FAIL. *)
Shutdown ==
  /\ At("shutdown")
  /\ reqs' = <<>>
  /\ Goto("exited")
  /\ UNCHANGED <<cnt, wire, eveBuffer, eveResult, fired, copied, total, posted, history,
                 foreign, late>>

(* Any API call may throw: main() prints the error and returns 1, leaving
   listener and attachments to the end of the process. *)
ApiFails ==
  /\ pc.at \in Phases \ {"exited", "failed"}
  /\ Goto("failed")
  /\ UNCHANGED <<server, eveBuffer, eveResult, fired, copied, total, posted, history,
                 foreign, late>>

Ended == At("exited") \/ At("failed")
Terminating == Ended /\ UNCHANGED vars

Main == \/ Queue \/ Requeue \/ WaitSeesFired \/ WaitTimesOut \/ EventCounts
        \/ WaitReturns \/ Post1 \/ Post3 \/ RollbackPosts \/ CommitPosts
        \/ Shutdown \/ ApiFails

EventThread == CallbackCopies \/ CallbackCounts

Next == \/ ~Ended /\ (Main \/ EventThread \/ ServerFires \/ ForeignCommit)
        \/ Terminating

Spec == Init /\ [][Next]_vars

FairSpec == Spec /\ WF_vars(Main) /\ WF_vars(EventThread) /\ WF_vars(ServerFires)

-----------------------------------------------------------------------------
(* Properties *)

rc == IF At("exited") /\ Tail(got) = Expected THEN 0 ELSE 1

(* Counts only grow on their way from the server to the baseline. *)
Ordered ==
  /\ eveBuffer <= eveResult
  /\ \A i \in DOMAIN wire : eveResult <= wire[i] /\ wire[i] <= cnt + 1
  /\ \A i, j \in DOMAIN wire : i <= j => wire[i] <= wire[j]
  /\ eveResult <= cnt + 1

(* No post is counted twice and none that was rolled back is counted: what
   all the waits returned together is the baseline, and that never exceeds
   what was committed. *)
CountedOnce ==
  /\ reported + (IF pc.in = "clear" THEN total ELSE 0) = eveBuffer
  /\ eveBuffer <= cnt + 1

(* When every delivery beats the timeout of its wait, and nobody else posts,
   the demo finds what it expects: PASS. *)
PassesWhenTimely ==
  At("exited") /\ ~late /\ foreign = 0 => rc = 0

(* PASS is not printed by mistake, if the baseline was consumed and others
   posted fewer than the three posts it looks for: the last delivery is the
   one of the commit, and brought its posts and nothing else. *)
PassIsGenuine ==
  At("exited") /\ rc = 0 /\ got[1] # 0 /\ foreign < 3 => eveBuffer = after + 1

(* One-shot: while main reads the result, the event thread does not write it,
   and no delivery is forgotten by fired = 0, as long as no wait gave up on a
   delivery that was on its way. *)
NoOverlap ==
  ~late /\ pc.in \in {"counts", "clear"} => ~copied /\ fired = 1

(* The buffers have their types, counts only grow on their way to the
   baseline, and main and the event thread stay out of each other's way. *)
EventInv == TypeOK /\ Ordered /\ NoOverlap

(* Every wait has a timeout: the demo ends. *)
Terminates == <>Ended
=============================================================================
