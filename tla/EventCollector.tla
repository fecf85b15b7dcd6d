-------------------------- MODULE EventCollector --------------------------
(***************************************************************************)
(* events.py: the driver's collector thread adds each delivery to a        *)
(* dictionary; delivered() waits for the dictionary to fill or for a       *)
(* timeout, takes the count it is handed, and then flushes the dictionary. *)
(* The wait and the flush are two calls, and the collector runs between    *)
(* them.                                                                   *)
(***************************************************************************)
EXTENDS Naturals, Sequences

CONSTANT MaxOthers     \* posts other sessions commit

ASSUME CollectorAssumption == MaxOthers \in Nat

VARIABLES prompt,    \* a delivery on its way beats every timeout
          step,      \* index into Steps
          open,      \* posts of the poster's open transaction
          inFlight,  \* committed posts not yet delivered
          counts,    \* the collector's dictionary entry
          handed,    \* what wait() returned, held until the flush
          given,     \* what delivered() has returned so far
          dropped,   \* posts a flush has thrown away uncounted
          mine,      \* posts the poster has committed
          others     \* posts other sessions have committed
collectorVars == <<prompt, step, open, inFlight, counts, handed, given, dropped, mine, others>>

\* main, and the verdict it expects of each delivered()
Steps == <<"post1", "rollback", "wait", "flush",
           "post3", "wait", "flush", "commit", "wait", "flush">>
Wanted == <<0, 0, 3>>
Here(s) == step \in DOMAIN Steps /\ Steps[step] = s
Done == step > Len(Steps)

-----------------------------------------------------------------------------
(* main *)

\* Mutant: the posts go out when they are executed
PostAtOnce ==
  /\ Here("post1") \/ Here("post3")
  /\ inFlight' = inFlight + (IF Here("post1") THEN 1 ELSE 3)
  /\ mine' = mine + (IF Here("post1") THEN 1 ELSE 3)
  /\ step' = step + 1
  /\ UNCHANGED <<prompt, open, counts, handed, given, dropped, others>>
PostEvent ==
  /\ Here("post1") \/ Here("post3")
  /\ open' = IF Here("post1") THEN 1 ELSE 3
  /\ step' = step + 1
  /\ UNCHANGED <<prompt, inFlight, counts, handed, given, dropped, mine, others>>

RollbackPoster ==
  /\ Here("rollback") /\ open' = 0 /\ step' = step + 1
  /\ UNCHANGED <<prompt, inFlight, counts, handed, given, dropped, mine, others>>

CommitPoster ==
  /\ Here("commit")
  /\ inFlight' = inFlight + open /\ mine' = mine + open /\ open' = 0 /\ step' = step + 1
  /\ UNCHANGED <<prompt, counts, handed, given, dropped, others>>

\* collector.wait: at once when something is there, otherwise at the timeout
Wait ==
  /\ Here("wait") /\ (counts > 0 \/ ~prompt \/ inFlight = 0)
  /\ handed' = counts /\ step' = step + 1
  /\ UNCHANGED <<prompt, open, inFlight, counts, given, dropped, mine, others>>

\* Mutant: no flush
FlushNot ==
  /\ Here("flush")
  /\ given' = Append(given, handed) /\ step' = step + 1
  /\ UNCHANGED <<prompt, open, inFlight, counts, handed, dropped, mine, others>>
\* collector.flush empties the dictionary, whatever has come since the wait
Flush ==
  /\ Here("flush")
  /\ given' = Append(given, handed) /\ dropped' = dropped + (counts - handed)
  /\ counts' = 0 /\ step' = step + 1
  /\ UNCHANGED <<prompt, open, inFlight, handed, mine, others>>

-----------------------------------------------------------------------------
(* The collector's thread and the other sessions *)

\* One delivery carries all posts committed since the last
Deliver ==
  /\ inFlight > 0
  /\ counts' = counts + inFlight /\ inFlight' = 0
  /\ UNCHANGED <<prompt, step, open, handed, given, dropped, mine, others>>

OtherPosts ==
  /\ others < MaxOthers /\ ~Done
  /\ others' = others + 1 /\ inFlight' = inFlight + 1
  /\ UNCHANGED <<prompt, step, open, counts, handed, given, dropped, mine>>

CollectorInit ==
  /\ prompt \in BOOLEAN /\ step = 1 /\ open = 0 /\ inFlight = 0 /\ counts = 0 /\ handed = 0
  /\ given = <<>> /\ dropped = 0 /\ mine = 0 /\ others = 0

PyMain == PostEvent \/ RollbackPoster \/ CommitPoster \/ Wait \/ Flush
CollectorNext == PyMain \/ Deliver \/ OtherPosts

CollectorSpec ==
  /\ CollectorInit /\ [][CollectorNext]_collectorVars
  /\ WF_collectorVars(PyMain) /\ WF_collectorVars(Deliver)

-----------------------------------------------------------------------------
(* Properties *)

Sum(s) == (IF Len(s) > 0 THEN s[1] ELSE 0) + (IF Len(s) > 1 THEN s[2] ELSE 0)
          + (IF Len(s) > 2 THEN s[3] ELSE 0)
Pass == Done /\ given = Wanted

\* A count handed out twice, or for a post nobody committed, never occurs: what
\* delivered() has returned is covered by committed posts, each at most once,
\* and a flush never takes away less than was handed out.
NeverOvercounts ==
  /\ Sum(given) + dropped + counts + inFlight = mine + others
  /\ dropped >= 0

\* When deliveries beat the timeouts and nobody else posts, the sample passes.
PassesWhenPrompt == prompt /\ [](others = 0) => <>Pass
=============================================================================
