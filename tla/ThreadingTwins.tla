--------------------------- MODULE ThreadingTwins ---------------------------
(***************************************************************************)
(* The two threading programs of samples/: worker threads of this process  *)
(* each attach, count t's rows, hold the attachment for a while and let it *)
(* go, while main counts attachments; main joins them and counts again.    *)
(* Two workers stand for the twelve.  The counting queries read MON$       *)
(* tables: of those only the transactions around them are kept.            *)
(***************************************************************************)
EXTENDS Samples

(* The lambda: no handler of its own; leaving its scope detaches. *)
Worker(t, a) ==
  <<AttachOp(a), StartOp(t, a, "snapshot", "wait"), ReadOp(t, 1, "rows"),
    CommitOp(t), DetachOp(a)>>

MonQuery(t) == <<StartOp(t, "a", "snapshot", "wait"), CommitOp(t)>>

(* Mutant: the second worker is not joined until the last query is done. *)
CensusBeforeJoin(setup) ==
  <<AttachOp("a")>> \o setup \o MonQuery("q1")
  \o <<SpawnOp("w1"), SpawnOp("w2")>> \o MonQuery("q2")
  \o <<JoinOp("w1")>> \o MonQuery("q3") \o <<JoinOp("w2"), DetachOp("a")>>

Census(setup) ==
  <<AttachOp("a")>> \o setup \o MonQuery("q1")
  \o <<SpawnOp("w1"), SpawnOp("w2")>> \o MonQuery("q2")
  \o <<JoinOp("w1"), JoinOp("w2")>> \o MonQuery("q3") \o <<DetachOp("a")>>

ThreadingProgram(setup) ==
  [threads |-> [main |-> Census(setup), w1 |-> Worker("w1", "c"), w2 |-> Worker("w2", "d")],
   stray |-> "terminate", unwind |-> <<DetachOp("a")>>, waits |-> {}]

(* RECREATE in a try of its own: what it throws is dropped. *)
CppThreading ==
  ThreadingProgram(OwnTx("s1", "a", Quiet(RecreateOp("s1")))
                   \o OwnTx("s2", "a", InsertOp("s2", 1, 0)))

FbCppThreading ==
  ThreadingProgram(OwnTx("s1", "a", RecreateOp("s1"))
                   \o OwnTx("s2", "a", InsertOp("s2", 1, 0)))
=============================================================================
