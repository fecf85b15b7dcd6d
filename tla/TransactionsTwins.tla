-------------------------- MODULE TransactionsTwins -------------------------
(***************************************************************************)
(* The nine transactions programs of samples/: what a SNAPSHOT and a READ  *)
(* COMMITTED transaction see of another attachment's commit, and two       *)
(* updates of one row.  Row 1 is the account; snap, rc, hold and loser are *)
(* the transactions, on attachments a and b.                               *)
(***************************************************************************)
EXTENDS Samples

(* Mutant: the transaction of part 1 is not a SNAPSHOT. *)
StableReadCommitted(mode, update) ==
  <<StartOp("snap", "a", "read_committed", mode), ReadOp("snap", 1, "snap1")>>
  \o update \o <<ReadOp("snap", 1, "snap2")>>

(* Part 1: the snapshot reads, b commits an update, the snapshot reads again. *)
Stable(mode, update) ==
  <<StartOp("snap", "a", "snapshot", mode), ReadOp("snap", 1, "snap1")>>
  \o update \o <<ReadOp("snap", 1, "snap2")>>

(* Part 2: a READ COMMITTED transaction of a reads the same row. *)
Follows(mode) ==
  <<StartOp("rc", "a", "read_committed", mode), ReadOp("rc", 1, "rc"),
    CommitOp("rc")>>

(* Part 3, one thread: hold updates first and stays open, loser must fail. *)
LoserUpdates(n) == Try(UpdateOp("loser", 1, <<"add", n>>), "conflict", <<>>, <<>>)

(* Mutant: the holder commits before the loser begins. *)
ConflictAfterCommit(holdAtt, holdMode, loserAtt) ==
  <<StartOp("hold", holdAtt, "snapshot", holdMode), UpdateOp("hold", 1, <<"add", 1>>),
    CommitOp("hold"), StartOp("loser", loserAtt, "snapshot", "nowait"),
    LoserUpdates(10), RollbackOp("loser")>>

(* Mutant: the error of the holder's commit is swallowed. *)
ConflictUnchecked(holdAtt, holdMode, loserAtt) ==
  <<StartOp("hold", holdAtt, "snapshot", holdMode), UpdateOp("hold", 1, <<"add", 1>>),
    StartOp("loser", loserAtt, "snapshot", "nowait"), LoserUpdates(10),
    RollbackOp("loser"), Quiet(CommitOp("hold"))>>

Conflict(holdAtt, holdMode, loserAtt) ==
  <<StartOp("hold", holdAtt, "snapshot", holdMode), UpdateOp("hold", 1, <<"add", 1>>),
    StartOp("loser", loserAtt, "snapshot", "nowait"), LoserUpdates(10),
    RollbackOp("loser"), CommitOp("hold")>>

(* Part 3 under WAIT: the loser's update is on its way while hold commits. *)
Race == <<StartOp("hold", "b", "snapshot", "wait"), UpdateOp("hold", 1, <<"add", 1>>),
          StartOp("loser", "a", "snapshot", "wait"),
          SpawnOp("race"), CommitOp("hold"), JoinOp("race")>>

Attaches == <<AttachOp("a"), AttachOp("b")>>
DetachBA == <<DetachOp("b"), DetachOp("a")>>

-----------------------------------------------------------------------------
CppTransactions ==
  [threads |->
     [main |-> Attaches \o OwnTx("s1", "a", RecreateOp("s1"))
               \o OwnTx("s2", "a", InsertOp("s2", 1, 100))
               \o Stable("wait", OwnTx("txB", "b", UpdateOp("txB", 1, <<"set", 999>>)))
               \o Follows("wait") \o Conflict("b", "wait", "a")
               \o <<CommitOp("snap")>> \o DetachBA],
   stray |-> "terminate", unwind |-> DetachBA, waits |-> {}]

FbCppTransactions == CppTransactions

(* execute() runs on the connection's main transaction and commits it. *)
PythonTransactions ==
  [threads |->
     [main |-> Attaches \o OwnTx("s1", "a", RecreateOp("s1"))
               \o OwnTx("s2", "a", InsertOp("s2", 1, 100))
               \o Stable("nowait", OwnTx("txB", "b", UpdateOp("txB", 1, <<"set", 999>>)))
               \o Follows("nowait") \o Conflict("b", "nowait", "a")
               \o <<CommitOp("snap")>> \o DetachBA],
   stray |-> "drop", unwind |-> DetachBA, waits |-> {"return", "exit"}]

(* The connection's one transaction at a time: the snapshot ends before part 2. *)
JavaTransactions ==
  [threads |->
     [main |-> Attaches \o AutoTx("s1", "a", RecreateOp("s1"))
               \o AutoTx("s2", "a", InsertOp("s2", 1, 100))
               \o Stable("nowait", AutoTx("txB", "b", UpdateOp("txB", 1, <<"set", 999>>)))
               \o <<CommitOp("snap")>> \o Follows("nowait")
               \o Conflict("b", "nowait", "a") \o DetachBA],
   stray |-> "drop", unwind |-> DetachBA, waits |-> {"return"}]

CSharpTransactions ==
  [JavaTransactions EXCEPT !.stray = "rethrow", !.waits = {}]

(* A updates first here and B loses. *)
FpcTransactions ==
  [threads |->
     [main |-> Attaches
               \o QuietAutoTx("s1", "a", "read_committed", "nowait", DropOp("s1"))
               \o AutoTxWith("s2", "a", "read_committed", "nowait", CreateOp("s2"))
               \o AutoTxWith("s3", "a", "read_committed", "nowait", InsertOp("s3", 1, 100))
               \o Stable("nowait",
                         <<StartOp("txB", "b", "read_committed", "nowait"),
                           UpdateOp("txB", 1, <<"set", 150>>), CommitOp("txB")>>)
               \o <<CommitOp("snap")>> \o Follows("nowait")
               \o <<StartOp("hold", "a", "snapshot", "nowait"),
                    StartOp("loser", "b", "snapshot", "nowait"),
                    UpdateOp("hold", 1, <<"add", 1>>), LoserUpdates(2),
                    RollbackOp("loser"), CommitOp("hold")>>],
   stray |-> "drop", unwind |-> <<>>, waits |-> {}]

RustTransactions ==
  [threads |->
     [main |-> Attaches
               \o <<StartOp("s1", "a", "read_committed", "nowait"),
                    Quiet(DropOp("s1")), CreateOp("s1"), CommitOp("s1"),
                    StartOp("s2", "a", "read_committed", "nowait"),
                    InsertOp("s2", 1, 100), CommitOp("s2")>>
               \o Stable("nowait",
                         <<StartOp("txB", "b", "read_committed", "nowait"),
                           UpdateOp("txB", 1, <<"set", 150>>), CommitOp("txB")>>)
               \o <<CommitOp("snap")>> \o Follows("nowait")
               \o <<StartOp("hold", "a", "snapshot", "nowait"),
                    StartOp("loser", "b", "snapshot", "nowait"),
                    UpdateOp("hold", 1, <<"add", 1>>), LoserUpdates(2),
                    RollbackOp("loser"), CommitOp("hold")>> \o DetachBA],
   stray |-> "rethrow", unwind |-> DetachBA, waits |-> {}]

JsTransactions ==
  [threads |->
     [main |-> Attaches \o AutoTx("s1", "a", RecreateOp("s1"))
               \o AutoTx("s2", "a", InsertOp("s2", 1, 100))
               \o Stable("wait", AutoTx("txB", "b", UpdateOp("txB", 1, <<"set", 999>>)))
               \o Follows("wait") \o Race
               \o <<RollbackOp("loser"), CommitOp("snap"), DetachOp("a"), DetachOp("b")>>,
      race |-> <<LoserUpdates(10)>>],
   stray |-> "exit", unwind |-> <<>>, waits |-> {"return"}]

GoTransactions ==
  [threads |->
     [main |-> Attaches \o AutoTx("s1", "a", RecreateOp("s1"))
               \o AutoTx("s2", "a", InsertOp("s2", 1, 100))
               \o Stable("wait", AutoTx("txB", "b", UpdateOp("txB", 1, <<"set", 999>>)))
               \o <<CommitOp("snap")>> \o Follows("wait") \o Race
               \o <<Quiet(RollbackOp("loser"))>> \o DetachBA,
      race |-> <<LoserUpdates(10)>>],
   stray |-> "exit", unwind |-> <<>>, waits |-> {}]
=============================================================================
