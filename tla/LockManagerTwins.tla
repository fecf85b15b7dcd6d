-------------------------- MODULE LockManagerTwins --------------------------
(***************************************************************************)
(* The nine lock_manager programs of samples/.  Act one: a holder keeps     *)
(* table t1 or its row 1 locked while probes ask for it with NO WAIT,     *)
(* with a timeout and with WAIT, the holder being released meanwhile.  Act *)
(* two: two transactions update one row each, then the other's row.       *)
(***************************************************************************)
EXTENDS Samples

inc == <<"add", 1>>

(* --- setting up table t1 ------------------------------------------------ *)

DropThenCreate ==
  <<StartOp("s1", "a", "snapshot", "wait"), Quiet(DropOp("s1")), CommitOp("s1"),
    StartOp("s2", "a", "snapshot", "wait"), CreateOp("s2"), CommitOp("s2")>>

InsertBoth ==
  <<StartOp("s3", "a", "snapshot", "wait"),
    InsertOp("s3", 1, 0), InsertOp("s3", 2, 0), CommitOp("s3")>>

InsertEach == AutoTx("s3", "a", InsertOp("s3", 1, 0))
           \o AutoTx("s4", "a", InsertOp("s4", 2, 0))

(* --- act one ------------------------------------------------------------ *)

(* One probe by reservation: granted and committed, or refused; commit() is
   inside the try, which then prints "failed" as well. *)
ReserveProbe(t, m, l) ==
  Try(ReserveOp(t, "b", m), l, <<Try(CommitOp(t), l, <<>>, <<>>)>>, <<>>)

ActOne(holder) ==
  <<holder,
    ReserveProbe("p1", "nowait", "NO WAIT"),
    ReserveProbe("p2", "timeout", "LOCK TIMEOUT"),
    SpawnOp("releaser"),
    ReserveProbe("p3", "wait", "WAIT"),
    JoinOp("releaser")>>

(* Mutant: the holder starts an ordinary transaction. *)
ActOneUnreserved == ActOne(StartOp("hold", "a", "snapshot", "wait"))

ReserveActOne == ActOne(ReserveOp("hold", "a", "wait"))

(* --- act two ------------------------------------------------------------ *)

CrossA(free) ==
  <<Try(UpdateOp("ta", 2, inc), "A", <<>>, <<SetOp("aVictim"), free>>)>>

(* Mutants of act two: the victim is rolled back again at the end; the
   survivor commits; B keeps its row after it lost. *)
ActTwoWith(lost, finishA, finishB) ==
  <<StartOp("ta", "a", "snapshot", "wait"), StartOp("tb", "b", "snapshot", "wait"),
    UpdateOp("ta", 1, inc), UpdateOp("tb", 2, inc),
    SpawnOp("crossA"),
    Try(UpdateOp("tb", 1, inc), "B", <<>>, <<SetOp("bVictim")>> \o lost),
    JoinOp("crossA")>> \o finishA \o finishB
ActTwoUnguarded(freeA, freeB) == ActTwoWith(<<freeB>>, <<freeA>>, <<freeB>>)
ActTwoCommits(freeA, freeB) ==
  ActTwoWith(<<freeB>>, <<UnlessOp("aVictim", <<CommitOp("ta")>>)>>,
                        <<UnlessOp("bVictim", <<CommitOp("tb")>>)>>)
ActTwoKeepsRow(freeA, freeB) ==
  ActTwoWith(<<>>, <<UnlessOp("aVictim", <<freeA>>)>>, <<freeB>>)

ActTwo(freeA, freeB) ==
  <<StartOp("ta", "a", "snapshot", "wait"), StartOp("tb", "b", "snapshot", "wait"),
    UpdateOp("ta", 1, inc), UpdateOp("tb", 2, inc),
    SpawnOp("crossA"),
    Try(UpdateOp("tb", 1, inc), "B", <<>>, <<SetOp("bVictim"), freeB>>),
    JoinOp("crossA"),
    UnlessOp("aVictim", <<freeA>>),
    UnlessOp("bVictim", <<freeB>>)>>

Detaches == <<DetachOp("b"), DetachOp("a")>>

(* --- the programs ------------------------------------------------------- *)

(* The releaser's status wrapper does not throw: the commit's error is lost. *)
CppLockManager ==
  [threads |->
     [main |-> <<AttachOp("a"), AttachOp("b")>> \o DropThenCreate \o InsertBoth
               \o ReserveActOne \o ActTwo(RollbackOp("ta"), RollbackOp("tb")) \o Detaches,
      releaser |-> <<Quiet(CommitOp("hold"))>>,
      crossA |-> CrossA(RollbackOp("ta"))],
   stray |-> "terminate", unwind |-> Detaches, waits |-> {}]

FbCppLockManager ==
  [threads |->
     [main |-> <<AttachOp("a"), AttachOp("b")>> \o DropThenCreate \o InsertBoth
               \o ReserveActOne \o ActTwo(RollbackOp("ta"), RollbackOp("tb")) \o Detaches,
      releaser |-> <<CommitOp("hold")>>,
      crossA |-> CrossA(RollbackOp("ta"))],
   stray |-> "terminate", unwind |-> Detaches, waits |-> {}]

ExecImmediate(t, o) == AutoTxWith(t, "a", "read_committed", "nowait", o)

(* Unhandled, an exception ends only its TThread and halts the main program. *)
FpcLockManager ==
  [threads |->
     [main |-> <<AttachOp("a"), AttachOp("b")>>
               \o QuietAutoTx("s1", "a", "read_committed", "nowait", DropOp("s1"))
               \o ExecImmediate("s2", CreateOp("s2"))
               \o ExecImmediate("s3", InsertOp("s3", 1, 0))
               \o ExecImmediate("s4", InsertOp("s4", 2, 0))
               \o ReserveActOne \o ActTwo(RollbackOp("ta"), RollbackOp("tb")),
      releaser |-> <<CommitOp("hold")>>,
      crossA |-> CrossA(RollbackOp("ta"))],
   stray |-> "drop", unwind |-> <<>>, waits |-> {}]

PythonLockManager ==
  [threads |->
     [main |-> <<AttachOp("a"), AttachOp("b")>>
               \o OwnTx("s1", "a", RecreateOp("s1"))
               \o OwnTx("s3", "a", InsertOp("s3", 1, 0))
               \o OwnTx("s4", "a", InsertOp("s4", 2, 0))
               \o ReserveActOne \o ActTwo(RollbackOp("ta"), RollbackOp("tb")) \o Detaches,
      releaser |-> <<CommitOp("hold")>>,
      crossA |-> CrossA(RollbackOp("ta"))],
   stray |-> "drop", unwind |-> Detaches, waits |-> {"return", "exit"}]

(* Both threads catch what they meet. *)
JavaLockManager ==
  [threads |->
     [main |-> <<AttachOp("a"), AttachOp("b")>>
               \o AutoTx("s1", "a", RecreateOp("s1")) \o InsertEach
               \o ReserveActOne \o ActTwo(RollbackOp("ta"), RollbackOp("tb")) \o Detaches,
      releaser |-> <<Quiet(CommitOp("hold"))>>,
      crossA |-> CrossA(Quiet(RollbackOp("ta")))],
   stray |-> "drop", unwind |-> Detaches, waits |-> {"return"}]

(* A Task keeps its exception for Wait(). *)
CSharpLockManager ==
  [threads |->
     [main |-> <<AttachOp("a"), AttachOp("b")>>
               \o AutoTx("s1", "a", RecreateOp("s1")) \o InsertEach
               \o ReserveActOne \o ActTwo(RollbackOp("ta"), RollbackOp("tb")) \o Detaches,
      releaser |-> <<CommitOp("hold")>>,
      crossA |-> CrossA(RollbackOp("ta"))],
   stray |-> "rethrow", unwind |-> Detaches, waits |-> {}]

(* The three drivers without RESERVING contend for row 1 instead. *)
RowHold == <<StartOp("hold", "a", "read_committed", "wait"),
             UpdateOp("hold", 1, <<"set", 100>>)>>

(* One probe by update, in its own transaction: commit, or roll back. *)
RowProbe(t, a, m, l, bad) ==
  <<StartOp(t, a, "read_committed", m),
    Try(UpdateOp(t, 1, inc), l, <<CommitOp(t)>>, <<bad>>)>>

(* commit() is inside the try: its failure is rolled back as well. *)
JsProbe(t, m, l) ==
  <<StartOp(t, "b", "read_committed", m),
    Try(UpdateOp(t, 1, inc), l,
        <<Try(CommitOp(t), l, <<>>, <<RollbackOp(t)>>)>>, <<RollbackOp(t)>>)>>

JsLockManager ==
  [threads |->
     [main |-> <<AttachOp("a"), AttachOp("b")>>
               \o QuietAutoTx("s1", "a", "snapshot", "wait", DropOp("s1"))
               \o AutoTx("s2", "a", CreateOp("s2"))
               \o AutoTx("s3", "a", InsertOp("s3", 1, 0))
               \o RowHold \o JsProbe("p1", "nowait", "NO WAIT")
               \o JsProbe("p2", "timeout", "LOCK TIMEOUT")
               \o <<SpawnOp("releaser")>> \o JsProbe("p3", "wait", "WAIT")
               \o Detaches,
      releaser |-> <<CommitOp("hold")>>],
   stray |-> "exit", unwind |-> <<>>, waits |-> {"return"}]

(* The WAIT probe and B's half of the deadlock run in threads that connect for
   themselves; both sides of the deadlock roll back whatever happened. *)
RustLockManager ==
  [threads |->
     [main |-> <<AttachOp("a"), AttachOp("b"),
                 StartOp("s1", "a", "snapshot", "wait"), Quiet(DropOp("s1")),
                 CreateOp("s1"), CommitOp("s1")>> \o InsertBoth
               \o RowHold
               \o RowProbe("p1", "b", "nowait", "NO WAIT", RollbackOp("p1"))
               \o RowProbe("p2", "b", "timeout", "LOCK TIMEOUT", RollbackOp("p2"))
               \o <<SpawnOp("releaser"), CommitOp("hold"), JoinOp("releaser"),
                    StartOp("ta", "a", "snapshot", "wait"), UpdateOp("ta", 1, inc),
                    SpawnOp("crossA"), AwaitOp("ready", "crossA"),
                    Try(UpdateOp("ta", 2, inc), "A", <<>>, <<>>),
                    RollbackOp("ta"), JoinOp("crossA")>> \o Detaches,
      releaser |-> <<AttachOp("c")>>
                   \o RowProbe("p3", "c", "wait", "WAIT", RollbackOp("p3"))
                   \o <<DetachOp("c")>>,
      crossA |-> <<AttachOp("d"), StartOp("tb", "d", "snapshot", "wait"),
                   UpdateOp("tb", 2, inc), SetOp("ready"),
                   Try(UpdateOp("tb", 1, inc), "B", <<>>, <<>>),
                   RollbackOp("tb"), DetachOp("d")>>],
   stray |-> "rethrow", unwind |-> Detaches, waits |-> {}]

(* The client's 3 s context deadline stands in for LOCK TIMEOUT: the
   transaction itself is WAIT.  fbsample.Check ends the process. *)
DeadlineProbe ==
  <<StartOp("p2", "b", "read_committed", "wait"),
    Try([UpdateOp("p2", 1, inc) EXCEPT !.mode = "timeout"], "LOCK TIMEOUT",
        <<CommitOp("p2")>>, <<Quiet(RollbackOp("p2"))>>)>>

GoLockManager ==
  [threads |->
     [main |-> <<AttachOp("a"), AttachOp("b")>>
               \o AutoTx("s1", "a", RecreateOp("s1")) \o InsertEach
               \o RowHold
               \o RowProbe("p1", "b", "nowait", "NO WAIT", Quiet(RollbackOp("p1")))
               \o DeadlineProbe
               \o <<SpawnOp("releaser")>>
               \o RowProbe("p3", "b", "wait", "WAIT", Quiet(RollbackOp("p3")))
               \o <<JoinOp("releaser")>>
               \o ActTwo(Quiet(RollbackOp("ta")), Quiet(RollbackOp("tb"))) \o Detaches,
      releaser |-> <<CommitOp("hold")>>,
      crossA |-> CrossA(Quiet(RollbackOp("ta")))],
   stray |-> "exit", unwind |-> <<>>, waits |-> {}]
=============================================================================
