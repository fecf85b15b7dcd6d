------------------------------ MODULE MCSamples ------------------------------
(* The lock_manager, transactions and threading programs, checked together. *)
EXTENDS LockManagerTwins, TransactionsTwins, ThreadingTwins

MCPrograms ==
  [lock_cpp |-> CppLockManager, lock_fbcpp |-> FbCppLockManager,
   lock_fpc |-> FpcLockManager, lock_python |-> PythonLockManager,
   lock_java |-> JavaLockManager, lock_csharp |-> CSharpLockManager,
   lock_js |-> JsLockManager, lock_rust |-> RustLockManager,
   lock_go |-> GoLockManager,
   tx_cpp |-> CppTransactions, tx_fbcpp |-> FbCppTransactions,
   tx_python |-> PythonTransactions, tx_java |-> JavaTransactions,
   tx_csharp |-> CSharpTransactions, tx_fpc |-> FpcTransactions,
   tx_rust |-> RustTransactions, tx_js |-> JsTransactions, tx_go |-> GoTransactions,
   threading_cpp |-> CppThreading, threading_fbcpp |-> FbCppThreading]

LockManagers == {"lock_cpp", "lock_fbcpp", "lock_fpc", "lock_python", "lock_java",
                 "lock_csharp", "lock_js", "lock_rust", "lock_go"}
Threadings == {"threading_cpp", "threading_fbcpp"}
Transactions == DOMAIN MCPrograms \ (LockManagers \cup Threadings)

MCTx == {"s1", "s2", "s3", "s4", "hold", "p1", "p2", "p3", "ta", "tb",
         "txB", "snap", "rc", "loser", "q1", "q2", "q3", "w1", "w2"}
MCAtt == {"a", "b", "c", "d"}
MCThreads == {"main", "releaser", "crossA", "race", "w1", "w2"}
MCLabels == {"NO WAIT", "LOCK TIMEOUT", "WAIT", "A", "B",
             "snap1", "snap2", "rc", "conflict", "rows"}
MCFlags == {"aVictim", "bVictim", "ready"}

(* What the programs write - 0, 100, 150, 999 - and what one or two more
   updates by any of their transactions would make of it. *)
MCVal == (0..3) \cup (100..103) \cup {110, 111, 150, 151, 152, 153, 999, 1000, 1009, 1010}

Undisturbed == faults = 0
DoneUndisturbed(S) == proc = "done" /\ Undisturbed /\ prog \in S

Outcomes(L) == {outcome[l] : l \in L}

(* The ladder the lock_manager samples set out to show: without a broken
   connection the NO WAIT and the LOCK TIMEOUT probe are refused, and the WAIT
   probe is granted, in no order of the releaser's commit and the probe; and
   it is granted only once the holder has let go. *)
ProbeLadder ==
  /\ Undisturbed =>
       /\ Outcomes({"NO WAIT", "LOCK TIMEOUT"}) \subseteq {"-", "failed"}
       /\ outcome["WAIT"] \in {"-", "ok"}
  /\ outcome["WAIT"] = "ok" => state["hold"] # "active"
  /\ DoneUndisturbed(LockManagers) => outcome["WAIT"] = "ok"

(* lock_manager, act two.  The cycle is broken at one side only: the engine
   never fails both updates, and the survivor proceeds only after the victim's
   rollback.  A program that ends normally has seen exactly one update fail
   and left nothing behind of it: t1 holds what act one committed. *)
OneVictim ==
  Undisturbed =>
    /\ ~(outcome["A"] = "failed" /\ outcome["B"] = "failed")
    /\ outcome["B"] = "ok" => outcome["A"] = "failed" /\ state["ta"] = "dead"
    /\ outcome["A"] = "ok" => outcome["B"] = "failed" /\ state["tb"] = "dead"
    /\ DoneUndisturbed(LockManagers \ {"lock_js"}) =>
         {outcome["A"], outcome["B"]} = {"ok", "failed"}
    /\ DoneUndisturbed(LockManagers) =>
         /\ Active = {}
         /\ \A r \in Row : ver[r] # <<>> =>
              Top(r).val = IF r = 1 /\ prog \in {"lock_js", "lock_rust", "lock_go"}
                           THEN 101 ELSE 0

BCommits == IF prog \in {"tx_fpc", "tx_rust"} THEN 150 ELSE 999

(* What the lines the transactions samples print claim: both reads of the
   SNAPSHOT give the amount it started with although b's update was committed
   between them, and READ COMMITTED gives b's. *)
IsolationShown ==
  /\ seen["snap1"] \subseteq {100}
  /\ seen["snap2"] # {} => seen["snap2"] = {100} /\ state["txB"] = "committed"
  /\ seen["rc"] # {} => seen["rc"] = {BCommits}

(* "failed as designed", in every order of the loser's update and the holder's
   commit: whether the loser finds the row locked, waits for it, or comes
   after the commit, its update does not succeed, and a transactions program
   that ends normally leaves the winner's update, once, and nothing of the
   loser's. *)
LoserLoses ==
  /\ Undisturbed => outcome["conflict"] # "ok"
  /\ DoneUndisturbed(Transactions) =>
       /\ outcome["conflict"] = "failed"
       /\ Top(1) = [by |-> "hold", val |-> BCommits + 1]
       /\ Active = {}

RowLockers == {"lock_js", "lock_rust", "lock_go"}

(* What exit status 0 means when connections break on the way (the catch blocks
   of the samples take any error for the one they demonstrate): no error of a
   thread was swallowed, except where the runtime ends the thread alone (Free
   Pascal, Python); a transactions program has made and seen every
   commit it prints; a threading program has had all its workers; and of act two
   of lock_manager nothing is left, nor of a probe that was not granted. *)
SuccessIsWhole ==
  proc = "done" =>
    /\ stray # {} => Prog.stray = "drop"
    /\ prog \in Transactions =>
         /\ outcome["conflict"] = "failed"
         /\ Top(1) = [by |-> "hold", val |-> BCommits + 1]
         /\ seen["snap1"] = {100} /\ seen["snap2"] = {100} /\ seen["rc"] = {BCommits}
    /\ prog \in Threadings => {"w1", "w2"} \subseteq joined /\ seen["rows"] # {}
    /\ prog \in LockManagers =>
         /\ \A r \in Row : ver[r] # <<>> =>
              Top(r).val \in IF r = 1 /\ prog \in RowLockers THEN {100, 101} ELSE {0}
         /\ prog \in RowLockers => (outcome["WAIT"] = "ok" <=> Top(1).val = 101)

(* threading, "after they detach": main's last query runs when every worker
   has read t and its attachment is gone, in every order of their attaches. *)
LastCensusIsAlone ==
  prog \in Threadings /\ state["q3"] # "none" =>
    /\ conn["c"] # "open" /\ conn["d"] # "open"
    /\ state["w1"] = "committed" /\ state["w2"] = "committed"

(* cpp/fb_sample.h:243-244 about report(): "Format and print an FbException,
   return an exit code - so every sample's main() can end with
   } catch (...) { return fbsample::report(...); }".  For lock_manager.cpp and
   threading.cpp: an error of the API ends the program by that handler, not by
   std::terminate. *)
CppErrorsReported == prog \in {"lock_cpp", "threading_cpp"} => proc # "aborted"
=============================================================================
