------------------------------ MODULE Samples ------------------------------
(***************************************************************************)
(* The sample programs as clients of the engine.  A program is data: each  *)
(* of its threads is a sequence of operations, one per API call, in the    *)
(* order of the source; catch blocks and conditionals are operations that  *)
(* carry the code they guard.  This module runs a program: one action per  *)
(* API operation, interleaved with the other threads, with the server's    *)
(* lock waits and deadlock scan, and with connections that may break.      *)
(* The programs themselves are in the ...Twins modules.                    *)
(***************************************************************************)
EXTENDS Engine

CONSTANTS Threads,    \* thread names; "main" is the program's main thread
          Programs,   \* [name -> program]: the programs a run checks
          Labels,     \* names under which a program prints a result
          Flags,      \* boolean variables shared between threads
          MaxFaults   \* how many connections may break

ASSUME SamplesAssumption == "main" \in Threads /\ MaxFaults \in Nat

-----------------------------------------------------------------------------
(* Operations.  then: what follows when the call succeeds; else: the catch
   block; caught: is there a catch block?  lab: the name its result gets. *)

Call == [op |-> "", tx |-> "", att |-> "", row |-> 0, fn |-> <<"set", 0>>,
         iso |-> "snapshot", mode |-> "", lab |-> "", caught |-> FALSE,
         then |-> <<>>, else |-> <<>>]

AttachOp(a) == [Call EXCEPT !.op = "attach", !.att = a]
DetachOp(a) == [Call EXCEPT !.op = "detach", !.att = a]

(* mode is the lock resolution: "wait", "nowait" or "timeout". *)
StartOp(t, a, i, m) ==
  [Call EXCEPT !.op = "start", !.tx = t, !.att = a, !.iso = i, !.mode = m]
ReserveOp(t, a, m) ==
  [Call EXCEPT !.op = "reserve", !.tx = t, !.att = a, !.mode = m]

DropOp(t)      == [Call EXCEPT !.op = "drop", !.tx = t]
CreateOp(t)    == [Call EXCEPT !.op = "create", !.tx = t]
RecreateOp(t)  == [Call EXCEPT !.op = "recreate", !.tx = t]
InsertOp(t, r, v) ==
  [Call EXCEPT !.op = "insert", !.tx = t, !.row = r, !.fn = <<"set", v>>]
UpdateOp(t, r, f) ==
  [Call EXCEPT !.op = "update", !.tx = t, !.row = r, !.fn = f]
ReadOp(t, r, l) ==
  [Call EXCEPT !.op = "read", !.tx = t, !.row = r, !.lab = l]
CommitOp(t)    == [Call EXCEPT !.op = "commit", !.tx = t]
RollbackOp(t)  == [Call EXCEPT !.op = "rollback", !.tx = t]

SpawnOp(th)    == [Call EXCEPT !.op = "spawn", !.att = th]
JoinOp(th)     == [Call EXCEPT !.op = "join", !.att = th]
SetOp(f)       == [Call EXCEPT !.op = "set", !.att = f]
AwaitOp(f, th) == [Call EXCEPT !.op = "await", !.att = f, !.tx = th]
UnlessOp(f, ops) == [Call EXCEPT !.op = "unless", !.att = f, !.then = ops]
RaiseOp        == [Call EXCEPT !.op = "raise"]
ExitOp         == [Call EXCEPT !.op = "exit"]

(* try { o; ok } catch { bad }, printing the outcome under label l. *)
Try(o, l, ok, bad) ==
  [o EXCEPT !.caught = TRUE, !.then = ok, !.else = bad, !.lab = l]

(* try { o } catch { } *)
Quiet(o) == [o EXCEPT !.caught = TRUE]

(* A statement in a transaction the program itself starts and commits. *)
OwnTx(t, a, o) == <<StartOp(t, a, "snapshot", "wait"), o, CommitOp(t)>>

(* A statement in a transaction of its own; the driver rolls it back when the
   statement fails, and hands the error on. *)
AutoTxWith(t, a, i, m, o) ==
  <<StartOp(t, a, i, m), Try(o, "", <<CommitOp(t)>>, <<RollbackOp(t), RaiseOp>>)>>
AutoTx(t, a, o) == AutoTxWith(t, a, "snapshot", "wait", o)

(* The same in a try with an empty handler, which covers the start, the commit
   and the driver's rollback as well. *)
QuietAutoTx(t, a, i, m, o) ==
  <<Try(StartOp(t, a, i, m), "",
        <<Try(o, "", <<Quiet(CommitOp(t))>>, <<Quiet(RollbackOp(t))>>)>>, <<>>)>>

-----------------------------------------------------------------------------
VARIABLES
  prog,     \* the name of the program being run (never changes)
  code,     \* [Threads -> what the thread has still to do]
  born,     \* threads that have been started
  joined,   \* threads another thread has joined
  stray,    \* threads an uncaught error ended
  proc,     \* "running", then how the process ended
  handle,   \* [Tx -> {"none", "open", "closed"}]: the client's object
  lck,      \* [Tx -> lock resolution of the transaction]
  flags,    \* the flags that are true
  outcome,  \* [Labels -> {"-", "ok", "failed"}]: printed results of calls
  seen,     \* [Labels -> values read]
  faults    \* connections broken so far

pvars == <<born, joined, handle, lck, flags, outcome, seen, faults>>
vars  == <<evars, prog, code, stray, proc, pvars>>

(* threads: [thread -> operations]; stray: what an error no handler catches
   does to a thread; unwind: what main's cleanup does on the way to exit(1);
   waits: the ways of ending the process that first wait for its threads. *)
Prog == Programs[prog]

LockModes == {"wait", "nowait", "timeout"}

TypeOK ==
  /\ EngineTypeOK
  /\ prog \in DOMAIN Programs
  /\ DOMAIN code = Threads
  /\ {"main"} \subseteq born /\ born \subseteq Threads
  /\ joined \subseteq born /\ stray \subseteq born
  /\ proc \in {"running", "done", "failed", "aborted"}
  /\ handle \in [Tx -> {"none", "open", "closed"}]
  /\ lck \in [Tx -> LockModes]
  /\ flags \subseteq Flags
  /\ outcome \in [Labels -> {"-", "ok", "failed"}]
  /\ seen \in [Labels -> SUBSET Val]
  /\ faults \in 0..MaxFaults

Init ==
  /\ EngineInit
  /\ prog \in DOMAIN Programs
  /\ code = [th \in Threads |-> IF th \in DOMAIN Prog.threads
                                THEN Prog.threads[th] ELSE <<>>]
  /\ born = {"main"} /\ joined = {} /\ stray = {}
  /\ proc = "running"
  /\ handle = [t \in Tx |-> "none"]
  /\ lck = [t \in Tx |-> "wait"]
  /\ flags = {}
  /\ outcome = [l \in Labels |-> "-"]
  /\ seen = [l \in Labels |-> {}]
  /\ faults = 0

-----------------------------------------------------------------------------
(* Control *)

Runs(th) == proc = "running" /\ th \in born /\ code[th] # <<>>
At(th, kind) == Runs(th) /\ Head(code[th]).op = kind
Op(th) == Head(code[th])

Result(th, what) ==
  outcome' = IF Op(th).lab \in Labels
             THEN [outcome EXCEPT ![Op(th).lab] = what] ELSE outcome

Goes(th) == /\ code' = [code EXCEPT ![th] = Op(th).then \o Tail(@)]
            /\ UNCHANGED <<prog, stray, proc>>

Succeeds(th) == Goes(th) /\ Result(th, "ok")

(* C++: unwinding past a std::thread that was not joined, or an exception
   leaving a thread's function, is std::terminate. *)
Unjoined == born \ ({"main"} \cup joined)

UncaughtInMain ==
  IF Prog.stray = "terminate" /\ Unjoined # {}
  THEN proc' = "aborted" /\ UNCHANGED <<code, stray>>
  ELSE /\ code' = [code EXCEPT !["main"] = Append(Prog.unwind, ExitOp)]
       /\ UNCHANGED <<stray, proc>>

(* "terminate": std::terminate; "exit": the handler ends the process;
   "drop": only the thread ends; "rethrow": join() raises it again. *)
UncaughtInThread(th) ==
  /\ stray' = stray \cup {th}
  /\ code' = [code EXCEPT ![th] = <<>>]
  /\ proc' = CASE Prog.stray = "terminate" -> "aborted"
               [] Prog.stray = "exit"      -> "failed"
               [] OTHER                    -> proc

Throws(th) ==
  /\ UNCHANGED prog
  /\ IF Op(th).caught
     THEN /\ code' = [code EXCEPT ![th] = Op(th).else \o Tail(@)]
          /\ UNCHANGED <<stray, proc>>
          /\ Result(th, "failed")
     ELSE /\ UNCHANGED outcome
          /\ IF th = "main" THEN UncaughtInMain ELSE UncaughtInThread(th)

-----------------------------------------------------------------------------
(* Lock waits: a call that must wait stays at the head of its thread. *)

TxCalls == {"drop", "create", "recreate", "insert", "update", "read", "commit", "rollback"}

Usable(t) == conn[owner[t]] = "open"

Blockers(th) ==
  LET o == Op(th)
  IN  CASE o.op = "reserve" /\ conn[o.att] = "open" -> RelBlockers(o.tx, "EX")
        [] o.op \in {"insert", "update"} /\ Usable(o.tx) /\ tbl
                                          -> WriteBlockers(o.tx, o.row)
        [] OTHER -> {}

Waits(th) == Runs(th) /\ Blockers(th) # {}

LockMode(th) == IF Op(th).mode # "" THEN Op(th).mode ELSE lck[Op(th).tx]

(* Thread th waits in a cycle of waits: in some set of waiting threads every
   member waits for a transaction that another member is using. *)
InCycle(th) ==
  \E S \in SUBSET {u \in Threads : Waits(u)} :
    /\ th \in S
    /\ \A u \in S : /\ \E w \in S : Op(w).tx \in Blockers(u)
                    /\ \E w \in S : Op(u).tx \in Blockers(w)

-----------------------------------------------------------------------------
(* One action per operation. *)

DoAttach(th) ==
  /\ At(th, "attach")
  /\ \E a \in Att : a = Op(th).att /\ Attach(a)
  /\ Succeeds(th)
  /\ UNCHANGED <<born, joined, handle, lck, flags, seen, faults>>

(* The server cannot be reached: counted as a fault like a broken link. *)
DoAttachRefused(th) ==
  /\ At(th, "attach") /\ faults < MaxFaults
  /\ faults' = faults + 1
  /\ Throws(th)
  /\ UNCHANGED <<evars, born, joined, handle, lck, flags, seen>>

DoDetach(th) ==
  /\ At(th, "detach")
  /\ \/ \E a \in Att : a = Op(th).att /\ Disconnect(a, "closed")
     \/ conn[Op(th).att] # "open" /\ UNCHANGED evars
  /\ Succeeds(th)
  /\ UNCHANGED <<born, joined, handle, lck, flags, seen, faults>>

DoStart(th) ==
  /\ Runs(th) /\ Op(th).op \in {"start", "reserve"}
  /\ \E t \in Tx, a \in Att, i \in Isolation :
       /\ t = Op(th).tx /\ a = Op(th).att /\ i = Op(th).iso
       /\ Start(t, a, i, IF Op(th).op = "reserve" THEN "EX" ELSE "none")
       /\ handle' = [handle EXCEPT ![t] = "open"]
       /\ lck' = [lck EXCEPT ![t] = Op(th).mode]
  /\ Succeeds(th)
  /\ UNCHANGED <<born, joined, flags, seen, faults>>

Apply(f, old) == IF f[1] = "set" THEN f[2]
                 ELSE (CHOOSE v \in old : TRUE) + f[2]

(* A row the transaction does not see is not updated; the call succeeds. *)
DoWrite(th) ==
  /\ Runs(th) /\ Op(th).op \in {"insert", "update"}
  /\ \E t \in Tx, r \in Row :
       /\ t = Op(th).tx /\ r = Op(th).row
       /\ IF Op(th).op = "insert" \/ Read(t, r) # {}
          THEN \E v \in Val : v = Apply(Op(th).fn, Read(t, r)) /\ Write(t, r, v)
          ELSE state[t] = "active" /\ tbl /\ UNCHANGED evars
  /\ Succeeds(th)
  /\ UNCHANGED <<born, joined, handle, lck, flags, seen, faults>>

DoRead(th) ==
  /\ At(th, "read")
  /\ LET t == Op(th).tx IN
       /\ state[t] = "active" /\ tbl
       /\ seen' = [seen EXCEPT ![Op(th).lab] = Read(t, Op(th).row)]
  /\ Goes(th)
  /\ UNCHANGED <<evars, born, joined, handle, lck, flags, outcome, faults>>

DdlOps == {"drop", "create", "recreate"}

DdlFails(o) == \/ o.op = "drop" /\ ~tbl
               \/ o.op = "create" /\ tbl /\ pend[o.tx] # "drop"

DoDdl(th) ==
  /\ Runs(th) /\ Op(th).op \in DdlOps
  /\ ~DdlFails(Op(th))
  /\ \E t \in Tx :
       /\ t = Op(th).tx
       /\ Define(t, IF Op(th).op = "drop" THEN "drop" ELSE "create")
  /\ Succeeds(th)
  /\ UNCHANGED <<born, joined, handle, lck, flags, seen, faults>>

DoCommit(th) ==
  /\ At(th, "commit")
  /\ \E t \in Tx : /\ t = Op(th).tx /\ Commit(t)
                   /\ handle' = [handle EXCEPT ![t] = "closed"]
  /\ Succeeds(th)
  /\ UNCHANGED <<born, joined, lck, flags, seen, faults>>

(* On a broken connection rollback has nothing left to do; some drivers
   report that as an error, others do not. *)
DoRollback(th) ==
  /\ At(th, "rollback")
  /\ \E t \in Tx : /\ t = Op(th).tx
                   /\ \/ Rollback(t)
                      \/ ~Usable(t) /\ UNCHANGED evars
                   /\ handle' = [handle EXCEPT ![t] = "closed"]
  /\ Succeeds(th)
  /\ UNCHANGED <<born, joined, lck, flags, seen, faults>>

(* The engine's own errors: a statement that cannot be done, a lock that is
   denied, timed out or broken to resolve a deadlock, and any call on a
   connection that is gone. *)
StatementFails(th) ==
  LET o == Op(th)
  IN  \/ DdlFails(o)
      \/ o.op \in {"insert", "update", "read"} /\ ~tbl
      \/ o.op = "update" /\ Blockers(th) = {} /\ UpdateConflict(o.tx, o.row)
      \/ o.op = "commit" /\ DdlInUse(o.tx)

DoFailStatement(th) ==
  /\ Runs(th) /\ Op(th).op \in TxCalls
  /\ Usable(Op(th).tx) /\ StatementFails(th)
  /\ Throws(th)
  /\ UNCHANGED <<evars, born, joined, handle, lck, flags, seen, faults>>

DoFailLost(th) ==
  /\ Runs(th)
  /\ \/ Op(th).op \in TxCalls /\ ~Usable(Op(th).tx)
     \/ Op(th).op \in {"start", "reserve"} /\ conn[Op(th).att] # "open"
  /\ Throws(th)
  /\ UNCHANGED <<evars, born, joined, handle, lck, flags, seen, faults>>

DoLockDenied(th) ==
  /\ Waits(th)
  /\ \/ LockMode(th) \in {"nowait", "timeout"}
     \/ InCycle(th)
  /\ Throws(th)
  /\ UNCHANGED <<evars, born, joined, handle, lck, flags, seen, faults>>

DoSpawn(th) ==
  /\ At(th, "spawn")
  /\ born' = born \cup {Op(th).att}
  /\ Succeeds(th)
  /\ UNCHANGED <<evars, joined, handle, lck, flags, seen, faults>>

Finished(th) == th \in born /\ code[th] = <<>>

DoJoin(th) ==
  /\ At(th, "join")
  /\ Finished(Op(th).att)
  /\ joined' = joined \cup {Op(th).att}
  /\ IF Op(th).att \in stray /\ Prog.stray = "rethrow"
     THEN Throws(th) ELSE Succeeds(th)
  /\ UNCHANGED <<evars, born, handle, lck, flags, seen, faults>>

DoSet(th) ==
  /\ At(th, "set")
  /\ flags' = flags \cup {Op(th).att}
  /\ Succeeds(th)
  /\ UNCHANGED <<evars, born, joined, handle, lck, seen, faults>>

(* Receive from a channel: the message is there, or its sender is gone. *)
DoAwait(th) ==
  /\ At(th, "await")
  /\ \/ Op(th).att \in flags /\ Succeeds(th)
     \/ Op(th).att \notin flags /\ Finished(Op(th).tx) /\ Throws(th)
  /\ UNCHANGED <<evars, born, joined, handle, lck, flags, seen, faults>>

DoUnless(th) ==
  /\ At(th, "unless")
  /\ code' = [code EXCEPT ![th] = IF Op(th).att \in flags THEN Tail(@)
                                  ELSE Op(th).then \o Tail(@)]
  /\ UNCHANGED <<evars, prog, stray, proc, pvars>>

DoRaise(th) ==
  /\ At(th, "raise")
  /\ Throws(th)
  /\ UNCHANGED <<evars, born, joined, handle, lck, flags, seen, faults>>

AllFinished(how) ==
  how \in Prog.waits => \A th \in born \ {"main"} : Finished(th)

DoExit(th) ==
  /\ At(th, "exit")
  /\ AllFinished("exit")
  /\ proc' = "failed"
  /\ UNCHANGED <<evars, prog, code, stray, pvars>>

(* main returned; where the runtime waits for other threads, they are done. *)
MainReturns ==
  /\ proc = "running" /\ Finished("main")
  /\ AllFinished("return")
  /\ proc' = IF Prog.stray = "terminate" /\ Unjoined # {}
             THEN "aborted" ELSE "done"
  /\ UNCHANGED <<evars, prog, code, stray, pvars>>

(* A connection breaks, or the server notices the process is gone. *)
ConnectionLost(a) ==
  /\ Disconnect(a, "lost")
  /\ \/ /\ proc = "running" /\ faults < MaxFaults
        /\ faults' = faults + 1
     \/ /\ proc # "running"
        /\ UNCHANGED faults
  /\ UNCHANGED <<prog, code, stray, proc, born, joined, handle, lck, flags,
                 outcome, seen>>

Over == proc # "running" /\ \A a \in Att : conn[a] # "open"
Terminating == Over /\ UNCHANGED vars

Step(th) ==
  \/ DoAttach(th) \/ DoAttachRefused(th) \/ DoDetach(th)
  \/ DoStart(th) \/ DoWrite(th) \/ DoRead(th) \/ DoDdl(th)
  \/ DoCommit(th) \/ DoRollback(th)
  \/ DoFailStatement(th) \/ DoFailLost(th) \/ DoLockDenied(th)
  \/ DoSpawn(th) \/ DoJoin(th) \/ DoSet(th) \/ DoAwait(th) \/ DoUnless(th)
  \/ DoRaise(th) \/ DoExit(th)

Next ==
  \/ \E th \in Threads : Step(th)
  \/ MainReturns
  \/ \E a \in Att : ConnectionLost(a)
  \/ Terminating

Spec == Init /\ [][Next]_vars

(* The operating system runs every thread that can run, the engine scans for
   deadlocks periodically, and it notices the connections of a dead process. *)
Fairness ==
  /\ \A th \in Threads : WF_vars(Step(th))
  /\ WF_vars(MainReturns)
  /\ \A a \in Att : WF_vars(proc # "running" /\ ConnectionLost(a))

FairSpec == Spec /\ Fairness

-----------------------------------------------------------------------------
(* Properties every program must have. *)

(* No thread is about to use a transaction object that was never started or
   that some thread has already committed or rolled back: what the samples'
   victim flags and joins have to ensure in every interleaving, since the
   object is gone after commit() or rollback(). *)
NoUseAfterEnd ==
  \A th \in Threads :
    Runs(th) /\ Op(th).op \in TxCalls => handle[Op(th).tx] = "open"

(* The state keeps its types, and no thread uses a transaction after its end. *)
SamplesInv == TypeOK /\ NoUseAfterEnd

(* Whatever locks are contended, and whichever connection breaks, the process
   ends: no thread waits for ever for a lock, a thread or a channel. *)
Terminates == <>(proc # "running")
=============================================================================
