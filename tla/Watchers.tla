----------------------------- MODULE Watchers -----------------------------
(***************************************************************************)
(* parallel_workers and sorting: while main runs one long statement, a     *)
(* second thread with an attachment of its own polls the server, keeps the *)
(* largest value it has seen, and stops on a flag.                         *)
(*                                                                         *)
(* level is what there is to see on the server: the <Worker> attachments   *)
(* of a parallel index build, or the scratch files of a sort.  The poller  *)
(* of parallel_workers also lists the attachments (roster) at the widest   *)
(* moment, in the transaction of the count: one frozen MON$ snapshot.      *)
(*                                                                         *)
(* Any API call may fail.  An exception that leaves a thread function, and *)
(* one that unwinds main past a std::thread not yet joined, ends the       *)
(* process by std::terminate; any other one ends in report and exit 1.     *)
(***************************************************************************)
EXTENDS Naturals, Sequences

CONSTANTS Programs,     \* records like ParallelWorkers below
          MaxFaults     \* API calls that fail

\* catches: the thread function has a handler; pooled: what was to be seen is
\* still there after the statement; cases: level at the height of each statement
Watching(name, catches, pooled, cases) ==
  [name |-> name, catches |-> catches, pooled |-> pooled, cases |-> cases]

ParallelWorkers == Watching("parallel_workers", TRUE, TRUE, <<4>>)
FbParallelWorkers == Watching("fb-cpp parallel_workers", TRUE, TRUE, <<4>>)
Sorting == Watching("sorting", FALSE, FALSE, <<2, 0>>)
FbSorting == Watching("fb-cpp sorting", FALSE, FALSE, <<2, 0>>)
AllPrograms == {ParallelWorkers, FbParallelWorkers, Sorting, FbSorting}

\* Any heights will do, as long as what a statement leaves in the pool is not
\* there to be seen during another one
ASSUME WatchersAssumption ==
  /\ Programs \subseteq [name : STRING, catches : BOOLEAN, pooled : BOOLEAN,
                         cases : Seq(Nat) \ {<<>>}]
  /\ \A p \in Programs : p.pooled => Len(p.cases) = 1
  /\ MaxFaults \in Nat

VARIABLES prog,
          status,    \* "running", "ok", "failed" (exit 1), "terminated"
          main,      \* what main does next
          case,      \* which of prog.cases
          level,     \* what a poll of the server would see now
          stop,      \* the atomic flag
          joinable,  \* a std::thread owns the poller
          poller,    \* what the poller does next
          n,         \* its count of this round
          maxSeen,   \* the largest count so far
          roster,    \* the list made for it (its length)
          shown,     \* what main has printed, per case
          culprit,   \* the thread whose call failed last
          lost,      \* the calls of the poller that failed
          faults
mainVars == <<main, case, level, stop, joinable, shown>>
pollVars == <<poller, n, maxSeen, roster>>
vars == <<prog, status, mainVars, pollVars, culprit, lost, faults>>

-----------------------------------------------------------------------------
(* main *)

Running == status = "running"
MainAt(p) == Running /\ main = p

\* Attach, build the table, commit: no thread exists yet
Prepare ==
  /\ MainAt("prepare") /\ main' = "spawn"
  /\ UNCHANGED <<prog, status, case, level, stop, joinable, shown, pollVars, culprit, lost, faults>>

\* Mutant: the maxima of the last statement are kept
SpawnStale ==
  /\ MainAt("spawn") /\ main' = "execute"
  /\ stop' = FALSE /\ joinable' = TRUE /\ poller' = "attach"
  /\ UNCHANGED <<prog, status, case, level, shown, n, maxSeen, roster, culprit, lost, faults>>
Spawn ==
  /\ MainAt("spawn") /\ main' = "execute"
  /\ maxSeen' = 0 /\ roster' = 0
  /\ stop' = FALSE /\ joinable' = TRUE /\ poller' = "attach"
  /\ UNCHANGED <<prog, status, case, level, shown, n, culprit, lost, faults>>

\* The long statement: what there is to see appears, one at a time, and goes
Execute ==
  /\ MainAt("execute")
  /\ \/ level < prog.cases[case] /\ level' = level + 1 /\ UNCHANGED main
     \/ level = prog.cases[case] /\ main' = "stop"
        /\ level' = IF prog.pooled THEN level ELSE 0
  /\ UNCHANGED <<prog, status, case, stop, joinable, shown, pollVars, culprit, lost, faults>>

\* Mutant: the flag is not set
StopNot ==
  /\ MainAt("stop") /\ main' = "join"
  /\ UNCHANGED <<prog, status, case, level, stop, joinable, shown, pollVars, culprit, lost, faults>>
Stop ==
  /\ MainAt("stop") /\ main' = "join" /\ stop' = TRUE
  /\ UNCHANGED <<prog, status, case, level, joinable, shown, pollVars, culprit, lost, faults>>

\* Mutant: detach() instead of join()
JoinNot ==
  /\ MainAt("join") /\ main' = "report" /\ joinable' = FALSE
  /\ UNCHANGED <<prog, status, case, level, stop, shown, pollVars, culprit, lost, faults>>
Join ==
  /\ MainAt("join") /\ poller = "done"
  /\ main' = "report" /\ joinable' = FALSE
  /\ UNCHANGED <<prog, status, case, level, stop, shown, pollVars, culprit, lost, faults>>

Report ==
  /\ MainAt("report")
  /\ shown' = Append(shown, [max |-> maxSeen, roster |-> roster])
  /\ IF case < Len(prog.cases)
     THEN case' = case + 1 /\ main' = "spawn"
     ELSE main' = "leave" /\ UNCHANGED case
  /\ UNCHANGED <<prog, status, level, stop, joinable, pollVars, culprit, lost, faults>>

\* The last query or the detach, and return 0
Leave ==
  /\ MainAt("leave") /\ status' = "ok"
  /\ UNCHANGED <<prog, mainVars, pollVars, culprit, lost, faults>>

-----------------------------------------------------------------------------
(* The poller *)

PollerAt(p) == Running /\ poller = p
PollerGoes(p) == poller' = p /\ UNCHANGED <<prog, status, mainVars, culprit, lost, faults>>

PollerAttach ==
  PollerAt("attach") /\ PollerGoes("test") /\ UNCHANGED <<n, maxSeen, roster>>

\* while (!stop): a fresh transaction, hence a fresh MON$ snapshot, each round
PollerCount ==
  /\ PollerAt("test") /\ ~stop
  /\ n' = level /\ PollerGoes("compare") /\ UNCHANGED <<maxSeen, roster>>

PollerCompare ==
  /\ PollerAt("compare")
  /\ IF n > maxSeen
     THEN maxSeen' = n /\ roster' = 0 /\ PollerGoes(IF prog.catches THEN "list" ELSE "commit")
     ELSE PollerGoes("commit") /\ UNCHANGED <<maxSeen, roster>>
  /\ UNCHANGED n

PollerList ==
  PollerAt("list") /\ roster' = n /\ PollerGoes("commit") /\ UNCHANGED <<n, maxSeen>>

PollerCommit ==
  PollerAt("commit") /\ PollerGoes("test") /\ UNCHANGED <<n, maxSeen, roster>>

\* Leaving the loop detaches: explicitly in sorting.cpp, else by destructor
PollerLeave ==
  /\ PollerAt("test") /\ stop /\ PollerGoes("done") /\ UNCHANGED <<n, maxSeen, roster>>

-----------------------------------------------------------------------------
(* Failures *)

\* Unwinding main destroys the std::thread
MainFails ==
  /\ Running /\ main \in {"prepare", "execute", "leave"} /\ faults < MaxFaults
  /\ faults' = faults + 1 /\ culprit' = "main"
  /\ status' = IF joinable THEN "terminated" ELSE "failed"
  /\ UNCHANGED <<prog, mainVars, pollVars, lost>>

\* The state an uncaught or a caught exception of the poller leaves
PollerThrows ==
  IF prog.catches THEN poller' = "done" /\ UNCHANGED status
                  ELSE status' = "terminated" /\ UNCHANGED poller

PollerFails ==
  /\ Running /\ poller \in {"attach", "test", "list", "commit"} /\ faults < MaxFaults
  /\ faults' = faults + 1 /\ culprit' = "poller" /\ lost' = lost \cup {poller}
  /\ PollerThrows
  /\ UNCHANGED <<prog, mainVars, n, maxSeen, roster>>

-----------------------------------------------------------------------------
Init ==
  /\ prog \in Programs /\ status = "running" /\ main = "prepare" /\ case = 1
  /\ level = 0 /\ stop = FALSE /\ joinable = FALSE
  /\ poller = "done" /\ n = 0 /\ maxSeen = 0 /\ roster = 0
  /\ shown = <<>> /\ culprit = "none" /\ lost = {} /\ faults = 0

Main == Prepare \/ Spawn \/ Execute \/ Stop \/ Join \/ Report \/ Leave
Poller == PollerAttach \/ PollerCount \/ PollerCompare \/ PollerList
          \/ PollerCommit \/ PollerLeave
Next == Main \/ Poller \/ MainFails \/ PollerFails

\* The scheduler runs both threads; nothing makes a call fail
Spec == Init /\ [][Next]_vars /\ WF_vars(Main) /\ WF_vars(Poller)

-----------------------------------------------------------------------------
(* Properties *)

FlagsOK ==
  /\ stop \in BOOLEAN /\ joinable \in BOOLEAN
  /\ joinable <=> main \in {"execute", "stop", "join"}

TypeOK ==
  /\ prog \in Programs /\ status \in {"running", "ok", "failed", "terminated"}
  /\ main \in {"prepare", "spawn", "execute", "stop", "join", "report", "leave"}
  /\ poller \in {"attach", "test", "compare", "list", "commit", "done"}
  /\ case \in DOMAIN prog.cases /\ level \in 0..prog.cases[case]
  /\ n \in Nat /\ maxSeen \in Nat /\ roster \in Nat
  /\ shown \in Seq([max : Nat, roster : Nat])
  /\ FlagsOK
  /\ culprit \in {"none", "main", "poller"}
  /\ lost \subseteq {"attach", "test", "list", "commit"} /\ faults \in 0..MaxFaults

\* roster is a plain std::string written by the poller: main reads it only when
\* the poller has returned.
NoConcurrentAccess == Running /\ main = "report" => poller = "done"

\* What is printed for a statement was measured during it: the small sort never
\* shows the scratch files of the big one, and the list printed under
\* "MON$ATTACHMENTS at the widest moment" belongs to the maximum printed.  The one
\* exception is the failure of the very call that makes the list, which leaves
\* the list empty under the new maximum; no other failure, of the poller or of
\* main, parts the two.
ShownIsOfItsCase ==
  \A k \in DOMAIN shown :
    /\ shown[k].max <= prog.cases[k]
    /\ prog.catches => \/ shown[k].roster = shown[k].max
                       \/ shown[k].roster = 0 /\ "list" \in lost

\* std::terminate has two causes only: the statement fails while the poller is
\* joinable, or a poller without a handler fails.  A failure of the poller of
\* parallel_workers costs the roster, not the run, and any other failure of main
\* is reported.
PollerFailureIsContained ==
  /\ status = "terminated" => \/ culprit = "main" /\ joinable /\ main = "execute"
                              \/ culprit = "poller" /\ ~prog.catches
  /\ status = "failed" => culprit = "main" /\ ~joinable

\* The state keeps its types, main and the poller never meet in the roster, and
\* a poller that fails takes nobody with it.
WatchersInv == TypeOK /\ NoConcurrentAccess /\ PollerFailureIsContained

\* Every run ends: the poller sees the flag and main's join returns.
RunsEnd == <>(status # "running")
=============================================================================
