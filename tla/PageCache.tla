----------------------------- MODULE PageCache -----------------------------
(***************************************************************************)
(* page_cache: a parent forks --init, then two --worker processes that     *)
(* update one row each of the same data page, then --check, and does so    *)
(* twice: with clients of one server (phase 1, a shared page cache) and    *)
(* with two embedded engines over one file (phase 2, private caches kept   *)
(* coherent by page locks with blocking ASTs and by writing to disk).      *)
(*                                                                         *)
(* The parent never looks at an exit status, nor at the result of fork().  *)
(* A child may fail at a call, be killed or never start; its open          *)
(* transaction is then as good as rolled back. When --init fails, the      *)
(* workers add to the rows an earlier run has left: the server's database  *)
(* is never removed.                                                       *)
(*                                                                         *)
(* A page holds, per row, how many increments the newest version adds to   *)
(* what the row held when the workers started (base); a reader sees the    *)
(* newest committed version.                                               *)
(***************************************************************************)
EXTENDS Integers, FiniteSets

CONSTANTS Rows,       \* a worker for each
          Rounds,     \* transactions per worker (300 in the sample)
          Leftover,   \* what a row of an earlier run may hold
          MaxFaults   \* calls and processes that fail

ASSUME CacheAssumption ==
  /\ Rounds \in Nat \ {0} /\ MaxFaults \in Nat /\ Leftover \subseteq Nat
  /\ Rows \cap {"init", "check", "none"} = {}

VARIABLES phase,      \* 1 or 2
          stage,      \* "init", "work", "check": what the parent waits for; "done", "crashed"
          child,      \* child[p]: what process p does next, "gone" when it has exited
          table,      \* the table of this phase: "none", "empty", "filled"
          base,       \* base[r]: the value of row r before the workers of this phase
          disk,       \* the page as written
          owner,      \* phase 2: who holds the page lock, or "none"
          copy,       \* phase 2: copy[r], the page in the cache of r's engine
          commits,    \* commits[r]: transactions of worker r that committed
          final,      \* final[k][r]: the value --check printed in phase k, or NotShown
          faults
page == <<disk, owner, copy>>
vars == <<phase, stage, child, table, base, page, commits, final, faults>>

Procs == Rows \cup {"init", "check"}
ZeroPage == [r \in Rows |-> 0]
NotShown == -1

\* What the rows of a table that this run has not made hold
Leftovers(t) == IF t = "filled" THEN [Rows -> Leftover] ELSE {ZeroPage}

Current == IF owner = "none" THEN disk ELSE copy[owner]
Visible == [r \in Rows |-> IF Current[r] < commits[r] THEN Current[r] ELSE commits[r]]

-----------------------------------------------------------------------------
(* The parent: run(...) and await() *)

Launch(ps, at) == child' = [p \in Procs |-> IF p \in ps THEN at ELSE child[p]]
\* Mutant: the loop waits for children that end well
AwaitSuccess(ps) == (\A p \in ps : child[p] = "gone") /\ faults = 0
\* Mutant: one wait() instead of a loop
AwaitOne(ps) == \E p \in ps : child[p] = "gone"
Await(ps) == \A p \in ps : child[p] = "gone"

InitDone ==
  /\ stage = "init" /\ Await({"init"})
  /\ stage' = "work" /\ Launch(Rows, "start")
  /\ UNCHANGED <<phase, table, base, page, commits, final, faults>>

WorkDone ==
  /\ stage = "work" /\ Await(Rows)
  /\ stage' = "check" /\ Launch({"check"}, "read")
  /\ UNCHANGED <<phase, table, base, page, commits, final, faults>>

\* Phase 2, over what unlink(EMB_DB) has left
EmbeddedPhase(t, b) ==
  /\ stage = "check" /\ Await({"check"}) /\ phase = 1
  /\ phase' = 2 /\ stage' = "init" /\ Launch({"init"}, "drop")
  /\ table' = t /\ base' = b
  /\ disk' = ZeroPage /\ commits' = ZeroPage /\ owner' = "none"
  /\ UNCHANGED <<copy, final>>

CheckDone == EmbeddedPhase("none", ZeroPage) /\ UNCHANGED faults

LastCheckDone ==
  /\ stage = "check" /\ Await({"check"}) /\ phase = 2
  /\ stage' = "done"
  /\ UNCHANGED <<phase, child, table, base, page, commits, final, faults>>

\* The result of unlink is not looked at
UnlinkFails ==
  /\ faults < MaxFaults /\ faults' = faults + 1
  /\ \E t \in {"none", "empty", "filled"} : \E b \in Leftovers(t) : EmbeddedPhase(t, b)

\* Nor that of fopen: fputs gets a null pointer
SandboxFails ==
  /\ stage = "check" /\ Await({"check"}) /\ phase = 1
  /\ faults < MaxFaults /\ faults' = faults + 1
  /\ stage' = "crashed"
  /\ UNCHANGED <<phase, child, table, base, page, commits, final>>

-----------------------------------------------------------------------------
(* The children *)

\* --init: three transactions. That the drop fails for want of a table is caught ...
DropTable ==
  /\ child["init"] = "drop" /\ Launch({"init"}, "create")
  /\ table' = "none"
  /\ UNCHANGED <<phase, stage, base, page, commits, final, faults>>

\* ... and so is every other error, the table in use by somebody else for one
DropFails ==
  /\ child["init"] = "drop" /\ table # "none" /\ Launch({"init"}, "create")
  /\ faults < MaxFaults /\ faults' = faults + 1
  /\ UNCHANGED <<phase, stage, table, base, page, commits, final>>

\* The table that was not dropped cannot be created: the program ends
CreateTable ==
  /\ child["init"] = "create"
  /\ IF table = "none"
     THEN Launch({"init"}, "insert") /\ table' = "empty"
     ELSE Launch({"init"}, "gone") /\ UNCHANGED table
  /\ UNCHANGED <<phase, stage, base, page, commits, final, faults>>

InsertRows ==
  /\ child["init"] = "insert" /\ Launch({"init"}, "gone")
  /\ table' = "filled" /\ base' = ZeroPage
  /\ UNCHANGED <<phase, stage, page, commits, final, faults>>

\* --worker: attach and start; without a table the first statement fails, and
\* without rows all the updates find nothing
Begin(r) ==
  /\ child[r] = "start"
  /\ Launch({r}, CASE table = "none" -> "gone"
                   [] table = "empty" -> "leave"
                   [] table = "filled" -> IF phase = 1 THEN "update" ELSE "lock")
  /\ UNCHANGED <<phase, stage, table, base, page, commits, final, faults>>

\* LCK_lock of the page: read it from disk, as whoever had it has written it
LockPage(r) ==
  /\ child[r] = "lock" /\ owner \in {"none", r}
  /\ owner' = r
  /\ copy' = IF owner = r THEN copy ELSE [copy EXCEPT ![r] = disk]
  /\ Launch({r}, "update")
  /\ UNCHANGED <<phase, stage, table, base, disk, commits, final, faults>>

\* The blocking AST: another engine wants the page; write it and let go
GiveUpPage(r) ==
  /\ owner = r /\ child[r] # "update"
  /\ \E q \in Rows \ {r} : child[q] = "lock"
  /\ disk' = copy[r] /\ owner' = "none"
  /\ UNCHANGED <<phase, stage, child, table, base, copy, commits, final, faults>>

\* update t set v = v + 1: the page is latched while the version is written
Update(r) ==
  /\ child[r] = "update"
  /\ IF phase = 1
     THEN disk' = [disk EXCEPT ![r] = commits[r] + 1] /\ UNCHANGED copy
     ELSE copy' = [copy EXCEPT ![r][r] = commits[r] + 1] /\ UNCHANGED disk
  /\ Launch({r}, "flush")
  /\ UNCHANGED <<phase, stage, table, base, owner, commits, final, faults>>

\* commit: first the pages the transaction has changed reach the disk
Flush(r) ==
  /\ child[r] = "flush" /\ Launch({r}, "commit")
  /\ disk' = IF owner = r THEN copy[r] ELSE disk
  /\ UNCHANGED <<phase, stage, table, base, owner, copy, commits, final, faults>>

\* ... then the transaction is marked committed
Commit(r) ==
  /\ child[r] = "commit"
  /\ commits' = [commits EXCEPT ![r] = @ + 1]
  /\ Launch({r}, IF commits[r] + 1 = Rounds THEN "leave"
                 ELSE IF phase = 1 THEN "update" ELSE "lock")
  /\ UNCHANGED <<phase, stage, table, base, page, final, faults>>

\* An engine that goes, by detach, error or kill, has lost its cache and its locks
Exit(r) ==
  /\ child' = [child EXCEPT ![r] = "gone"]
  /\ owner' = IF owner = r THEN "none" ELSE owner
  /\ UNCHANGED <<phase, stage, table, base, copy, commits, final>>

\* The MON$ query and the detach, which writes what is dirty
Leave(r) ==
  /\ child[r] = "leave" /\ Exit(r)
  /\ disk' = IF owner = r THEN copy[r] ELSE disk
  /\ UNCHANGED faults

ReadTable ==
  /\ child["check"] = "read" /\ Launch({"check"}, "gone")
  /\ final' = IF table = "filled"
              THEN [final EXCEPT ![phase] = [r \in Rows |-> base[r] + Visible[r]]] ELSE final
  /\ UNCHANGED <<phase, stage, table, base, page, commits, faults>>

WorkerDies(r) ==
  /\ child[r] # "gone" /\ faults < MaxFaults
  /\ faults' = faults + 1 /\ Exit(r) /\ UNCHANGED disk

OtherDies(p) ==
  /\ p \in {"init", "check"} /\ child[p] # "gone" /\ faults < MaxFaults
  /\ faults' = faults + 1 /\ Launch({p}, "gone")
  /\ UNCHANGED <<phase, stage, table, base, page, commits, final>>

-----------------------------------------------------------------------------
Init ==
  /\ phase = 1 /\ stage = "init"
  /\ child = [p \in Procs |-> IF p = "init" THEN "drop" ELSE "gone"]
  /\ table \in {"none", "empty", "filled"} /\ base \in Leftovers(table)   \* by earlier runs
  /\ disk = ZeroPage /\ owner = "none"
  /\ copy = [r \in Rows |-> ZeroPage] /\ commits = ZeroPage
  /\ final = [k \in 1..2 |-> [r \in Rows |-> NotShown]] /\ faults = 0

Parent == InitDone \/ WorkDone \/ CheckDone \/ LastCheckDone
Children ==
  \/ DropTable \/ CreateTable \/ InsertRows \/ ReadTable
  \/ \E r \in Rows : \/ Begin(r) \/ LockPage(r) \/ GiveUpPage(r) \/ Update(r)
                     \/ Flush(r) \/ Commit(r) \/ Leave(r)
Faults ==
  \/ DropFails \/ UnlinkFails \/ SandboxFails
  \/ \E r \in Rows : WorkerDies(r)
  \/ \E p \in Procs : OtherDies(p)
Next == Parent \/ Children \/ Faults

\* Every process runs, and an AST is served; nothing makes a process fail
Spec == Init /\ [][Next]_vars /\ WF_vars(Parent \/ Children)

-----------------------------------------------------------------------------
(* Properties *)

TypeOK ==
  /\ phase \in 1..2 /\ stage \in {"init", "work", "check", "done", "crashed"}
  /\ table \in {"none", "empty", "filled"} /\ base \in [Rows -> Nat]
  /\ child \in [Procs -> {"drop", "create", "insert", "start", "lock", "update", "flush", "commit",
                          "leave", "read", "gone"}]
  /\ disk \in [Rows -> 0..Rounds] /\ copy \in [Rows -> [Rows -> 0..Rounds]]
  /\ owner \in Rows \cup {"none"} /\ (phase = 1 => owner = "none")
  /\ commits \in [Rows -> 0..Rounds] /\ final \in [1..2 -> [Rows -> Nat \cup {NotShown}]]
  /\ faults \in 0..MaxFaults

\* "any lost updates?": a committed update is on the page every other engine
\* will read, and on disk as soon as no engine has the page, even when the
\* engine that made it has died.
NoLostUpdate == \A r \in Rows : Current[r] >= commits[r] /\ disk[r] >= commits[r]

\* "final: ... (expected 300)": when no process fails, both phases print the
\* expected value for every row.
ExpectedIsPrinted ==
  stage = "done" /\ faults = 0 => \A k \in 1..2, r \in Rows : final[k][r] = Rounds

\* The state keeps its types, no committed update is lost, and a run without a
\* failure prints what it expects.
PageInv == TypeOK /\ NoLostUpdate /\ ExpectedIsPrinted

\* "--check: any lost updates?": what it prints for a row is what the row held
\* when the workers started and one more for each update that committed since,
\* whichever of them has died and whatever an earlier run had left. So 300 is
\* the right answer only for rows that --init has made.
PrintedIsCounted ==
  stage = "check" /\ child["check"] = "gone" =>
    \A r \in Rows : final[phase][r] \in {NotShown, base[r] + commits[r]}

\* The parent gets through, unless it could not write firebird.conf: neither
\* engine waits for a page for ever, and every await returns, also when a child
\* has failed.
ParentEnds == <>(stage \in {"done", "crashed"})
=============================================================================
