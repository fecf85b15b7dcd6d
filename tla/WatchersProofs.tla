--------------------------- MODULE WatchersProofs ---------------------------
(***************************************************************************)
(* parallel_workers and sorting, for any statements, any heights of what   *)
(* there is to see during them and any number of failing calls: main and   *)
(* the poller never meet in the roster, and what is printed for a          *)
(* statement was measured during it.                                       *)
(***************************************************************************)
EXTENDS Watchers, SequenceTheorems, TLAPS

Peak == prog.cases[case]

(* Outside of the spawn and the join there is no poller. *)
OnlyWhileJoinable == main \notin {"execute", "stop", "join"} => poller = "done"

(* What can be seen, was counted and was remembered belongs to the statement
   that runs; the maximum of the last one is still there until the next
   spawn. *)
OfThisCase ==
  /\ main # "execute" /\ ~prog.pooled => level = 0
  /\ poller \in {"compare", "list"} => n <= Peak
  /\ main # "spawn" => maxSeen <= Peak

(* The list is the one of the maximum, but for the moment between the two,
   when it is empty, and for a list that could not be made. *)
Listed == roster = maxSeen \/ (roster = 0 /\ "list" \in lost)
RosterOfMax ==
  /\ poller = "list" => n = maxSeen /\ roster = 0
  /\ prog.catches /\ poller # "list" => Listed

(* One line is printed per statement. *)
OneLineEach ==
  /\ main \in {"prepare", "spawn", "execute", "stop", "join", "report"} => Len(shown) = case - 1
  /\ main = "leave" => Len(shown) = case

IInv == /\ TypeOK /\ OnlyWhileJoinable /\ OfThisCase /\ RosterOfMax /\ OneLineEach
        /\ PollerFailureIsContained /\ ShownIsOfItsCase

(* What the assumption says of the program that runs. *)
LEMMA ProgLemma ==
  ASSUME TypeOK
  PROVE  /\ prog.catches \in BOOLEAN /\ prog.pooled \in BOOLEAN
         /\ prog.cases \in Seq(Nat) /\ Len(prog.cases) \in Nat
         /\ DOMAIN prog.cases = 1..Len(prog.cases)
         /\ \A k \in 1..Len(prog.cases) : prog.cases[k] \in Nat
         /\ case \in 1..Len(prog.cases)
         /\ prog.pooled => Len(prog.cases) = 1
<1>1. prog \in Programs /\ case \in DOMAIN prog.cases
  BY DEF TypeOK
<1>2. prog \in [name : STRING, catches : BOOLEAN, pooled : BOOLEAN, cases : Seq(Nat) \ {<<>>}]
  BY <1>1, WatchersAssumption
<1>3. prog.catches \in BOOLEAN /\ prog.pooled \in BOOLEAN /\ prog.cases \in Seq(Nat)
  BY <1>2
<1> QED
  BY <1>1, <1>3, WatchersAssumption

(* A line printed extends what is shown. *)
LEMMA ShownLemma ==
  ASSUME TypeOK
  PROVE  LET line == [max |-> maxSeen, roster |-> roster]
         IN /\ Append(shown, line) \in Seq([max : Nat, roster : Nat])
            /\ Len(Append(shown, line)) = Len(shown) + 1
            /\ DOMAIN Append(shown, line) = 1..(Len(shown) + 1)
            /\ \A k \in 1..Len(shown) : Append(shown, line)[k] = shown[k]
            /\ Append(shown, line)[Len(shown) + 1] = line
            /\ Len(shown) \in Nat /\ DOMAIN shown = 1..Len(shown)
  BY DEF TypeOK

LEMMA InitLemma == Init => IInv
<1> SUFFICES ASSUME Init PROVE IInv
  OBVIOUS
<1>1. prog \in Programs
  BY DEF Init
<1>2. prog \in [name : STRING, catches : BOOLEAN, pooled : BOOLEAN, cases : Seq(Nat) \ {<<>>}]
  BY <1>1, WatchersAssumption
<1>3. prog.cases \in Seq(Nat) /\ prog.cases # <<>>
  BY <1>2
<1>4. case \in DOMAIN prog.cases /\ level \in 0..prog.cases[case] /\ prog.cases[case] \in Nat
  <2>1. 1 \in DOMAIN prog.cases /\ prog.cases[1] \in Nat
    BY <1>3, EmptySeq
  <2> QED
    BY <2>1 DEF Init
<1>5. shown \in Seq([max : Nat, roster : Nat])
  BY DEF Init
<1>6. TypeOK
  <2>1. FlagsOK
    BY Zenon DEF Init, FlagsOK
  <2> QED
    BY <1>4, <1>5, <2>1, WatchersAssumption DEF Init, TypeOK
<1> QED
  BY <1>4, <1>6 DEF Init, IInv, OnlyWhileJoinable, OfThisCase, Peak, RosterOfMax, Listed, OneLineEach,
                    PollerFailureIsContained, ShownIsOfItsCase

(* The flags follow main. *)
LEMMA FlagsLemma ==
  ASSUME FlagsOK, [Next]_vars
  PROVE  FlagsOK'
<1> USE DEF FlagsOK, MainAt
<1>1. CASE Prepare
  BY <1>1, Zenon DEF Prepare
<1>2. CASE Spawn
  BY <1>2, Zenon DEF Spawn
<1>3. CASE Execute
  BY <1>3, Zenon DEF Execute
<1>4. CASE Stop
  BY <1>4, Zenon DEF Stop
<1>5. CASE Join
  BY <1>5, Zenon DEF Join
<1>6. CASE Report
  BY <1>6, Zenon DEF Report
<1>7. CASE Leave \/ MainFails
  BY <1>7 DEF Leave, MainFails, mainVars
<1>8. CASE Poller \/ PollerFails
  BY <1>8 DEF Poller, PollerAttach, PollerCount, PollerCompare, PollerList, PollerCommit,
                     PollerLeave, PollerGoes, PollerFails, mainVars
<1>9. CASE UNCHANGED vars
  BY <1>9, Zenon DEF vars, mainVars
<1> QED
  BY <1>1, <1>2, <1>3, <1>4, <1>5, <1>6, <1>7, <1>8, <1>9 DEF Next, Main

(* main's steps but the printing. *)
LEMMA MainLemma ==
  ASSUME IInv, FlagsOK', Prepare \/ Spawn \/ Execute \/ Stop \/ Join \/ Leave
  PROVE  IInv'
<1> USE ProgLemma DEF IInv, TypeOK, OnlyWhileJoinable, OfThisCase, Peak, RosterOfMax, Listed, OneLineEach,
                      PollerFailureIsContained, ShownIsOfItsCase,
                      MainAt, Running, mainVars, pollVars
<1>1. CASE Prepare
  BY <1>1 DEF Prepare
<1>2. CASE Spawn
  BY <1>2 DEF Spawn
<1>3. CASE Execute
  <2>1. /\ main = "execute" /\ status = "running"
        /\ UNCHANGED <<prog, status, case, stop, joinable, shown, poller, n, maxSeen, roster,
                       culprit, lost, faults>>
    BY <1>3 DEF Execute
  <2>2. CASE level < Peak /\ level' = level + 1 /\ main' = main
    BY <2>1, <2>2
  <2>3. CASE main' = "stop" /\ level' = (IF prog.pooled THEN level ELSE 0)
    BY <2>1, <2>3
  <2> QED
    BY <1>3, <2>2, <2>3 DEF Execute
<1>4. CASE Stop
  BY <1>4 DEF Stop
<1>5. CASE Join
  BY <1>5 DEF Join
<1>6. CASE Leave
  BY <1>6 DEF Leave
<1> QED
  BY <1>1, <1>2, <1>3, <1>4, <1>5, <1>6

LEMMA ReportLemma ==
  ASSUME IInv, FlagsOK', Report
  PROVE  IInv'
<1> DEFINE line == [max |-> maxSeen, roster |-> roster]
<1>1. /\ main = "report" /\ status = "running" /\ poller = "done"
      /\ shown' = Append(shown, line)
      /\ UNCHANGED <<prog, status, level, stop, joinable, poller, n, maxSeen, roster,
                     culprit, lost, faults>>
  BY DEF Report, MainAt, Running, pollVars, IInv, TypeOK, OnlyWhileJoinable
<1>2. \/ case < Len(prog.cases) /\ case' = case + 1 /\ main' = "spawn"
      \/ case = Len(prog.cases) /\ case' = case /\ main' = "leave"
  BY ProgLemma DEF Report, IInv
<1>3. /\ Len(shown) = case - 1 /\ maxSeen <= Peak
      /\ prog.catches => Listed
      /\ ~prog.pooled => level = 0
  BY <1>1 DEF IInv, OfThisCase, RosterOfMax, OneLineEach
<1>4. TypeOK'
  <2>1. case' \in DOMAIN prog.cases /\ level \in 0..prog.cases[case']
    <3>1. case' \in 1..Len(prog.cases) /\ prog.cases[case'] \in Nat
      BY <1>2, ProgLemma DEF IInv
    <3>2. CASE case' = case
      BY <3>1, <3>2, ProgLemma DEF IInv, TypeOK
    <3>3. CASE case < Len(prog.cases)
      <4>1. level = 0
        BY <1>3, <3>3, ProgLemma DEF IInv
      <4> QED
        BY <3>1, <4>1, ProgLemma DEF IInv
    <3> QED
      BY <1>2, <3>2, <3>3
  <2>2. shown' \in Seq([max : Nat, roster : Nat])
    BY <1>1, ShownLemma DEF IInv
  <2> QED
    BY <1>1, <1>2, <2>1, <2>2 DEF IInv, TypeOK
<1>5. OnlyWhileJoinable' /\ OfThisCase' /\ RosterOfMax'
  BY <1>1, <1>2, <1>3 DEF IInv, OnlyWhileJoinable, OfThisCase, Peak, RosterOfMax, Listed
<1>6. OneLineEach'
  BY <1>1, <1>2, <1>3, ShownLemma, ProgLemma DEF IInv, OneLineEach
<1>7. PollerFailureIsContained'
  BY <1>1 DEF IInv, PollerFailureIsContained
<1>8. ShownIsOfItsCase'
  <2> SUFFICES ASSUME NEW k \in DOMAIN shown'
               PROVE  /\ shown'[k].max <= prog.cases[k]
                      /\ prog.catches => \/ shown'[k].roster = shown'[k].max
                                         \/ shown'[k].roster = 0 /\ "list" \in lost
    BY <1>1, Zenon DEF ShownIsOfItsCase
  <2>1. CASE k \in 1..Len(shown)
    BY <1>1, <2>1, ShownLemma DEF IInv, ShownIsOfItsCase
  <2>2. CASE k = Len(shown) + 1
    <3>1. k = case /\ shown'[k].max = maxSeen /\ shown'[k].roster = roster
      BY <1>1, <1>3, <2>2, ShownLemma, ProgLemma DEF IInv
    <3> QED
      BY <1>3, <3>1 DEF Peak, Listed
  <2> QED
    BY <1>1, <2>1, <2>2, ShownLemma DEF IInv
<1> QED
  BY <1>4, <1>5, <1>6, <1>7, <1>8 DEF IInv

LEMMA PollerLemma ==
  ASSUME IInv, FlagsOK', Poller
  PROVE  IInv'
<1> USE ProgLemma DEF IInv, TypeOK, OnlyWhileJoinable, OfThisCase, Peak, RosterOfMax, Listed, OneLineEach,
                      PollerFailureIsContained, ShownIsOfItsCase,
                      PollerAt, PollerGoes, Running, mainVars
<1>1. CASE PollerAttach
  BY <1>1 DEF PollerAttach
<1>2. CASE PollerCount
  BY <1>2 DEF PollerCount
<1>3. CASE PollerCompare
  <2>1. /\ poller = "compare" /\ n <= Peak /\ main \in {"execute", "stop", "join"}
        /\ UNCHANGED <<prog, status, main, case, level, stop, joinable, shown, n, culprit, lost, faults>>
    BY <1>3 DEF PollerCompare
  <2>2. CASE n > maxSeen /\ maxSeen' = n /\ roster' = 0
             /\ poller' = (IF prog.catches THEN "list" ELSE "commit")
    BY <2>1, <2>2
  <2>3. CASE poller' = "commit" /\ UNCHANGED <<maxSeen, roster>>
    BY <2>1, <2>3
  <2> QED
    BY <1>3, <2>2, <2>3 DEF PollerCompare
<1>4. CASE PollerList
  BY <1>4 DEF PollerList
<1>5. CASE PollerCommit
  BY <1>5 DEF PollerCommit
<1>6. CASE PollerLeave
  BY <1>6 DEF PollerLeave
<1> QED
  BY <1>1, <1>2, <1>3, <1>4, <1>5, <1>6 DEF Poller

LEMMA FailureLemma ==
  ASSUME IInv, FlagsOK', MainFails \/ PollerFails
  PROVE  IInv'
<1> USE ProgLemma, WatchersAssumption
    DEF IInv, TypeOK, OnlyWhileJoinable, OfThisCase, Peak, RosterOfMax, Listed, OneLineEach,
        PollerFailureIsContained, ShownIsOfItsCase, Running, mainVars, pollVars
<1>1. CASE MainFails
  <2>1. /\ status = "running" /\ main \in {"prepare", "execute", "leave"} /\ faults < MaxFaults
        /\ faults' = faults + 1 /\ culprit' = "main"
        /\ UNCHANGED <<prog, main, case, level, stop, joinable, shown, poller, n, maxSeen, roster,
                       lost>>
    BY <1>1 DEF MainFails
  <2>2. /\ status' = "terminated" => joinable
        /\ status' = "failed" => ~joinable
        /\ status' \in {"terminated", "failed"}
    BY <1>1, Zenon DEF MainFails
  <2>3. joinable <=> main \in {"execute", "stop", "join"}
    BY Zenon DEF FlagsOK
  <2>4. PollerFailureIsContained'
    <3> HIDE DEF IInv, TypeOK, OnlyWhileJoinable, OfThisCase, RosterOfMax, OneLineEach,
                 ShownIsOfItsCase
    <3>1. joinable' = joinable /\ main' = main /\ culprit' = "main"
      BY <2>1
    <3>2. joinable => main = "execute"
      BY <2>1, <2>3
    <3> QED
      BY <2>2, <3>1, <3>2, Zenon
  <2> HIDE DEF PollerFailureIsContained
  <2> QED
    BY <2>1, <2>2, <2>4
<1>2. CASE PollerFails
  <2>1. /\ Running /\ poller \in {"attach", "test", "list", "commit"} /\ faults < MaxFaults
        /\ faults' = faults + 1 /\ culprit' = "poller" /\ lost' = lost \cup {poller}
        /\ UNCHANGED <<prog, main, case, level, stop, joinable, shown, n, maxSeen, roster>>
    BY <1>2 DEF PollerFails
  <2>2. CASE prog.catches /\ poller' = "done" /\ UNCHANGED status
    BY <2>1, <2>2
  <2>3. CASE ~prog.catches /\ status' = "terminated" /\ UNCHANGED poller
    BY <2>1, <2>3
  <2> QED
    BY <1>2, <2>2, <2>3 DEF PollerFails, PollerThrows
<1> QED
  BY <1>1, <1>2

LEMMA NextLemma == IInv /\ [Next]_vars => IInv'
<1> SUFFICES ASSUME IInv, [Next]_vars PROVE IInv'
  OBVIOUS
<1>1. FlagsOK'
  BY FlagsLemma DEF IInv, TypeOK
<1>2. CASE UNCHANGED vars
  BY <1>2 DEF vars, mainVars, pollVars, IInv, TypeOK, FlagsOK, OnlyWhileJoinable, OfThisCase, Peak,
              RosterOfMax, Listed, OneLineEach, PollerFailureIsContained, ShownIsOfItsCase
<1> QED
  BY <1>1, <1>2, MainLemma, ReportLemma, PollerLemma, FailureLemma DEF Next, Main

LEMMA Invariant == Spec => []IInv
  BY InitLemma, NextLemma, PTL DEF Spec

(* The poller has returned whenever main reads what it wrote, and a failure of
   the poller of parallel_workers never ends the process, in whatever order
   calls of the two threads fail. *)
THEOREM WatchersInvTheorem == Spec => []WatchersInv
<1>1. IInv => WatchersInv
  BY DEF IInv, WatchersInv, OnlyWhileJoinable, NoConcurrentAccess
<1> QED
  BY <1>1, Invariant, PTL

(* Each statement is reported with what was measured during it, and the list
   printed with a maximum is the list of that maximum, or empty because the
   call that makes it failed. *)
THEOREM ShownIsOfItsCaseTheorem == Spec => []ShownIsOfItsCase
<1>1. IInv => ShownIsOfItsCase
  BY DEF IInv
<1> QED
  BY <1>1, Invariant, PTL
=============================================================================
