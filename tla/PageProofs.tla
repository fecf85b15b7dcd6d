----------------------------- MODULE PageProofs -----------------------------
(***************************************************************************)
(* page_cache, for any set of rows with a worker each, any number of       *)
(* rounds, any number of dying children and whatever an earlier run has    *)
(* left: no committed update is lost, a run without a failure prints what  *)
(* it expects, and every run prints what was committed.                    *)
(***************************************************************************)
EXTENDS PageCache, TLAPS

(* Who can be alive at which stage of the parent. *)
StageInv ==
  /\ child["init"] \in {"drop", "create", "insert", "gone"}
  /\ child["check"] \in {"read", "gone"}
  /\ \A r \in Rows : child[r] \in {"start", "lock", "update", "flush", "commit", "leave", "gone"}
  /\ stage # "init" => child["init"] = "gone"
  /\ stage # "check" => child["check"] = "gone"
  /\ stage # "work" => \A r \in Rows : child[r] = "gone"
  /\ stage = "init" => commits = ZeroPage
  /\ stage = "done" => phase = 2
  /\ stage = "crashed" => faults > 0

(* Only a living engine of phase 2 holds the page, and the one that writes to
   it does. *)
OwnerInv ==
  /\ owner # "none" => phase = 2 /\ child[owner] \in {"lock", "update", "flush", "commit", "leave"}
  /\ \A r \in Rows : child[r] = "lock" => phase = 2
  /\ \A r \in Rows : child[r] = "update" /\ phase = 2 => owner = r

(* The page on disk is ahead of the commits by one version at most, and the
   copy of the engine that holds the page is not behind the disk. *)
VersionInv ==
  \A r \in Rows :
    /\ commits[r] <= disk[r] /\ disk[r] <= commits[r] + 1
    /\ owner # "none" => disk[r] <= copy[owner][r] /\ copy[owner][r] <= commits[r] + 1

(* What a worker is about to commit is in its copy of the page or, once that
   has been flushed or given up, on disk. *)
WrittenInv ==
  \A r \in Rows :
    /\ child[r] = "flush" =>
         IF owner = r THEN copy[r][r] = commits[r] + 1 ELSE disk[r] = commits[r] + 1
    /\ child[r] = "commit" => disk[r] = commits[r] + 1

(* How far a worker is in its loop. *)
RoundInv ==
  \A r \in Rows :
    /\ child[r] = "start" => commits[r] = 0
    /\ child[r] \in {"lock", "update", "flush", "commit"} => commits[r] < Rounds

Printed(k) == \A r \in Rows : final[k][r] = Rounds

(* As long as no process has failed. *)
FaultlessInv ==
  faults = 0 =>
    /\ child["init"] = "create" => table = "none"
    /\ stage # "init" \/ child["init"] = "gone" => table = "filled" /\ base = ZeroPage
    /\ \A r \in Rows : stage \in {"work", "check"} /\ child[r] \in {"leave", "gone"}
                       => commits[r] = Rounds
    /\ stage = "check" /\ child["check"] = "gone" => Printed(phase)
    /\ phase = 2 => Printed(1)
    /\ stage = "done" => Printed(2)

(* What --check has not yet printed; once it has ended, what it did. *)
PrintedInv ==
  /\ phase = 1 => \A r \in Rows : final[2][r] = NotShown
  /\ stage \in {"init", "work"} \/ child["check"] = "read"
       => \A r \in Rows : final[phase][r] = NotShown
  /\ PrintedIsCounted

PageIInv == /\ TypeOK /\ StageInv /\ OwnerInv /\ VersionInv /\ WrittenInv /\ RoundInv
            /\ FaultlessInv /\ PrintedInv

(* The processes have names of their own. *)
LEMMA ProcsLemma ==
  /\ "init" \in Procs /\ "check" \in Procs /\ Rows \subseteq Procs
  /\ "init" \notin Rows /\ "check" \notin Rows /\ "none" \notin Rows
  BY CacheAssumption DEF Procs

Places == {"drop", "create", "insert", "start", "lock", "update", "flush", "commit", "leave",
           "read", "gone"}

(* Launch moves the processes named and no other. *)
LEMMA LaunchLemma ==
  ASSUME TypeOK, NEW ps, NEW at \in Places, Launch(ps, at)
  PROVE  /\ child' \in [Procs -> Places]
         /\ \A p \in Procs : child'[p] = IF p \in ps THEN at ELSE child[p]
  BY DEF TypeOK, Launch, Places

LEMMA LeftoverLemma ==
  ASSUME NEW t, NEW b \in Leftovers(t)
  PROVE  b \in [Rows -> Nat]
<1>1. CASE t = "filled"
  <2>1. b \in [Rows -> Leftover] /\ Leftover \subseteq Nat
    BY <1>1, CacheAssumption DEF Leftovers
  <2> QED
    BY <2>1
<1>2. CASE t # "filled"
  BY <1>2 DEF Leftovers, ZeroPage
<1> QED
  BY <1>1, <1>2

LEMMA InitLemma == Init => PageIInv
<1> SUFFICES ASSUME Init PROVE PageIInv
  OBVIOUS
<1>1. TypeOK
  <2>1. base \in [Rows -> Nat]
    BY LeftoverLemma DEF Init
  <2> QED
    BY <2>1, CacheAssumption DEF Init, TypeOK, ZeroPage
<1>2. StageInv /\ OwnerInv
  BY ProcsLemma DEF Init, StageInv, OwnerInv
<1>3. VersionInv /\ WrittenInv /\ RoundInv
  BY ProcsLemma DEF Init, VersionInv, WrittenInv, RoundInv, ZeroPage
<1>4. FaultlessInv
  BY ProcsLemma DEF Init, FaultlessInv
<1>5. PrintedInv
  BY ProcsLemma DEF Init, PrintedInv, PrintedIsCounted
<1> QED
  BY <1>1, <1>2, <1>3, <1>4, <1>5 DEF PageIInv

(* The parent's three steps. *)
LEMMA InitDoneLemma ==
  ASSUME PageIInv, InitDone
  PROVE  PageIInv'
<1> USE ProcsLemma, CacheAssumption DEF PageIInv
<1>1. /\ stage = "init" /\ stage' = "work" /\ child["init"] = "gone"
      /\ child' \in [Procs -> Places]
      /\ \A p \in Procs : child'[p] = IF p \in Rows THEN "start" ELSE child[p]
      /\ UNCHANGED <<phase, table, base, disk, owner, copy, commits, final, faults>>
  BY LaunchLemma DEF InitDone, Await, page, Places
<1>2. TypeOK'
  BY <1>1 DEF TypeOK, RoundInv, OwnerInv, Places
<1>3. StageInv'
  BY <1>1 DEF StageInv, TypeOK
<1>4. OwnerInv'
  BY <1>1 DEF OwnerInv, TypeOK, StageInv
<1>5. VersionInv'
  BY <1>1 DEF VersionInv, TypeOK, StageInv, OwnerInv, WrittenInv
<1>6. WrittenInv'
  BY <1>1 DEF WrittenInv, TypeOK, StageInv, OwnerInv, VersionInv
<1>7. RoundInv'
  BY <1>1 DEF RoundInv, TypeOK, StageInv, ZeroPage
<1>8. FaultlessInv'
  BY <1>1 DEF FaultlessInv, Printed, TypeOK, StageInv, ZeroPage
<1>9. PrintedInv'
  BY <1>1 DEF PrintedInv, PrintedIsCounted, StageInv, TypeOK, ZeroPage
<1> QED
  BY <1>2, <1>3, <1>4, <1>5, <1>6, <1>7, <1>8, <1>9

LEMMA WorkDoneLemma ==
  ASSUME PageIInv, WorkDone
  PROVE  PageIInv'
<1> USE ProcsLemma, CacheAssumption DEF PageIInv
<1>1. /\ stage = "work" /\ stage' = "check"
      /\ \A r \in Rows : child[r] = "gone"
      /\ child' \in [Procs -> Places]
      /\ \A p \in Procs : child'[p] = IF p \in {"check"} THEN "read" ELSE child[p]
      /\ UNCHANGED <<phase, table, base, disk, owner, copy, commits, final, faults>>
  BY LaunchLemma DEF WorkDone, Await, page, Places
<1>2. TypeOK'
  BY <1>1 DEF TypeOK, RoundInv, OwnerInv, Places
<1>3. StageInv'
  BY <1>1 DEF StageInv, TypeOK
<1>4. OwnerInv'
  BY <1>1 DEF OwnerInv, TypeOK, StageInv
<1>5. VersionInv'
  BY <1>1 DEF VersionInv, TypeOK, StageInv, OwnerInv, WrittenInv
<1>6. WrittenInv'
  BY <1>1 DEF WrittenInv, TypeOK, StageInv, OwnerInv, VersionInv
<1>7. RoundInv'
  BY <1>1 DEF RoundInv, TypeOK, StageInv
<1>8. FaultlessInv'
  BY <1>1 DEF FaultlessInv, Printed, TypeOK, StageInv, ZeroPage
<1>9. PrintedInv'
  BY <1>1 DEF PrintedInv, PrintedIsCounted, StageInv, TypeOK, ZeroPage
<1> QED
  BY <1>2, <1>3, <1>4, <1>5, <1>6, <1>7, <1>8, <1>9

(* The children. *)
LEMMA DropTableLemma ==
  ASSUME PageIInv, DropTable \/ DropFails
  PROVE  PageIInv'
<1> USE ProcsLemma, CacheAssumption DEF PageIInv
<1>1. /\ child["init"] = "drop" /\ stage = "init"
      /\ child' \in [Procs -> Places]
      /\ \A p \in Procs : child'[p] = IF p \in {"init"} THEN "create" ELSE child[p]
      /\ \/ table' = "none" /\ faults' = faults
         \/ table' = table /\ faults < MaxFaults /\ faults' = faults + 1
      /\ UNCHANGED <<phase, stage, base, disk, owner, copy, commits, final>>
  BY LaunchLemma DEF DropTable, DropFails, Places, StageInv, page
<1>2. TypeOK'
  BY <1>1 DEF TypeOK, RoundInv, OwnerInv, Places, ZeroPage
<1>3. StageInv'
  BY <1>1 DEF StageInv, TypeOK, ZeroPage
<1>4. OwnerInv'
  BY <1>1 DEF OwnerInv, TypeOK, StageInv
<1>5. VersionInv'
  BY <1>1 DEF VersionInv, TypeOK, StageInv, OwnerInv, WrittenInv, ZeroPage
<1>6. WrittenInv'
  BY <1>1 DEF WrittenInv, TypeOK, StageInv, OwnerInv, VersionInv
<1>7. RoundInv'
  BY <1>1 DEF RoundInv, TypeOK, StageInv, ZeroPage
<1>8. FaultlessInv'
  BY <1>1 DEF FaultlessInv, Printed, TypeOK, StageInv, ZeroPage
<1>9. PrintedInv'
  BY <1>1 DEF PrintedInv, PrintedIsCounted, StageInv, TypeOK, ZeroPage
<1> QED
  BY <1>2, <1>3, <1>4, <1>5, <1>6, <1>7, <1>8, <1>9

LEMMA CreateTableLemma ==
  ASSUME PageIInv, CreateTable
  PROVE  PageIInv'
<1> USE ProcsLemma, CacheAssumption DEF PageIInv
<1>1. /\ child["init"] = "create" /\ stage = "init"
      /\ child' \in [Procs -> Places]
      /\ \/ /\ table = "none" /\ table' = "empty"
            /\ \A p \in Procs : child'[p] = IF p \in {"init"} THEN "insert" ELSE child[p]
         \/ /\ table # "none" /\ table' = table
            /\ \A p \in Procs : child'[p] = IF p \in {"init"} THEN "gone" ELSE child[p]
      /\ UNCHANGED <<phase, stage, base, disk, owner, copy, commits, final, faults>>
  BY LaunchLemma DEF CreateTable, Places, StageInv, page
<1>2. TypeOK'
  BY <1>1 DEF TypeOK, RoundInv, OwnerInv, Places
<1>3. StageInv'
  BY <1>1 DEF StageInv, TypeOK
<1>4. OwnerInv'
  BY <1>1 DEF OwnerInv, TypeOK, StageInv
<1>5. VersionInv'
  BY <1>1 DEF VersionInv, TypeOK, StageInv, OwnerInv, WrittenInv
<1>6. WrittenInv'
  BY <1>1 DEF WrittenInv, TypeOK, StageInv, OwnerInv, VersionInv
<1>7. RoundInv'
  BY <1>1 DEF RoundInv, TypeOK, StageInv
<1>8. FaultlessInv'
  BY <1>1 DEF FaultlessInv, Printed, TypeOK, StageInv, ZeroPage
<1>9. PrintedInv'
  BY <1>1 DEF PrintedInv, PrintedIsCounted, StageInv, TypeOK, ZeroPage
<1> QED
  BY <1>2, <1>3, <1>4, <1>5, <1>6, <1>7, <1>8, <1>9

LEMMA InsertRowsLemma ==
  ASSUME PageIInv, InsertRows
  PROVE  PageIInv'
<1> USE ProcsLemma, CacheAssumption DEF PageIInv
<1>1. /\ child["init"] = "insert" /\ stage = "init"
      /\ child' \in [Procs -> Places]
      /\ \A p \in Procs : child'[p] = IF p \in {"init"} THEN "gone" ELSE child[p]
      /\ table' = "filled" /\ base' = ZeroPage
      /\ UNCHANGED <<phase, stage, disk, owner, copy, commits, final, faults>>
  BY LaunchLemma DEF InsertRows, Places, StageInv, page
<1>2. TypeOK'
  BY <1>1 DEF TypeOK, Places, ZeroPage
<1>3. StageInv'
  BY <1>1 DEF StageInv, TypeOK
<1>4. OwnerInv'
  BY <1>1 DEF OwnerInv, TypeOK, StageInv
<1>5. VersionInv'
  BY <1>1 DEF VersionInv, TypeOK, StageInv, OwnerInv, WrittenInv
<1>6. WrittenInv'
  BY <1>1 DEF WrittenInv, TypeOK, StageInv, OwnerInv, VersionInv
<1>7. RoundInv'
  BY <1>1 DEF RoundInv, TypeOK, StageInv
<1>8. FaultlessInv'
  BY <1>1 DEF FaultlessInv, Printed, TypeOK, StageInv, ZeroPage
<1>9. PrintedInv'
  BY <1>1 DEF PrintedInv, PrintedIsCounted, StageInv, TypeOK, ZeroPage
<1> QED
  BY <1>2, <1>3, <1>4, <1>5, <1>6, <1>7, <1>8, <1>9

LEMMA LockPageLemma ==
  ASSUME PageIInv, NEW r \in Rows, LockPage(r)
  PROVE  PageIInv'
<1> USE ProcsLemma, CacheAssumption DEF PageIInv
<1>1. /\ child[r] = "lock" /\ owner \in {"none", r} /\ owner' = r /\ stage = "work"
      /\ copy' = IF owner = r THEN copy ELSE [copy EXCEPT ![r] = disk]
      /\ child' \in [Procs -> Places]
      /\ \A p \in Procs : child'[p] = IF p \in {r} THEN "update" ELSE child[p]
      /\ UNCHANGED <<phase, stage, table, base, disk, commits, final, faults>>
  BY LaunchLemma DEF LockPage, Places, StageInv
<1>2. TypeOK'
  BY <1>1 DEF TypeOK, RoundInv, OwnerInv, Places
<1>3. StageInv'
  BY <1>1 DEF StageInv, TypeOK
<1>4. OwnerInv'
  BY <1>1 DEF OwnerInv, TypeOK, StageInv
<1>5. VersionInv'
  BY <1>1 DEF VersionInv, TypeOK, StageInv, OwnerInv, WrittenInv
<1>6. WrittenInv'
  BY <1>1 DEF WrittenInv, TypeOK, StageInv, OwnerInv, VersionInv
<1>7. RoundInv'
  BY <1>1 DEF RoundInv, TypeOK, StageInv
<1>8. FaultlessInv'
  BY <1>1 DEF FaultlessInv, Printed, TypeOK, StageInv, ZeroPage
<1>9. PrintedInv'
  BY <1>1 DEF PrintedInv, PrintedIsCounted, StageInv, TypeOK, ZeroPage
<1> QED
  BY <1>2, <1>3, <1>4, <1>5, <1>6, <1>7, <1>8, <1>9

LEMMA GiveUpPageLemma ==
  ASSUME PageIInv, NEW r \in Rows, GiveUpPage(r)
  PROVE  PageIInv'
<1> USE ProcsLemma, CacheAssumption DEF PageIInv
<1>1. /\ owner = r /\ child[r] # "update" /\ owner' = "none"
      /\ disk' = copy[r] /\ child' = child
      /\ UNCHANGED <<phase, stage, table, base, copy, commits, final, faults>>
  BY DEF GiveUpPage
<1>2. TypeOK'
  BY <1>1 DEF TypeOK, RoundInv, OwnerInv, Places
<1>3. StageInv'
  BY <1>1 DEF StageInv, TypeOK
<1>4. OwnerInv'
  BY <1>1 DEF OwnerInv, TypeOK, StageInv
<1>5. VersionInv'
  BY <1>1 DEF VersionInv, TypeOK, StageInv, OwnerInv, WrittenInv
<1>6. WrittenInv'
  <2>1. \A q \in Rows : disk[q] <= copy[r][q] /\ copy[r][q] <= commits[q] + 1
    BY <1>1 DEF VersionInv
  <2>2. \A q \in Rows : disk[q] \in Nat /\ copy[r][q] \in Nat /\ commits[q] \in Nat
    BY <1>1 DEF TypeOK
  <2>3. \A q \in Rows : child[q] \in {"flush", "commit"} => copy[r][q] = commits[q] + 1
    BY <1>1, <2>1, <2>2 DEF WrittenInv
  <2> QED
    BY <1>1, <2>3 DEF WrittenInv
<1>7. RoundInv'
  BY <1>1 DEF RoundInv, TypeOK, StageInv
<1>8. FaultlessInv'
  BY <1>1 DEF FaultlessInv, Printed, TypeOK, StageInv, ZeroPage
<1>9. PrintedInv'
  BY <1>1 DEF PrintedInv, PrintedIsCounted, StageInv, TypeOK, ZeroPage
<1> QED
  BY <1>2, <1>3, <1>4, <1>5, <1>6, <1>7, <1>8, <1>9

LEMMA UpdateLemma ==
  ASSUME PageIInv, NEW r \in Rows, Update(r)
  PROVE  PageIInv'
<1> USE ProcsLemma, CacheAssumption DEF PageIInv
<1>1. /\ child[r] = "update" /\ stage = "work"
      /\ IF phase = 1 THEN disk' = [disk EXCEPT ![r] = commits[r] + 1] /\ copy' = copy
              ELSE copy' = [copy EXCEPT ![r][r] = commits[r] + 1] /\ disk' = disk
      /\ child' \in [Procs -> Places]
      /\ \A p \in Procs : child'[p] = IF p \in {r} THEN "flush" ELSE child[p]
      /\ UNCHANGED <<phase, stage, table, base, owner, commits, final, faults>>
  BY LaunchLemma DEF Update, Places, StageInv
<1>2. TypeOK'
  <2>1. commits[r] + 1 \in 0..Rounds
    BY <1>1 DEF TypeOK, RoundInv
  <2>2. disk' \in [Rows -> 0..Rounds]
    BY <1>1, <2>1 DEF TypeOK
  <2>3. copy' \in [Rows -> [Rows -> 0..Rounds]]
    <3>1. copy[r] \in [Rows -> 0..Rounds]
      BY DEF TypeOK
    <3>2. [copy[r] EXCEPT ![r] = commits[r] + 1] \in [Rows -> 0..Rounds]
      BY <2>1, <3>1
    <3> QED
      BY <1>1, <3>2 DEF TypeOK
  <2> QED
    BY <1>1, <2>2, <2>3 DEF TypeOK, Places
<1>3. StageInv'
  BY <1>1 DEF StageInv, TypeOK
<1>4. OwnerInv'
  BY <1>1 DEF OwnerInv, TypeOK, StageInv
<1>5. VersionInv'
  BY <1>1 DEF VersionInv, TypeOK, StageInv, OwnerInv, WrittenInv
<1>6. WrittenInv'
  BY <1>1 DEF WrittenInv, TypeOK, StageInv, OwnerInv, VersionInv
<1>7. RoundInv'
  BY <1>1 DEF RoundInv, TypeOK, StageInv
<1>8. FaultlessInv'
  BY <1>1 DEF FaultlessInv, Printed, TypeOK, StageInv, ZeroPage
<1>9. PrintedInv'
  BY <1>1 DEF PrintedInv, PrintedIsCounted, StageInv, TypeOK, ZeroPage
<1> QED
  BY <1>2, <1>3, <1>4, <1>5, <1>6, <1>7, <1>8, <1>9

LEMMA FlushLemma ==
  ASSUME PageIInv, NEW r \in Rows, Flush(r)
  PROVE  PageIInv'
<1> USE ProcsLemma, CacheAssumption DEF PageIInv
<1>1. /\ child[r] = "flush" /\ stage = "work"
      /\ disk' = IF owner = r THEN copy[r] ELSE disk
      /\ child' \in [Procs -> Places]
      /\ \A p \in Procs : child'[p] = IF p \in {r} THEN "commit" ELSE child[p]
      /\ UNCHANGED <<phase, stage, table, base, owner, copy, commits, final, faults>>
  BY LaunchLemma DEF Flush, Places, StageInv
<1>2. TypeOK'
  BY <1>1 DEF TypeOK, RoundInv, OwnerInv, Places
<1>3. StageInv'
  BY <1>1 DEF StageInv, TypeOK
<1>4. OwnerInv'
  BY <1>1 DEF OwnerInv, TypeOK, StageInv
<1>5. VersionInv'
  BY <1>1 DEF VersionInv, TypeOK, StageInv, OwnerInv, WrittenInv
<1>6. WrittenInv'
  BY <1>1 DEF WrittenInv, TypeOK, StageInv, OwnerInv, VersionInv
<1>7. RoundInv'
  BY <1>1 DEF RoundInv, TypeOK, StageInv
<1>8. FaultlessInv'
  BY <1>1 DEF FaultlessInv, Printed, TypeOK, StageInv, ZeroPage
<1>9. PrintedInv'
  BY <1>1 DEF PrintedInv, PrintedIsCounted, StageInv, TypeOK, ZeroPage
<1> QED
  BY <1>2, <1>3, <1>4, <1>5, <1>6, <1>7, <1>8, <1>9

LEMMA CheckDoneLemma ==
  ASSUME PageIInv, CheckDone \/ UnlinkFails
  PROVE  PageIInv'
<1> USE ProcsLemma, CacheAssumption DEF PageIInv
<1>1. /\ stage = "check" /\ child["check"] = "gone" /\ owner = "none"
      /\ phase = 1 /\ phase' = 2 /\ stage' = "init"
      /\ table' \in {"none", "empty", "filled"} /\ base' \in [Rows -> Nat]
      /\ disk' = ZeroPage /\ commits' = ZeroPage
      /\ \A p \in Procs : child'[p] = IF p = "init" THEN "drop" ELSE child[p]
      /\ child' \in [Procs -> Places]
      /\ \/ faults' = faults
         \/ faults < MaxFaults /\ faults' = faults + 1
      /\ UNCHANGED <<owner, copy, final>>
  <2>2. PICK t \in {"none", "empty", "filled"}, b \in [Rows -> Nat] : EmbeddedPhase(t, b)
    <3>1. ZeroPage \in [Rows -> Nat]
      BY DEF ZeroPage
    <3> QED
      BY LeftoverLemma, <3>1 DEF CheckDone, UnlinkFails
  <2>3. \/ faults' = faults
        \/ faults < MaxFaults /\ faults' = faults + 1
    BY DEF CheckDone, UnlinkFails
  <2> QED
    BY <2>2, <2>3, LaunchLemma DEF EmbeddedPhase, Await, Places, StageInv, OwnerInv, TypeOK
<1>2. TypeOK'
  BY <1>1 DEF TypeOK, RoundInv, OwnerInv, Places, ZeroPage
<1>3. StageInv'
  BY <1>1 DEF StageInv, TypeOK, ZeroPage
<1>4. OwnerInv'
  BY <1>1 DEF OwnerInv, TypeOK, StageInv
<1>5. VersionInv'
  BY <1>1 DEF VersionInv, TypeOK, StageInv, OwnerInv, WrittenInv, ZeroPage
<1>6. WrittenInv'
  BY <1>1 DEF WrittenInv, TypeOK, StageInv, OwnerInv, VersionInv
<1>7. RoundInv'
  BY <1>1 DEF RoundInv, TypeOK, StageInv, ZeroPage
<1>8. FaultlessInv'
  BY <1>1 DEF FaultlessInv, Printed, TypeOK, StageInv, ZeroPage
<1>9. PrintedInv'
  BY <1>1 DEF PrintedInv, PrintedIsCounted, StageInv, TypeOK, ZeroPage
<1> QED
  BY <1>2, <1>3, <1>4, <1>5, <1>6, <1>7, <1>8, <1>9

LEMMA ParentStopsLemma ==
  ASSUME PageIInv, LastCheckDone \/ SandboxFails
  PROVE  PageIInv'
<1> USE ProcsLemma, CacheAssumption DEF PageIInv
<1>1. /\ stage = "check" /\ child["check"] = "gone"
      /\ \/ phase = 2 /\ stage' = "done" /\ faults' = faults
         \/ phase = 1 /\ stage' = "crashed" /\ faults < MaxFaults /\ faults' = faults + 1
      /\ UNCHANGED <<phase, child, table, base, disk, owner, copy, commits, final>>
  BY DEF LastCheckDone, SandboxFails, Await, page
<1>2. TypeOK'
  BY <1>1 DEF TypeOK, Places
<1>3. StageInv' /\ OwnerInv'
  BY <1>1 DEF StageInv, OwnerInv, TypeOK
<1>4. VersionInv' /\ WrittenInv' /\ RoundInv'
  BY <1>1 DEF VersionInv, WrittenInv, RoundInv, TypeOK
<1>5. FaultlessInv'
  BY <1>1 DEF FaultlessInv, Printed, TypeOK, StageInv
<1>6. PrintedInv'
  BY <1>1 DEF PrintedInv, PrintedIsCounted
<1> QED
  BY <1>2, <1>3, <1>4, <1>5, <1>6

LEMMA BeginLemma ==
  ASSUME PageIInv, NEW r \in Rows, Begin(r)
  PROVE  PageIInv'
<1> USE ProcsLemma, CacheAssumption DEF PageIInv
<1>1. /\ child[r] = "start" /\ stage = "work"
      /\ \E at \in {"gone", "leave", "update", "lock"} :
           /\ \A p \in Procs : child'[p] = IF p = r THEN at ELSE child[p]
           /\ at = "update" => phase = 1
           /\ at = "lock" => phase = 2
           /\ at \in {"gone", "leave"} => table # "filled"
      /\ child' \in [Procs -> Places]
      /\ UNCHANGED <<phase, stage, table, base, disk, owner, copy, commits, final, faults>>
  BY LaunchLemma DEF Begin, page, Places, StageInv, TypeOK
<1>2. TypeOK'
  BY <1>1 DEF TypeOK, RoundInv, OwnerInv, Places
<1>3. StageInv'
  BY <1>1 DEF StageInv, TypeOK
<1>4. OwnerInv'
  BY <1>1 DEF OwnerInv, TypeOK, StageInv
<1>5. VersionInv'
  BY <1>1 DEF VersionInv, TypeOK, StageInv, OwnerInv, WrittenInv
<1>6. WrittenInv'
  BY <1>1 DEF WrittenInv, TypeOK, StageInv, OwnerInv, VersionInv
<1>7. RoundInv'
  BY <1>1 DEF RoundInv, TypeOK, StageInv
<1>8. FaultlessInv'
  BY <1>1 DEF FaultlessInv, Printed, TypeOK, StageInv, ZeroPage
<1>9. PrintedInv'
  BY <1>1 DEF PrintedInv, PrintedIsCounted, StageInv, TypeOK, ZeroPage
<1> QED
  BY <1>2, <1>3, <1>4, <1>5, <1>6, <1>7, <1>8, <1>9

LEMMA CommitLemma ==
  ASSUME PageIInv, NEW r \in Rows, Commit(r)
  PROVE  PageIInv'
<1> USE ProcsLemma, CacheAssumption DEF PageIInv
<1>1. /\ child[r] = "commit" /\ stage = "work"
      /\ commits' = [commits EXCEPT ![r] = commits[r] + 1]
      /\ \E at \in {"leave", "update", "lock"} :
           /\ \A p \in Procs : child'[p] = IF p = r THEN at ELSE child[p]
           /\ at = "update" => phase = 1
           /\ at = "lock" => phase = 2
           /\ IF at = "leave" THEN commits[r] + 1 = Rounds ELSE commits[r] + 1 # Rounds
      /\ child' \in [Procs -> Places]
      /\ UNCHANGED <<phase, stage, table, base, disk, owner, copy, final, faults>>
  BY LaunchLemma DEF Commit, page, Places, StageInv, TypeOK
<1>2. TypeOK'
  BY <1>1 DEF TypeOK, RoundInv, OwnerInv, Places
<1>3. StageInv'
  BY <1>1 DEF StageInv, TypeOK
<1>4. OwnerInv'
  BY <1>1 DEF OwnerInv, TypeOK, StageInv
<1>5. VersionInv'
  BY <1>1 DEF VersionInv, TypeOK, StageInv, OwnerInv, WrittenInv
<1>6. WrittenInv'
  BY <1>1 DEF WrittenInv, TypeOK, StageInv, OwnerInv, VersionInv
<1>7. RoundInv'
  <2>1. commits[r] \in Nat /\ commits[r] < Rounds
    BY <1>1 DEF TypeOK, RoundInv
  <2>2. \A q \in Rows : q # r => child'[q] = child[q] /\ commits'[q] = commits[q]
    BY <1>1 DEF TypeOK
  <2>3. commits'[r] = commits[r] + 1 /\ child'[r] # "start"
    BY <1>1 DEF TypeOK
  <2>4. child'[r] \in {"lock", "update", "flush", "commit"} => commits[r] + 1 < Rounds
    BY <1>1, <2>1
  <2> QED
    BY <2>2, <2>3, <2>4 DEF RoundInv
<1>8. FaultlessInv'
  BY <1>1 DEF FaultlessInv, Printed, TypeOK, StageInv, ZeroPage
<1>9. PrintedInv'
  BY <1>1 DEF PrintedInv, PrintedIsCounted, StageInv, TypeOK, ZeroPage
<1> QED
  BY <1>2, <1>3, <1>4, <1>5, <1>6, <1>7, <1>8, <1>9

LEMMA LeaveLemma ==
  ASSUME PageIInv, NEW r \in Rows, Leave(r)
  PROVE  PageIInv'
<1> USE ProcsLemma, CacheAssumption DEF PageIInv
<1>1. /\ child[r] = "leave" /\ stage = "work"
      /\ child' = [child EXCEPT ![r] = "gone"] /\ child' \in [Procs -> Places]
      /\ \A p \in Procs : child'[p] = IF p = r THEN "gone" ELSE child[p]
      /\ owner' = IF owner = r THEN "none" ELSE owner
      /\ disk' = IF owner = r THEN copy[r] ELSE disk
      /\ UNCHANGED <<phase, stage, table, base, copy, commits, final, faults>>
  BY DEF Leave, Exit, Places, StageInv, TypeOK
<1>2. TypeOK'
  BY <1>1 DEF TypeOK, RoundInv, OwnerInv, Places
<1>3. StageInv'
  BY <1>1 DEF StageInv, TypeOK
<1>4. OwnerInv'
  BY <1>1 DEF OwnerInv, TypeOK, StageInv
<1>5. VersionInv'
  BY <1>1 DEF VersionInv, TypeOK, StageInv, OwnerInv, WrittenInv
<1>6. WrittenInv'
  BY <1>1 DEF WrittenInv, TypeOK, StageInv, OwnerInv, VersionInv
<1>7. RoundInv'
  BY <1>1 DEF RoundInv, TypeOK, StageInv
<1>8. FaultlessInv'
  BY <1>1 DEF FaultlessInv, Printed, TypeOK, StageInv, ZeroPage
<1>9. PrintedInv'
  BY <1>1 DEF PrintedInv, PrintedIsCounted, StageInv, TypeOK, ZeroPage
<1> QED
  BY <1>2, <1>3, <1>4, <1>5, <1>6, <1>7, <1>8, <1>9

LEMMA WorkerDiesLemma ==
  ASSUME PageIInv, NEW r \in Rows, WorkerDies(r)
  PROVE  PageIInv'
<1> USE ProcsLemma, CacheAssumption DEF PageIInv
<1>1. /\ child[r] # "gone" /\ stage = "work" /\ faults < MaxFaults /\ faults' = faults + 1
      /\ child' = [child EXCEPT ![r] = "gone"] /\ child' \in [Procs -> Places]
      /\ \A p \in Procs : child'[p] = IF p = r THEN "gone" ELSE child[p]
      /\ owner' = IF owner = r THEN "none" ELSE owner
      /\ UNCHANGED <<phase, stage, table, base, disk, copy, commits, final>>
  BY DEF WorkerDies, Exit, Places, StageInv, TypeOK
<1>2. TypeOK'
  BY <1>1 DEF TypeOK, RoundInv, OwnerInv, Places
<1>3. StageInv'
  BY <1>1 DEF StageInv, TypeOK
<1>4. OwnerInv'
  BY <1>1 DEF OwnerInv, TypeOK, StageInv
<1>5. VersionInv'
  BY <1>1 DEF VersionInv, TypeOK, StageInv, OwnerInv, WrittenInv
<1>6. WrittenInv'
  BY <1>1 DEF WrittenInv, TypeOK, StageInv, OwnerInv, VersionInv
<1>7. RoundInv'
  BY <1>1 DEF RoundInv, TypeOK, StageInv
<1>8. FaultlessInv'
  BY <1>1 DEF FaultlessInv, Printed, TypeOK, StageInv, ZeroPage
<1>9. PrintedInv'
  BY <1>1 DEF PrintedInv, PrintedIsCounted, StageInv, TypeOK, ZeroPage
<1> QED
  BY <1>2, <1>3, <1>4, <1>5, <1>6, <1>7, <1>8, <1>9

(* What a reader sees is what has been committed: no more, no less. *)
LEMMA VisibleLemma ==
  ASSUME TypeOK, VersionInv
  PROVE  Visible = commits
<1>1. \A r \in Rows : Current[r] \in Nat /\ commits[r] \in Nat /\ commits[r] <= Current[r]
  BY DEF TypeOK, VersionInv, Current
<1>2. \A r \in Rows : Visible[r] = commits[r]
  BY <1>1 DEF Visible
<1>3. Visible = [r \in Rows |-> Visible[r]] /\ commits = [r \in Rows |-> commits[r]]
  BY DEF Visible, TypeOK
<1> QED
  BY <1>2, <1>3

LEMMA ReadTableLemma ==
  ASSUME PageIInv, ReadTable
  PROVE  PageIInv'
<1> USE ProcsLemma, CacheAssumption DEF PageIInv
<1>1. /\ child["check"] = "read" /\ stage = "check"
      /\ child' \in [Procs -> Places]
      /\ \A p \in Procs : child'[p] = IF p \in {"check"} THEN "gone" ELSE child[p]
      /\ final' = IF table = "filled"
                  THEN [final EXCEPT ![phase] = [r \in Rows |-> base[r] + commits[r]]]
                  ELSE final
      /\ UNCHANGED <<phase, stage, table, base, disk, owner, copy, commits, faults>>
  BY LaunchLemma, VisibleLemma DEF ReadTable, Places, StageInv, page
<1>2. TypeOK'
  <2>1. phase \in 1..2 /\ [r \in Rows |-> base[r] + commits[r]] \in [Rows -> Nat]
    BY DEF TypeOK
  <2>2. final' \in [1..2 -> [Rows -> Nat \cup {NotShown}]]
    BY <1>1, <2>1 DEF TypeOK
  <2> QED
    BY <1>1, <2>2 DEF TypeOK, Places
<1>3. StageInv'
  BY <1>1 DEF StageInv, TypeOK
<1>4. OwnerInv'
  BY <1>1 DEF OwnerInv, TypeOK, StageInv
<1>5. VersionInv'
  BY <1>1 DEF VersionInv, TypeOK, StageInv, OwnerInv, WrittenInv
<1>6. WrittenInv'
  BY <1>1 DEF WrittenInv, TypeOK, StageInv, OwnerInv, VersionInv
<1>7. RoundInv'
  BY <1>1 DEF RoundInv, TypeOK, StageInv
<1>8. FaultlessInv'
  <2> SUFFICES ASSUME faults = 0 PROVE FaultlessInv'
    BY <1>1 DEF FaultlessInv
  <2>1. table = "filled" /\ \A r \in Rows : commits[r] = Rounds /\ base[r] + commits[r] = Rounds
    BY <1>1 DEF FaultlessInv, StageInv, ZeroPage
  <2>2. /\ Printed(phase)'
        /\ phase = 2 => Printed(1)'
    BY <1>1, <2>1 DEF FaultlessInv, Printed, TypeOK
  <2> QED
    BY <1>1, <2>1, <2>2 DEF FaultlessInv, StageInv
<1>9. PrintedInv'
  BY <1>1 DEF PrintedInv, PrintedIsCounted, StageInv, TypeOK, ZeroPage
<1> QED
  BY <1>2, <1>3, <1>4, <1>5, <1>6, <1>7, <1>8, <1>9

LEMMA OtherDiesLemma ==
  ASSUME PageIInv, NEW p \in Procs, OtherDies(p)
  PROVE  PageIInv'
<1> USE ProcsLemma, CacheAssumption DEF PageIInv
<1>1. /\ p \in {"init", "check"} /\ faults' = faults + 1 /\ faults < MaxFaults
      /\ child' \in [Procs -> Places]
      /\ \A q \in Procs : child'[q] = IF q = p THEN "gone" ELSE child[q]
      /\ UNCHANGED <<phase, stage, table, base, disk, owner, copy, commits, final>>
  BY LaunchLemma DEF OtherDies, page, Places
<1>2. TypeOK'
  BY <1>1 DEF TypeOK, Places
<1>3. StageInv' /\ OwnerInv'
  BY <1>1 DEF StageInv, OwnerInv, TypeOK
<1>4. VersionInv' /\ WrittenInv' /\ RoundInv'
  BY <1>1 DEF VersionInv, WrittenInv, RoundInv, TypeOK
<1>5. FaultlessInv'
  BY <1>1 DEF FaultlessInv, TypeOK
<1>6. PrintedInv'
  <2>1. child'["check"] = "gone" \/ child'["check"] = child["check"]
    BY <1>1
  <2>2. child["check"] \in {"read", "gone"}
    BY DEF StageInv
  <2> QED
    BY <1>1, <2>1, <2>2 DEF PrintedInv, PrintedIsCounted
<1> QED
  BY <1>2, <1>3, <1>4, <1>5, <1>6

LEMMA NextLemma == PageIInv /\ [Next]_vars => PageIInv'
<1> SUFFICES ASSUME PageIInv, [Next]_vars PROVE PageIInv'
  OBVIOUS
<1>1. CASE Parent
  BY <1>1, InitDoneLemma, WorkDoneLemma, CheckDoneLemma, ParentStopsLemma DEF Parent
<1>2. CASE Children
  BY <1>2, DropTableLemma, CreateTableLemma, InsertRowsLemma, ReadTableLemma, BeginLemma,
     LockPageLemma, GiveUpPageLemma, UpdateLemma, FlushLemma, CommitLemma, LeaveLemma
  DEF Children
<1>3. CASE Faults
  BY <1>3, DropTableLemma, CheckDoneLemma, ParentStopsLemma, WorkerDiesLemma, OtherDiesLemma
  DEF Faults
<1>4. CASE UNCHANGED vars
  BY <1>4 DEF vars, page, PageIInv, TypeOK, StageInv, OwnerInv, VersionInv, WrittenInv, RoundInv,
              FaultlessInv, Printed, PrintedInv,
              PrintedIsCounted
<1> QED
  BY <1>1, <1>2, <1>3, <1>4 DEF Next

LEMMA Invariant == Spec => []PageIInv
  BY InitLemma, NextLemma, PTL DEF Spec

(* No committed update is lost, whichever engine dies at whichever point of
   its commit, and both phases print the expected value when none does. *)
THEOREM PageInvTheorem == Spec => []PageInv
<1>1. PageIInv => NoLostUpdate
  BY DEF PageIInv, TypeOK, VersionInv, NoLostUpdate, Current
<1>2. PageIInv => ExpectedIsPrinted
  BY DEF PageIInv, StageInv, FaultlessInv, Printed, ExpectedIsPrinted
<1> QED
  BY <1>1, <1>2, Invariant, PTL DEF PageInv, PageIInv

(* The figures of --check are the committed updates on top of what the rows
   held, with any process failing at any point, in one cache or in two. *)
THEOREM PrintedIsCountedTheorem == Spec => []PrintedIsCounted
  BY Invariant, PTL DEF PageIInv, PrintedInv
=============================================================================
