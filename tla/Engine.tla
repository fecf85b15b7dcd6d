------------------------------- MODULE Engine -------------------------------
(***************************************************************************)
(* What the Firebird server promises the sample programs, as far as the    *)
(* programs use it: attachments, transactions with their isolation, the    *)
(* version chain of each row of the scratch table, the relation lock of    *)
(* RESERVING ... FOR PROTECTED WRITE, and DDL that takes effect at commit. *)
(* The server itself is not part of this repository; every operation here  *)
(* is one the samples call.                                                *)
(***************************************************************************)
EXTENDS Integers, Sequences, FiniteSets

CONSTANTS Tx,     \* transactions a program may start (one handle, one start)
          Att,    \* attachments
          Row,    \* primary keys of the scratch table
          Val     \* values of its one data column

ASSUME AttAssumption == Att # {}

(* A version's writer and value, oldest version first in a chain. *)
Version == [by : Tx, val : Val]

Isolation == {"snapshot", "read_committed"}
TxState   == {"none", "active", "committed", "dead"}
RelLock   == {"none", "SW", "EX"}
Ddl       == {"none", "drop", "create"}

VARIABLES
  conn,    \* [Att -> {"closed", "open", "lost"}]
  state,   \* [Tx -> TxState]
  owner,   \* [Tx -> Att], meaningful once the transaction has started
  iso,     \* [Tx -> Isolation]
  snap,    \* [Tx -> SUBSET Tx]: the transactions committed when it started
  rel,     \* [Tx -> RelLock]: its lock on the scratch table
  ver,     \* [Row -> Seq(Version)]
  tbl,     \* does the scratch table exist?
  pend     \* [Tx -> Ddl]: DDL executed, not yet committed

evars == <<conn, state, owner, iso, snap, rel, ver, tbl, pend>>

EngineTypeOK ==
  /\ conn  \in [Att -> {"closed", "open", "lost"}]
  /\ state \in [Tx -> TxState]
  /\ owner \in [Tx -> Att]
  /\ iso   \in [Tx -> Isolation]
  /\ snap  \in [Tx -> SUBSET Tx]
  /\ rel   \in [Tx -> RelLock]
  /\ ver   \in [Row -> Seq(Version)]
  /\ tbl   \in BOOLEAN
  /\ pend  \in [Tx -> Ddl]

-----------------------------------------------------------------------------
(* State functions *)

Active    == {t \in Tx : state[t] = "active"}
Committed == {t \in Tx : state[t] = "committed"}

Top(r) == ver[r][Len(ver[r])]

(* Mutant: a snapshot that follows commits. *)
SeesLatest(t) == {t} \cup Committed

(* SNAPSHOT sees what was committed at its start, READ COMMITTED rec_version
   what is committed now; both see their own writes. *)
Sees(t) == {t} \cup (IF iso[t] = "snapshot" THEN snap[t] ELSE Committed)

SeenAt(t, r) == {i \in 1..Len(ver[r]) : ver[r][i].by \in Sees(t)}

(* The set holding the value t reads in row r; empty when it sees no row. *)
Read(t, r) ==
  {ver[r][i].val : i \in {j \in SeenAt(t, r) : \A k \in SeenAt(t, r) : k <= j}}

(* Mutant: DML does not look at reservations. *)
RelBlockersExOnly(t, mode) == {u \in Active \ {t} : mode = "EX" /\ rel[u] = "EX"}

(* PROTECTED WRITE (EX) excludes every other user of the table; DML (SW)
   excludes only a PROTECTED WRITE reservation. *)
RelBlockers(t, mode) ==
  {u \in Active \ {t} : rel[u] = "EX" \/ (mode = "EX" /\ rel[u] = "SW")}

(* The transaction whose uncommitted version is on top of the row. *)
RowBlockers(t, r) ==
  {u \in Active \ {t} : ver[r] # <<>> /\ Top(r).by = u}

WriteBlockers(t, r) == RelBlockers(t, "SW") \cup RowBlockers(t, r)

(* Mutant: once the first updater has committed, its row is free. *)
UpdateConflictWhileActive(t, r) == ver[r] # <<>> /\ Top(r).by \in Active \ {t}

(* First updater wins: the newest version is committed, but t cannot see it. *)
UpdateConflict(t, r) ==
  /\ ver[r] # <<>>
  /\ Top(r).by \notin Sees(t)

(* Rolling back the transactions S takes their version off every row. *)
Undone(S) ==
  [r \in Row |-> IF ver[r] # <<>> /\ Top(r).by \in S
                 THEN SubSeq(ver[r], 1, Len(ver[r]) - 1)
                 ELSE ver[r]]

-----------------------------------------------------------------------------
EngineInit ==
  /\ conn  = [a \in Att |-> "closed"]
  /\ state = [t \in Tx |-> "none"]
  /\ owner = [t \in Tx |-> CHOOSE a \in Att : TRUE]
  /\ iso   = [t \in Tx |-> "snapshot"]
  /\ snap  = [t \in Tx |-> {}]
  /\ rel   = [t \in Tx |-> "none"]
  /\ ver   = [r \in Row |-> <<>>]
  /\ tbl   \in BOOLEAN
  /\ pend  = [t \in Tx |-> "none"]

Attach(a) ==
  /\ conn[a] = "closed"
  /\ conn' = [conn EXCEPT ![a] = "open"]
  /\ UNCHANGED <<state, owner, iso, snap, rel, ver, tbl, pend>>

(* Start t on attachment a; mode "EX" reserves the table. *)
Start(t, a, i, mode) ==
  /\ conn[a] = "open"
  /\ state[t] = "none"
  /\ mode = "EX" => RelBlockers(t, "EX") = {}
  /\ state' = [state EXCEPT ![t] = "active"]
  /\ owner' = [owner EXCEPT ![t] = a]
  /\ iso'   = [iso EXCEPT ![t] = i]
  /\ snap'  = [snap EXCEPT ![t] = Committed]
  /\ rel'   = [rel EXCEPT ![t] = mode]
  /\ UNCHANGED <<conn, ver, tbl, pend>>

(* Insert or update: a second write of the same transaction replaces its own
   version, otherwise a new version goes on top. *)
Write(t, r, v) ==
  /\ state[t] = "active"
  /\ tbl
  /\ WriteBlockers(t, r) = {}
  /\ ~UpdateConflict(t, r)
  /\ ver' = [ver EXCEPT ![r] =
               IF ver[r] # <<>> /\ Top(r).by = t
               THEN [ver[r] EXCEPT ![Len(ver[r])] = [by |-> t, val |-> v]]
               ELSE Append(ver[r], [by |-> t, val |-> v])]
  /\ rel' = [rel EXCEPT ![t] = IF @ = "EX" THEN "EX" ELSE "SW"]
  /\ UNCHANGED <<conn, state, owner, iso, snap, tbl, pend>>

Define(t, d) ==
  /\ state[t] = "active"
  /\ pend' = [pend EXCEPT ![t] = d]
  /\ UNCHANGED <<conn, state, owner, iso, snap, rel, ver, tbl>>

(* Deferred DDL work needs the table for itself. *)
DdlInUse(t) == pend[t] # "none" /\ Active # {t}

Commit(t) ==
  /\ state[t] = "active"
  /\ ~DdlInUse(t)
  /\ state' = [state EXCEPT ![t] = "committed"]
  /\ rel'   = [rel EXCEPT ![t] = "none"]
  /\ tbl'   = IF pend[t] = "none" THEN tbl ELSE pend[t] = "create"
  /\ ver'   = IF pend[t] = "none" THEN ver ELSE [r \in Row |-> <<>>]
  /\ UNCHANGED <<conn, owner, iso, snap, pend>>

Rollback(t) ==
  /\ state[t] = "active"
  /\ state' = [state EXCEPT ![t] = "dead"]
  /\ rel'   = [rel EXCEPT ![t] = "none"]
  /\ ver'   = Undone({t})
  /\ UNCHANGED <<conn, owner, iso, snap, tbl, pend>>

(* The attachment ends, by a detach or by a broken connection ("lost"): the
   server rolls back whatever was still active on it. *)
Disconnect(a, how) ==
  LET gone == {t \in Active : owner[t] = a}
  IN  /\ conn[a] = "open"
      /\ conn'  = [conn EXCEPT ![a] = how]
      /\ state' = [t \in Tx |-> IF t \in gone THEN "dead" ELSE state[t]]
      /\ rel'   = [t \in Tx |-> IF t \in gone THEN "none" ELSE rel[t]]
      /\ ver'   = Undone(gone)
      /\ UNCHANGED <<owner, iso, snap, tbl, pend>>

EngineNext ==
  \/ \E a \in Att : Attach(a) \/ \E how \in {"closed", "lost"} : Disconnect(a, how)
  \/ \E t \in Tx, a \in Att, i \in Isolation, mode \in {"none", "EX"} :
        Start(t, a, i, mode)
  \/ \E t \in Tx, r \in Row, v \in Val : Write(t, r, v)
  \/ \E t \in Tx, d \in Ddl : Define(t, d)
  \/ \E t \in Tx : Commit(t) \/ Rollback(t)

(* Everything a client may make the server do: attach and detach, start,
   write, define, commit, roll back, in any order the guards allow.  Every
   sample program implements it. *)
EngineSpec == EngineInit /\ [][EngineNext]_evars

-----------------------------------------------------------------------------
(* What the samples rely on.  Each part is an invariant of EngineSpec. *)

(* Below the newest version of a row everything is committed, and the newest
   one is committed or belongs to a transaction that can still undo it. *)
ChainInv ==
  \A r \in Row : \A i \in 1..Len(ver[r]) :
    \/ state[ver[r][i].by] = "committed"
    \/ i = Len(ver[r]) /\ state[ver[r][i].by] = "active"

SnapInv == \A t \in Tx : snap[t] \subseteq Committed

(* A snapshot that holds one version of a row holds every older one. *)
PrefixInv ==
  \A t \in Tx, r \in Row : \A i \in 1..Len(ver[r]) :
    ver[r][i].by \in snap[t] => \A j \in 1..i : ver[r][j].by \in snap[t]

(* Only a running transaction holds a lock on the table, and a transaction
   that has it reserved shares it with nobody: what act one of lock_manager
   demonstrates. *)
ReservationExclusive ==
  /\ \A t \in Tx : rel[t] # "none" => state[t] = "active"
  /\ \A t, u \in Tx : rel[t] = "EX" /\ rel[u] # "none" => t = u

(* A broken or closed connection leaves no transaction behind, so nobody waits
   for a client that is gone. *)
NoOrphan == \A t \in Tx : state[t] = "active" => conn[owner[t]] = "open"

(* First updater wins: a SNAPSHOT transaction's version was written over
   versions it had all seen, so no committed update is lost. *)
NoLostUpdate ==
  \A r \in Row : \A i \in 1..Len(ver[r]) :
    LET t == ver[r][i].by
    IN  iso[t] = "snapshot" => \A j \in 1..(i-1) : ver[r][j].by \in snap[t]

EngineInv == /\ EngineTypeOK /\ ChainInv /\ SnapInv /\ PrefixInv
             /\ ReservationExclusive /\ NoOrphan /\ NoLostUpdate

(* While a SNAPSHOT transaction runs, what it reads in a row changes only by
   its own write: what the transactions samples print as "still the
   start-of-tx version". *)
OwnTop(t, r) == ver[r] # <<>> /\ Top(r).by = t

StableStep ==
  \A t \in Tx, r \in Row :
    state[t] = "active" /\ state'[t] = "active" /\ iso[t] = "snapshot"
    /\ ~OwnTop(t, r)' => Read(t, r)' = Read(t, r)

SnapshotStable == [][StableStep]_evars
=============================================================================
