---------------------------- MODULE SamplesProofs ---------------------------
(***************************************************************************)
(* First part: the engine contract keeps its invariants, for every set of  *)
(* transactions, attachments, rows and values: types, version chains,      *)
(* reservations, no lost update and the stability of a snapshot's reads.   *)
(* Second part: the interpreter of the sample programs changes the engine  *)
(* by the engine's operations only, which the third part needs.            *)
(* Third part: a program that keeps to the ownership discipline uses no    *)
(* transaction before its start or after its end, whatever happens.        *)
(***************************************************************************)
EXTENDS Discipline, SequenceTheorems, TLAPS

(* Dropping the last element keeps the others. *)
LEMMA FrontLemma ==
  ASSUME NEW S, NEW s \in Seq(S), s # <<>>
  PROVE  /\ SubSeq(s, 1, Len(s) - 1) \in Seq(S)
         /\ Len(SubSeq(s, 1, Len(s) - 1)) = Len(s) - 1
         /\ \A i \in 1..(Len(s) - 1) : SubSeq(s, 1, Len(s) - 1)[i] = s[i]
<1> DEFINE n == Len(s) - 1
           f == SubSeq(s, 1, n)
<1>1. n \in Nat /\ \A i \in 1..n : s[i] \in S
  OBVIOUS
<1>2. /\ f \in Seq(S)
      /\ Len(f) = IF 1 <= n THEN n - 1 + 1 ELSE 0
      /\ \A i \in 1..(n - 1 + 1) : f[i] = s[1 + i - 1]
  <2> HIDE DEF n
  <2> QED
    BY <1>1, SubSeqProperties
<1>3. Len(f) = n /\ \A i \in 1..n : f[i] = s[i]
  <2> HIDE DEF n, f
  <2> QED
    BY <1>1, <1>2
<1> QED
  BY <1>2, <1>3

LEMMA VersionLemma ==
  ASSUME EngineTypeOK, NEW r \in Row, NEW k \in 1..Len(ver[r])
  PROVE  ver[r][k].by \in Tx /\ ver[r][k].val \in Val
<1>1. ver[r] \in Seq(Version)
  BY DEF EngineTypeOK
<1>2. ver[r][k] \in Version
  BY <1>1
<1> QED
  BY <1>2 DEF Version

(* What a rollback does to the chains: each is kept or loses its newest
   version, which one of the transactions S wrote. *)
LEMMA UndoneLemma ==
  ASSUME ver \in [Row -> Seq(Version)], NEW S
  PROVE  /\ Undone(S) \in [Row -> Seq(Version)]
         /\ \A r \in Row :
              \/ /\ Undone(S)[r] = ver[r]
                 /\ ver[r] # <<>> => Top(r).by \notin S
              \/ /\ ver[r] # <<>> /\ Top(r).by \in S
                 /\ Len(Undone(S)[r]) = Len(ver[r]) - 1
                 /\ \A i \in 1..(Len(ver[r]) - 1) : Undone(S)[r][i] = ver[r][i]
<1>1. ASSUME NEW r \in Row
      PROVE  /\ Undone(S)[r] \in Seq(Version)
             /\ \/ /\ Undone(S)[r] = ver[r]
                   /\ ver[r] # <<>> => Top(r).by \notin S
                \/ /\ ver[r] # <<>> /\ Top(r).by \in S
                   /\ Len(Undone(S)[r]) = Len(ver[r]) - 1
                   /\ \A i \in 1..(Len(ver[r]) - 1) : Undone(S)[r][i] = ver[r][i]
  <2>1. ver[r] \in Seq(Version)
    OBVIOUS
  <2>2. CASE ver[r] # <<>> /\ Top(r).by \in S
    BY <2>1, <2>2, FrontLemma DEF Undone
  <2>3. CASE ~(ver[r] # <<>> /\ Top(r).by \in S)
    BY <2>1, <2>3 DEF Undone
  <2> QED
    BY <2>2, <2>3
<1> QED
  BY <1>1 DEF Undone

(* What Write does to the chain of its row: t's own newest version is
   replaced, or a version of t goes on top. *)
LEMMA WriteLemma ==
  ASSUME EngineTypeOK, NEW t \in Tx, NEW r \in Row, NEW v \in Val, Write(t, r, v)
  PROVE  /\ ver' \in [Row -> Seq(Version)]
         /\ \A q \in Row \ {r} : ver'[q] = ver[q]
         /\ \A i \in 1..Len(ver[r]) : ver'[r][i].by = ver[r][i].by
         /\ \/ /\ ver[r] # <<>> /\ Top(r).by = t
               /\ Len(ver'[r]) = Len(ver[r])
            \/ /\ ver[r] = <<>> \/ Top(r).by # t
               /\ Len(ver'[r]) = Len(ver[r]) + 1
               /\ ver'[r][Len(ver[r]) + 1].by = t
               /\ \A i \in 1..Len(ver[r]) : ver'[r][i] = ver[r][i]
<1> DEFINE new == [by |-> t, val |-> v]
<1>1. ver \in [Row -> Seq(Version)] /\ ver[r] \in Seq(Version) /\ new \in Version
  BY DEF EngineTypeOK, Version
<1>2. CASE ver[r] # <<>> /\ Top(r).by = t
  <2>1. ver' = [ver EXCEPT ![r] = [ver[r] EXCEPT ![Len(ver[r])] = new]]
    BY <1>2 DEF Write
  <2>2. [ver[r] EXCEPT ![Len(ver[r])] = new] \in Seq(Version)
    BY <1>1, <1>2
  <2>3. ver'[r] = [ver[r] EXCEPT ![Len(ver[r])] = new]
    BY <2>1, <1>1
  <2>4. Len(ver'[r]) = Len(ver[r])
    BY <2>3, <1>1
  <2>5. \A i \in 1..Len(ver[r]) : ver'[r][i].by = ver[r][i].by
    BY <2>3, <1>1, <1>2 DEF Top
  <2> QED
    BY <1>1, <1>2, <2>1, <2>2, <2>4, <2>5
<1>3. CASE ~(ver[r] # <<>> /\ Top(r).by = t)
  <2>1. ver' = [ver EXCEPT ![r] = Append(ver[r], new)]
    BY <1>3 DEF Write
  <2>2. ver'[r] = Append(ver[r], new)
    BY <2>1, <1>1
  <2>3. Len(ver'[r]) = Len(ver[r]) + 1 /\ ver'[r][Len(ver[r]) + 1].by = t
    BY <2>2, <1>1
  <2>4. \A i \in 1..Len(ver[r]) : ver'[r][i] = ver[r][i]
    BY <2>2, <1>1
  <2> QED
    BY <1>1, <1>3, <2>1, <2>2, <2>3, <2>4
<1> QED
  BY <1>2, <1>3

-----------------------------------------------------------------------------
LEMMA InitLemma == EngineInit => EngineInv
<1> SUFFICES ASSUME EngineInit PROVE EngineInv
  OBVIOUS
<1>1. EngineTypeOK
  BY AttAssumption DEF EngineInit, EngineTypeOK, TxState, Isolation, RelLock, Ddl
<1>2. ChainInv /\ SnapInv /\ PrefixInv /\ NoLostUpdate
  BY DEF EngineInit, ChainInv, SnapInv, PrefixInv, NoLostUpdate, Committed
<1>3. ReservationExclusive /\ NoOrphan
  BY DEF EngineInit, ReservationExclusive, NoOrphan
<1> QED
  BY <1>1, <1>2, <1>3 DEF EngineInv

(* Attach and Define touch nothing the invariants speak of but conn and pend. *)
LEMMA AttachLemma ==
  ASSUME EngineInv, NEW a \in Att, Attach(a)
  PROVE  EngineInv'
<1>1. EngineTypeOK'
  BY DEF EngineInv, EngineTypeOK, Attach
<1>2. NoOrphan'
  BY DEF EngineInv, EngineTypeOK, NoOrphan, Attach
<1>3. ChainInv' /\ SnapInv' /\ PrefixInv' /\ NoLostUpdate' /\ ReservationExclusive'
  BY SMTT(30) DEF EngineInv, ChainInv, SnapInv, PrefixInv, NoLostUpdate,
         ReservationExclusive, Committed, Attach
<1> QED
  BY <1>1, <1>2, <1>3 DEF EngineInv

LEMMA DefineLemma ==
  ASSUME EngineInv, NEW t \in Tx, NEW d \in Ddl, Define(t, d)
  PROVE  EngineInv'
<1>1. EngineTypeOK'
  BY DEF EngineInv, EngineTypeOK, Define
<1>2. NoOrphan'
  BY DEF EngineInv, NoOrphan, Define
<1>3. ChainInv' /\ SnapInv' /\ PrefixInv' /\ NoLostUpdate' /\ ReservationExclusive'
  BY DEF EngineInv, ChainInv, SnapInv, PrefixInv, NoLostUpdate,
         ReservationExclusive, Committed, Define
<1> QED
  BY <1>1, <1>2, <1>3 DEF EngineInv

(* A transaction that has not started has written nothing, so changing its
   snapshot and isolation disturbs no version; its snapshot is closed
   downwards because everything below a committed version is committed. *)
LEMMA StartLemma ==
  ASSUME EngineInv, NEW t \in Tx, NEW a \in Att, NEW i \in Isolation,
         NEW mode \in {"none", "EX"}, Start(t, a, i, mode)
  PROVE  EngineInv'
<1>0. EngineTypeOK /\ ver' = ver /\ conn' = conn
  BY DEF EngineInv, Start
<1>1. EngineTypeOK'
  BY DEF EngineInv, EngineTypeOK, Start, TxState, RelLock, Committed
<1>2. /\ \A u \in Tx \ {t} : /\ state'[u] = state[u] /\ snap'[u] = snap[u]
                             /\ iso'[u] = iso[u] /\ rel'[u] = rel[u]
                             /\ owner'[u] = owner[u]
      /\ state[t] = "none" /\ state'[t] = "active" /\ snap'[t] = Committed
      /\ rel'[t] = mode /\ owner'[t] = a
  BY <1>0 DEF EngineTypeOK, Start
<1>3. Committed' = Committed
  BY <1>2 DEF Committed
<1>4. \A r \in Row : \A k \in 1..Len(ver[r]) : ver[r][k].by \in Tx \ {t}
  BY <1>0, <1>2, VersionLemma DEF EngineInv, ChainInv
<1>5. ChainInv'
  BY <1>0, <1>2, <1>4 DEF EngineInv, ChainInv
<1>6. SnapInv'
  BY <1>2, <1>3 DEF EngineInv, SnapInv
<1>7. PrefixInv'
  <2> SUFFICES ASSUME NEW u \in Tx, NEW r \in Row, NEW k \in 1..Len(ver[r]),
                      ver[r][k].by \in snap'[u], NEW j \in 1..k
               PROVE  ver[r][j].by \in snap'[u]
    BY <1>0 DEF PrefixInv
  <2>1. CASE u # t
    BY <2>1, <1>2 DEF EngineInv, PrefixInv
  <2>2. CASE u = t
    <3>1. Len(ver[r]) \in Nat
      BY <1>0 DEF EngineTypeOK
    <3>2. CASE j = k
      BY <3>2
    <3>3. CASE j # k
      <4>1. j \in 1..Len(ver[r]) /\ j # Len(ver[r])
        BY <3>1, <3>3
      <4>2. state[ver[r][j].by] = "committed"
        BY <4>1 DEF EngineInv, ChainInv
      <4> QED
        BY <4>1, <4>2, <1>2, <1>4, <2>2 DEF Committed
    <3> QED
      BY <3>2, <3>3
  <2> QED
    BY <2>1, <2>2
<1>8. NoLostUpdate'
  <2> SUFFICES ASSUME NEW r \in Row, NEW k \in 1..Len(ver[r]),
                      iso'[ver[r][k].by] = "snapshot", NEW j \in 1..(k-1)
               PROVE  ver[r][j].by \in snap'[ver[r][k].by]
    BY <1>0 DEF NoLostUpdate
  <2> QED
    BY <1>2, <1>4 DEF EngineInv, NoLostUpdate
<1>9. ReservationExclusive'
  <2>1. \A u \in Tx : rel'[u] # "none" => state'[u] = "active"
    BY <1>2 DEF EngineInv, ReservationExclusive
  <2>2. \A u, w \in Tx : rel'[u] = "EX" /\ rel'[w] # "none" => u = w
    <3>1. mode = "EX" => \A u \in Tx \ {t} : rel[u] = "none"
      BY <1>0 DEF Start, RelBlockers, Active, EngineInv, ReservationExclusive,
                  EngineTypeOK, RelLock
    <3> QED
      BY <3>1, <1>2 DEF EngineInv, ReservationExclusive
  <2> QED
    BY <2>1, <2>2 DEF ReservationExclusive
<1>10. NoOrphan'
  BY <1>0, <1>2 DEF EngineInv, NoOrphan, Start
<1> QED
  BY <1>1, <1>5, <1>6, <1>7, <1>8, <1>9, <1>10 DEF EngineInv

(* t sees the version it writes over, and with it, being in a snapshot, every
   older one; the version it adds is in no snapshot, because t is active. *)
LEMMA WriteInvLemma ==
  ASSUME EngineInv, NEW t \in Tx, NEW r \in Row, NEW v \in Val, Write(t, r, v)
  PROVE  EngineInv'
<1>0. EngineTypeOK /\ UNCHANGED <<conn, state, owner, iso, snap, tbl, pend>>
  BY DEF EngineInv, Write
<1>1. ver' \in [Row -> Seq(Version)] /\ \A q \in Row \ {r} : ver'[q] = ver[q]
  BY <1>0, WriteLemma
<1>2. rel' \in [Tx -> RelLock]
  BY <1>0 DEF EngineTypeOK, Write, RelLock
<1>3. EngineTypeOK'
  BY <1>0, <1>1, <1>2 DEF EngineTypeOK
<1>4. Len(ver[r]) \in Nat /\ Len(ver'[r]) \in Nat /\ state[t] = "active"
      /\ (ver[r] = <<>> <=> Len(ver[r]) = 0)
  BY <1>0, <1>1 DEF EngineTypeOK, Write
(* The older versions keep their writers; a new one is t's. *)
<1>5. /\ \A k \in 1..Len(ver[r]) : ver'[r][k].by = ver[r][k].by
      /\ \/ Len(ver'[r]) = Len(ver[r]) /\ Top(r).by = t /\ ver[r] # <<>>
         \/ /\ Len(ver'[r]) = Len(ver[r]) + 1
            /\ ver'[r][Len(ver[r]) + 1].by = t
            /\ ver[r] = <<>> \/ Top(r).by # t
  BY <1>0, WriteLemma
<1>6. ver[r] # <<>> => Top(r).by = t \/ state[Top(r).by] = "committed"
  <2> SUFFICES ASSUME ver[r] # <<>>, Top(r).by # t
               PROVE  state[Top(r).by] = "committed"
    OBVIOUS
  <2>1. Len(ver[r]) \in 1..Len(ver[r])
    BY <1>4
  <2>2. Top(r).by \in Tx /\ state[Top(r).by] \in {"active", "committed"}
    BY <2>1, <1>0, VersionLemma DEF Top, EngineInv, ChainInv
  <2>3. Top(r).by \notin Active \ {t}
    BY DEF Write, WriteBlockers, RowBlockers
  <2> QED
    BY <2>2, <2>3 DEF Active
<1>7. ChainInv'
  <2> SUFFICES ASSUME NEW q \in Row, NEW k \in 1..Len(ver'[q])
               PROVE  \/ state[ver'[q][k].by] = "committed"
                      \/ k = Len(ver'[q]) /\ state[ver'[q][k].by] = "active"
    BY <1>0 DEF ChainInv
  <2>1. CASE q # r
    BY <2>1, <1>1 DEF EngineInv, ChainInv
  <2>2. CASE q = r /\ Len(ver'[r]) = Len(ver[r])
    BY <2>2, <1>4, <1>5 DEF EngineInv, ChainInv
  <2>3. CASE q = r /\ Len(ver'[r]) # Len(ver[r])
    <3>1. CASE k = Len(ver[r]) + 1
      BY <3>1, <2>3, <1>4, <1>5
    <3>2. CASE k # Len(ver[r]) + 1
      <4>1. k \in 1..Len(ver[r]) /\ ver'[r][k].by = ver[r][k].by
        BY <3>2, <2>3, <1>4, <1>5
      <4>2. CASE k = Len(ver[r])
        BY <4>1, <4>2, <2>3, <1>4, <1>5, <1>6 DEF Top
      <4>3. CASE k # Len(ver[r])
        BY <4>1, <4>3, <2>3 DEF EngineInv, ChainInv
      <4> QED
        BY <4>2, <4>3
    <3> QED
      BY <3>1, <3>2
  <2> QED
    BY <2>1, <2>2, <2>3
<1>8. SnapInv' /\ \A u \in Tx : t \notin snap[u]
  BY <1>0, <1>4 DEF EngineInv, SnapInv, Committed
<1>9. PrefixInv'
  <2> SUFFICES ASSUME NEW u \in Tx, NEW q \in Row, NEW k \in 1..Len(ver'[q]),
                      ver'[q][k].by \in snap[u], NEW j \in 1..k
               PROVE  ver'[q][j].by \in snap[u]
    BY <1>0 DEF PrefixInv
  <2>1. CASE q # r
    BY <2>1, <1>1 DEF EngineInv, PrefixInv
  <2>2. CASE q = r
    <3>1. k \in 1..Len(ver[r]) /\ j \in 1..Len(ver[r])
      BY <2>2, <1>4, <1>5, <1>8
    <3>2. ver[r][k].by \in snap[u]
      BY <3>1, <2>2, <1>5
    <3> QED
      BY <3>1, <3>2, <2>2, <1>5 DEF EngineInv, PrefixInv
  <2> QED
    BY <2>1, <2>2
<1>10. NoLostUpdate'
  <2> SUFFICES ASSUME NEW q \in Row, NEW k \in 1..Len(ver'[q]),
                      iso[ver'[q][k].by] = "snapshot", NEW j \in 1..(k-1)
               PROVE  ver'[q][j].by \in snap[ver'[q][k].by]
    BY <1>0 DEF NoLostUpdate
  <2>1. CASE q # r
    BY <2>1, <1>1 DEF EngineInv, NoLostUpdate
  <2>2. CASE q = r /\ k \in 1..Len(ver[r])
    <3>1. j \in 1..Len(ver[r]) /\ j \in 1..(k-1)
      BY <2>2, <1>4
    <3>2. ver[r][j].by \in snap[ver[r][k].by]
      BY <3>1, <2>2, <1>5 DEF EngineInv, NoLostUpdate
    <3> QED
      BY <3>1, <3>2, <2>2, <1>5
  <2>3. CASE q = r /\ k \notin 1..Len(ver[r])
    <3>1. k = Len(ver[r]) + 1 /\ ver'[r][k].by = t /\ j \in 1..Len(ver[r])
          /\ (ver[r] = <<>> \/ Top(r).by # t)
      BY <2>3, <1>4, <1>5
    <3>2. ver[r] # <<>> /\ Top(r).by # t /\ Len(ver[r]) \in 1..Len(ver[r])
          /\ j \in 1..Len(ver[r])
      BY <3>1, <1>4
    <3>3. Top(r).by \in snap[t]
      BY <3>1, <3>2, <2>3 DEF Write, UpdateConflict, Sees
    <3>4. ver[r][j].by \in snap[t]
      BY <3>2, <3>3 DEF EngineInv, PrefixInv, Top
    <3> QED
      BY <3>1, <3>4, <2>3, <1>5
  <2> QED
    BY <2>1, <2>2, <2>3
<1>11. ReservationExclusive'
  <2>1. /\ \A u \in Tx \ {t} : rel'[u] = rel[u]
        /\ rel'[t] = IF rel[t] = "EX" THEN "EX" ELSE "SW"
    BY <1>0 DEF EngineTypeOK, Write
  <2>2. \A u \in Tx \ {t} : rel[u] # "EX"
    BY DEF Write, WriteBlockers, RelBlockers, Active, EngineInv, ReservationExclusive
  <2> QED
    BY <2>1, <2>2, <1>0, <1>4 DEF EngineInv, ReservationExclusive
<1>12. NoOrphan'
  BY <1>0 DEF EngineInv, NoOrphan
<1> QED
  BY <1>3, <1>7, <1>8, <1>9, <1>10, <1>11, <1>12 DEF EngineInv

(* A commit changes no version, or, with DDL, removes them all. *)
LEMMA CommitLemma ==
  ASSUME EngineInv, NEW t \in Tx, Commit(t)
  PROVE  EngineInv'
<1>0. EngineTypeOK /\ UNCHANGED <<conn, owner, iso, snap, pend>>
  BY DEF EngineInv, Commit
<1>1. ver' = ver \/ ver' = [r \in Row |-> <<>>]
  BY DEF Commit
<1>2. EngineTypeOK'
  <2>1. ver' \in [Row -> Seq(Version)]
    <3>1. <<>> \in Seq(Version)
      OBVIOUS
    <3>2. CASE ver' = ver
      BY <3>2, <1>0 DEF EngineTypeOK
    <3>3. CASE ver' = [r \in Row |-> <<>>]
      BY <3>1, <3>3
    <3> QED
      BY <1>1, <3>2, <3>3
  <2>2. tbl' \in BOOLEAN
    <3>1. CASE pend[t] = "none"
      BY <3>1, <1>0 DEF EngineTypeOK, Commit
    <3>2. CASE pend[t] # "none"
      BY <3>2 DEF Commit
    <3> QED
      BY <3>1, <3>2
  <2> QED
    BY <1>0, <2>1, <2>2 DEF EngineTypeOK, Commit, TxState, RelLock
<1>3. /\ \A u \in Tx \ {t} : state'[u] = state[u] /\ rel'[u] = rel[u]
      /\ state[t] = "active" /\ state'[t] = "committed" /\ rel'[t] = "none"
  BY <1>0 DEF EngineTypeOK, Commit
<1>4. ChainInv'
  <2> SUFFICES ASSUME ver' = ver, NEW r \in Row, NEW k \in 1..Len(ver[r])
               PROVE  \/ state'[ver[r][k].by] = "committed"
                      \/ k = Len(ver[r]) /\ state'[ver[r][k].by] = "active"
    BY <1>1 DEF ChainInv
  <2> QED
    BY <1>0, <1>3, VersionLemma DEF EngineInv, ChainInv
<1>5. SnapInv'
  BY <1>0, <1>3 DEF EngineInv, SnapInv, Committed
<1>6. PrefixInv' /\ NoLostUpdate'
  <2>1. CASE ver' = ver
    <3>1. PrefixInv'
      BY <2>1, <1>0 DEF EngineInv, PrefixInv
    <3>2. NoLostUpdate'
      BY <2>1, <1>0 DEF EngineInv, NoLostUpdate
    <3> QED
      BY <3>1, <3>2
  <2>2. CASE ver' = [r \in Row |-> <<>>]
    BY <2>2 DEF PrefixInv, NoLostUpdate
  <2> QED
    BY <1>1, <2>1, <2>2
<1>7. ReservationExclusive'
  BY <1>3 DEF EngineInv, ReservationExclusive
<1>8. NoOrphan'
  BY <1>0, <1>3 DEF EngineInv, NoOrphan
<1> QED
  BY <1>2, <1>4, <1>5, <1>6, <1>7, <1>8 DEF EngineInv

(* Ending active transactions S undoes their versions, which are on top:
   rollback of one transaction, or of all on an attachment. *)
LEMMA UndoLemma ==
  ASSUME EngineInv, NEW S \in SUBSET Active,
         conn' \in [Att -> {"closed", "open", "lost"}],
         state' = [t \in Tx |-> IF t \in S THEN "dead" ELSE state[t]],
         rel' = [t \in Tx |-> IF t \in S THEN "none" ELSE rel[t]],
         ver' = Undone(S),
         UNCHANGED <<owner, iso, snap, tbl, pend>>
  PROVE  EngineTypeOK' /\ ChainInv' /\ SnapInv' /\ PrefixInv' /\ NoLostUpdate'
         /\ ReservationExclusive'
<1>0. EngineTypeOK /\ S \subseteq Tx
  BY DEF EngineInv, Active
<1>1. ver' \in [Row -> Seq(Version)]
  BY <1>0, UndoneLemma DEF EngineTypeOK
<1>2. EngineTypeOK'
  BY <1>0, <1>1 DEF EngineTypeOK, TxState, RelLock
<1>3. \A u \in Tx : state[u] = "committed" => u \notin S /\ state'[u] = "committed"
  BY DEF Active
(* What is left of a chain is a prefix of it, without versions of S. *)
<1>4. \A r \in Row : /\ Len(ver'[r]) \in Nat /\ Len(ver[r]) \in Nat
                     /\ Len(ver'[r]) <= Len(ver[r])
                     /\ \A k \in 1..Len(ver'[r]) :
                          /\ k \in 1..Len(ver[r])
                          /\ ver'[r][k] = ver[r][k]
  <2> SUFFICES ASSUME NEW r \in Row
               PROVE  /\ Len(ver'[r]) \in Nat /\ Len(ver[r]) \in Nat
                      /\ Len(ver'[r]) <= Len(ver[r])
                      /\ \A k \in 1..Len(ver'[r]) :
                           /\ k \in 1..Len(ver[r])
                           /\ ver'[r][k] = ver[r][k]
    OBVIOUS
  <2>1. Len(ver[r]) \in Nat /\ Len(ver'[r]) \in Nat
    BY <1>0, <1>1 DEF EngineTypeOK
  <2>2. \/ ver'[r] = ver[r]
        \/ /\ Len(ver'[r]) = Len(ver[r]) - 1
           /\ \A i \in 1..(Len(ver[r]) - 1) : ver'[r][i] = ver[r][i]
    BY <1>0, UndoneLemma DEF EngineTypeOK
  <2> QED
    BY <2>1, <2>2
<1>5. ChainInv'
  <2> SUFFICES ASSUME NEW r \in Row, NEW k \in 1..Len(ver'[r])
               PROVE  \/ state'[ver'[r][k].by] = "committed"
                      \/ k = Len(ver'[r]) /\ state'[ver'[r][k].by] = "active"
    BY DEF ChainInv
  <2>1. k \in 1..Len(ver[r]) /\ ver'[r][k] = ver[r][k] /\ ver[r][k].by \in Tx
    BY <1>0, <1>4, VersionLemma
  <2>2. CASE state[ver[r][k].by] = "committed"
    BY <2>1, <2>2, <1>3
  <2>3. CASE k = Len(ver[r]) /\ state[ver[r][k].by] = "active"
    <3>1. Len(ver'[r]) = Len(ver[r])
      BY <2>3, <1>4
    <3>2. ver'[r] = ver[r] /\ ver[r] # <<>> /\ Top(r).by \notin S
      BY <3>1, <2>1, <1>0, <1>4, UndoneLemma DEF EngineTypeOK
    <3> QED
      BY <3>1, <3>2, <2>1, <2>3 DEF Top
  <2> QED
    BY <2>1, <2>2, <2>3 DEF EngineInv, ChainInv
<1>6. SnapInv'
  BY <1>0, <1>3 DEF EngineInv, SnapInv, Committed, EngineTypeOK
<1>7. PrefixInv'
  <2> SUFFICES ASSUME NEW u \in Tx, NEW r \in Row, NEW k \in 1..Len(ver'[r]),
                      ver'[r][k].by \in snap[u], NEW j \in 1..k
               PROVE  ver'[r][j].by \in snap[u]
    BY DEF PrefixInv
  <2>1. k \in 1..Len(ver[r]) /\ j \in 1..Len(ver'[r])
    BY <1>4
  <2> QED
    BY <2>1, <1>4 DEF EngineInv, PrefixInv
<1>8. NoLostUpdate'
  <2> SUFFICES ASSUME NEW r \in Row, NEW k \in 1..Len(ver'[r]),
                      iso[ver'[r][k].by] = "snapshot", NEW j \in 1..(k-1)
               PROVE  ver'[r][j].by \in snap[ver'[r][k].by]
    BY DEF NoLostUpdate
  <2>1. k \in 1..Len(ver[r]) /\ j \in 1..Len(ver'[r])
    BY <1>4
  <2> QED
    BY <2>1, <1>4 DEF EngineInv, NoLostUpdate
<1>9. ReservationExclusive'
  BY DEF EngineInv, ReservationExclusive
<1> QED
  BY <1>2, <1>5, <1>6, <1>7, <1>8, <1>9

LEMMA RollbackLemma ==
  ASSUME EngineInv, NEW t \in Tx, Rollback(t)
  PROVE  EngineInv'
<1>1. /\ EngineTypeOK /\ {t} \subseteq Active
      /\ UNCHANGED <<conn, owner, iso, snap, tbl, pend>> /\ ver' = Undone({t})
  BY DEF EngineInv, Rollback, Active
<1>2. /\ state' = [u \in Tx |-> IF u \in {t} THEN "dead" ELSE state[u]]
      /\ rel' = [u \in Tx |-> IF u \in {t} THEN "none" ELSE rel[u]]
  BY <1>1 DEF EngineTypeOK, Rollback
<1>3. EngineTypeOK' /\ ChainInv' /\ SnapInv' /\ PrefixInv' /\ NoLostUpdate'
      /\ ReservationExclusive'
  BY <1>1, <1>2, UndoLemma DEF EngineTypeOK
<1>4. NoOrphan'
  BY <1>1, <1>2 DEF EngineInv, NoOrphan
<1> QED
  BY <1>3, <1>4 DEF EngineInv

LEMMA DisconnectLemma ==
  ASSUME EngineInv, NEW a \in Att, NEW how \in {"closed", "lost"},
         Disconnect(a, how)
  PROVE  EngineInv'
<1> DEFINE gone == {t \in Active : owner[t] = a}
<1>1. /\ EngineTypeOK /\ gone \subseteq Active
      /\ conn' = [conn EXCEPT ![a] = how]
      /\ UNCHANGED <<owner, iso, snap, tbl, pend>> /\ ver' = Undone(gone)
      /\ state' = [u \in Tx |-> IF u \in gone THEN "dead" ELSE state[u]]
      /\ rel' = [u \in Tx |-> IF u \in gone THEN "none" ELSE rel[u]]
  BY DEF EngineInv, Disconnect
<1>2. EngineTypeOK' /\ ChainInv' /\ SnapInv' /\ PrefixInv' /\ NoLostUpdate'
      /\ ReservationExclusive'
  <2>1. conn' \in [Att -> {"closed", "open", "lost"}]
    BY <1>1 DEF EngineTypeOK
  <2> HIDE DEF gone
  <2> QED
    BY <1>1, <2>1, UndoLemma
<1>3. NoOrphan'
  BY <1>1 DEF EngineInv, EngineTypeOK, NoOrphan, Active
<1> QED
  BY <1>2, <1>3 DEF EngineInv

LEMMA NextLemma == EngineInv /\ [EngineNext]_evars => EngineInv'
<1> SUFFICES ASSUME EngineInv, [EngineNext]_evars PROVE EngineInv'
  OBVIOUS
<1>1. ASSUME NEW a \in Att, Attach(a) PROVE EngineInv'
  BY <1>1, AttachLemma
<1>2. ASSUME NEW a \in Att, NEW how \in {"closed", "lost"}, Disconnect(a, how)
      PROVE  EngineInv'
  BY <1>2, DisconnectLemma
<1>3. ASSUME NEW t \in Tx, NEW a \in Att, NEW i \in Isolation,
             NEW mode \in {"none", "EX"}, Start(t, a, i, mode)
      PROVE  EngineInv'
  BY <1>3, StartLemma
<1>4. ASSUME NEW t \in Tx, NEW r \in Row, NEW v \in Val, Write(t, r, v)
      PROVE  EngineInv'
  BY <1>4, WriteInvLemma
<1>5. ASSUME NEW t \in Tx, NEW d \in Ddl, Define(t, d) PROVE EngineInv'
  BY <1>5, DefineLemma
<1>6. ASSUME NEW t \in Tx, Commit(t) PROVE EngineInv'
  BY <1>6, CommitLemma
<1>7. ASSUME NEW t \in Tx, Rollback(t) PROVE EngineInv'
  BY <1>7, RollbackLemma
<1>8. CASE UNCHANGED evars
  BY <1>8 DEF evars, EngineInv, EngineTypeOK, ChainInv, SnapInv, PrefixInv,
              NoLostUpdate, ReservationExclusive, NoOrphan, Committed
<1> QED
  BY <1>1, <1>2, <1>3, <1>4, <1>5, <1>6, <1>7, <1>8 DEF EngineNext

(* Whatever the clients do, the engine's version chains, snapshots, locks and
   types stay as the samples rely on them to be. *)
THEOREM EngineInvariant == EngineSpec => []EngineInv
<1> QED
  BY InitLemma, NextLemma, PTL DEF EngineSpec

(* No committed update is ever overwritten by a SNAPSHOT transaction that did
   not see it: the conflict the transactions and lock_manager samples provoke
   cannot be missed, for any number of clients, rows and values. *)
THEOREM NoLostUpdateTheorem == EngineSpec => []NoLostUpdate
<1>1. EngineInv => NoLostUpdate
  BY DEF EngineInv
<1> QED
  BY <1>1, EngineInvariant, PTL

(* A PROTECTED WRITE reservation is never shared, and no lock survives the
   transaction or the connection that took it. *)
THEOREM ReservationTheorem == EngineSpec => [](ReservationExclusive /\ NoOrphan)
<1>1. EngineInv => ReservationExclusive /\ NoOrphan
  BY DEF EngineInv
<1> QED
  BY <1>1, EngineInvariant, PTL

-----------------------------------------------------------------------------
(* The reads of a snapshot. *)

(* A read is determined by the versions seen and their values. *)
LEMMA ReadLemma ==
  ASSUME NEW t, NEW r, SeenAt(t, r)' = SeenAt(t, r),
         \A i \in SeenAt(t, r) : ver'[r][i].val = ver[r][i].val
  PROVE  Read(t, r)' = Read(t, r)
<1> DEFINE last == {j \in SeenAt(t, r) : \A k \in SeenAt(t, r) : k <= j}
<1>1. Read(t, r)' = {ver'[r][i].val : i \in last}
  BY DEF Read
<1>2. Read(t, r) = {ver[r][i].val : i \in last}
  BY DEF Read
<1>3. \A i \in last : ver'[r][i].val = ver[r][i].val
  OBVIOUS
<1> QED
  BY <1>1, <1>2, <1>3

(* Two chains that differ only in a version on top that t does not see. *)
LEMMA SameSeenLemma ==
  ASSUME NEW t, NEW r, Sees(t)' = Sees(t),
         NEW n \in Nat, Len(ver[r]) \in Nat, Len(ver'[r]) \in Nat,
         n <= Len(ver[r]), n <= Len(ver'[r]),
         \A i \in 1..n : ver'[r][i] = ver[r][i],
         \A i \in (n+1)..Len(ver[r]) : ver[r][i].by \notin Sees(t),
         \A i \in (n+1)..Len(ver'[r]) : ver'[r][i].by \notin Sees(t)
  PROVE  Read(t, r)' = Read(t, r)
<1>1. SeenAt(t, r) = {i \in 1..n : ver[r][i].by \in Sees(t)}
  BY DEF SeenAt
<1>2. SeenAt(t, r)' = {i \in 1..n : ver'[r][i].by \in Sees(t)}
  <2>1. SeenAt(t, r)' = {i \in 1..Len(ver'[r]) : ver'[r][i].by \in Sees(t)}
    BY DEF SeenAt
  <2> QED
    BY <2>1
<1>3. SeenAt(t, r)' = SeenAt(t, r)
  BY <1>1, <1>2
<1> QED
  BY <1>1, <1>3, ReadLemma

(* Every step of the engine leaves a running snapshot's reads alone, except
   for its own writes. *)
LEMMA StableLemma ==
  ASSUME EngineInv, EngineNext,
         NEW t \in Tx, NEW r \in Row, state[t] = "active", state'[t] = "active",
         iso[t] = "snapshot", ~OwnTop(t, r)'
  PROVE  Read(t, r)' = Read(t, r)
<1>0. /\ EngineTypeOK /\ ver[r] \in Seq(Version) /\ Len(ver[r]) \in Nat
      /\ (ver[r] = <<>> <=> Len(ver[r]) = 0)
  BY DEF EngineInv, EngineTypeOK
<1>a. EngineTypeOK' /\ ver'[r] \in Seq(Version) /\ Len(ver'[r]) \in Nat
      /\ (ver'[r] = <<>> <=> Len(ver'[r]) = 0)
  <2>1. EngineInv'
    BY NextLemma
  <2>2. EngineTypeOK'
    BY <2>1 DEF EngineInv
  <2> QED
    BY <2>2 DEF EngineTypeOK
<1>b. \A u \in Active \ {t} : u \notin Sees(t)
  BY DEF EngineInv, SnapInv, Committed, Active, Sees
<1>1. Sees(t) = {t} \cup snap[t]
  BY DEF Sees
<1>2. CASE ver' = ver /\ snap'[t] = snap[t] /\ iso'[t] = iso[t]
  <2>1. Sees(t)' = Sees(t)
    BY <1>2, <1>1 DEF Sees
  <2> QED
    BY <2>1, <1>2, <1>0, SameSeenLemma
<1>3. ASSUME NEW a \in Att, Attach(a) PROVE Read(t, r)' = Read(t, r)
  BY <1>2, <1>3 DEF Attach
<1>4. ASSUME NEW u \in Tx, NEW a \in Att, NEW i \in Isolation,
             NEW mode \in {"none", "EX"}, Start(u, a, i, mode)
      PROVE  Read(t, r)' = Read(t, r)
  BY <1>2, <1>4, <1>0 DEF Start, EngineTypeOK
<1>5. ASSUME NEW u \in Tx, NEW d \in Ddl, Define(u, d) PROVE Read(t, r)' = Read(t, r)
  BY <1>2, <1>5 DEF Define
<1>6. ASSUME NEW u \in Tx, Commit(u) PROVE Read(t, r)' = Read(t, r)
  <2>1. u # t
    BY <1>6, <1>0 DEF Commit, EngineTypeOK
  <2>2. pend[u] = "none"
    BY <1>6, <2>1 DEF Commit, DdlInUse, Active
  <2> QED
    BY <1>2, <1>6, <2>2 DEF Commit
<1>7. ASSUME NEW u \in Tx, NEW q \in Row, NEW v \in Val, Write(u, q, v)
      PROVE  Read(t, r)' = Read(t, r)
  <2>0. UNCHANGED <<snap, iso>> /\ state[u] = "active"
    BY <1>7 DEF Write
  <2>1. Sees(t)' = Sees(t)
    BY <2>0, <1>1 DEF Sees
  <2>2. CASE q # r
    <3>1. ver'[r] = ver[r]
      BY <2>2, <1>7, <1>0, WriteLemma
    <3> QED
      BY <3>1, <2>1, <1>0, SameSeenLemma
  <2>3. CASE q = r
    <3>1. CASE ver[r] # <<>> /\ Top(r).by = u
      <4>1. ver' = [ver EXCEPT ![r] = [ver[r] EXCEPT ![Len(ver[r])] = [by |-> u, val |-> v]]]
        BY <3>1, <2>3, <1>7 DEF Write
      <4>2. ver'[r] = [ver[r] EXCEPT ![Len(ver[r])] = [by |-> u, val |-> v]]
        BY <4>1, <1>0 DEF EngineTypeOK
      <4>3. /\ Len(ver'[r]) = Len(ver[r]) /\ ver'[r][Len(ver[r])].by = u
            /\ \A i \in 1..(Len(ver[r]) - 1) : ver'[r][i] = ver[r][i]
        BY <4>2, <3>1, <1>0
      <4>4. u # t
        BY <4>3, <3>1, <1>0, <1>a DEF OwnTop, Top
      <4>5. u \notin Sees(t)
        BY <4>4, <2>0, <1>b DEF Active
      <4> DEFINE n == Len(ver[r]) - 1
      <4>6. n \in Nat /\ n <= Len(ver[r]) /\ n <= Len(ver'[r])
        BY <3>1, <1>0, <4>3
      <4>7. /\ \A i \in (n + 1)..Len(ver[r]) : ver[r][i].by \notin Sees(t)
            /\ \A i \in (n + 1)..Len(ver'[r]) : ver'[r][i].by \notin Sees(t)
        BY <4>3, <4>5, <3>1, <1>0 DEF Top
      <4>8. \A i \in 1..n : ver'[r][i] = ver[r][i]
        BY <4>3
      <4> HIDE DEF n
      <4> QED
        BY <4>6, <4>7, <4>8, <2>1, <1>0, <1>a, SameSeenLemma
    <3>2. CASE ~(ver[r] # <<>> /\ Top(r).by = u)
      <4>1. /\ Len(ver'[r]) = Len(ver[r]) + 1 /\ ver'[r][Len(ver[r]) + 1].by = u
            /\ \A i \in 1..Len(ver[r]) : ver'[r][i] = ver[r][i]
        BY <3>2, <2>3, <1>7, <1>0, WriteLemma
      <4>2. u # t
        BY <4>1, <1>0, <1>a DEF OwnTop, Top
      <4>3. u \notin Sees(t)
        BY <4>2, <2>0, <1>b DEF Active
      <4> DEFINE n == Len(ver[r])
      <4>4. n \in Nat /\ n <= Len(ver[r]) /\ n <= Len(ver'[r]) /\ Len(ver'[r]) \in Nat
        BY <4>1, <1>0
      <4>5. /\ \A i \in (n + 1)..Len(ver[r]) : ver[r][i].by \notin Sees(t)
            /\ \A i \in (n + 1)..Len(ver'[r]) : ver'[r][i].by \notin Sees(t)
        BY <4>1, <4>3, <1>0
      <4>6. Len(ver[r]) \in Nat /\ \A i \in 1..n : ver'[r][i] = ver[r][i]
        BY <4>1, <1>0
      <4> HIDE DEF n
      <4> QED
        BY <4>4, <4>5, <4>6, <2>1, SameSeenLemma
    <3> QED
      BY <3>1, <3>2
  <2> QED
    BY <2>2, <2>3
<1>8. ASSUME NEW S \in SUBSET (Active \ {t}), ver' = Undone(S), UNCHANGED <<snap, iso>>
      PROVE  Read(t, r)' = Read(t, r)
  <2>1. Sees(t)' = Sees(t)
    BY <1>8, <1>1 DEF Sees
  <2>2. CASE ver'[r] = ver[r]
    BY <2>1, <2>2, <1>0, SameSeenLemma
  <2>3. CASE /\ ver[r] # <<>> /\ Top(r).by \in S
             /\ Len(ver'[r]) = Len(ver[r]) - 1
             /\ \A i \in 1..(Len(ver[r]) - 1) : ver'[r][i] = ver[r][i]
    <3>1. Top(r).by \notin Sees(t) /\ Len(ver[r]) - 1 \in Nat
      BY <2>3, <1>8, <1>b, <1>0
    <3> DEFINE n == Len(ver[r]) - 1
    <3>2. n \in Nat /\ n <= Len(ver[r]) /\ n <= Len(ver'[r])
      BY <2>3, <3>1, <1>0
    <3>3. /\ \A i \in (n + 1)..Len(ver[r]) : ver[r][i].by \notin Sees(t)
          /\ \A i \in (n + 1)..Len(ver'[r]) : ver'[r][i].by \notin Sees(t)
      <4>1. \A i \in (n + 1)..Len(ver[r]) : i = Len(ver[r])
        BY <1>0
      <4>2. \A i \in (n + 1)..Len(ver'[r]) : FALSE
        BY <2>3, <1>0
      <4> QED
        BY <3>1, <4>1, <4>2 DEF Top
    <3>4. \A i \in 1..n : ver'[r][i] = ver[r][i]
      BY <2>3
    <3>5. Len(ver[r]) \in Nat /\ Len(ver'[r]) \in Nat
      BY <2>3, <3>1, <1>0
    <3> HIDE DEF n
    <3> QED
      BY <2>1, <3>2, <3>3, <3>4, <3>5, SameSeenLemma
  <2> QED
    BY <2>2, <2>3, <1>0, <1>8, UndoneLemma DEF EngineTypeOK
<1>9. ASSUME NEW u \in Tx, Rollback(u) PROVE Read(t, r)' = Read(t, r)
  <2>1. u # t
    BY <1>9, <1>0 DEF Rollback, EngineTypeOK
  <2>2. {u} \in SUBSET (Active \ {t})
    BY <2>1, <1>9 DEF Rollback, Active
  <2> QED
    BY <2>2, <1>8, <1>9 DEF Rollback
<1>10. ASSUME NEW a \in Att, NEW how \in {"closed", "lost"}, Disconnect(a, how)
       PROVE  Read(t, r)' = Read(t, r)
  <2> DEFINE gone == {u \in Active : owner[u] = a}
  <2>1. state' = [u \in Tx |-> IF u \in gone THEN "dead" ELSE state[u]]
        /\ ver' = Undone(gone) /\ UNCHANGED <<snap, iso>>
    BY <1>10 DEF Disconnect
  <2>2. gone \in SUBSET (Active \ {t})
    BY <2>1
  <2> HIDE DEF gone
  <2> QED
    BY <2>1, <2>2, <1>8
<1> QED
  BY <1>3, <1>4, <1>5, <1>6, <1>7, <1>9, <1>10 DEF EngineNext

(* The stable view of SNAPSHOT that the transactions samples print: while it
   runs, no step of anybody else changes what it reads. *)
THEOREM SnapshotStableTheorem == EngineSpec => SnapshotStable
<1>1. EngineInv /\ [EngineNext]_evars => [StableStep]_evars
  BY StableLemma DEF StableStep
<1> QED
  BY <1>1, EngineInvariant, PTL DEF EngineSpec, SnapshotStable

-----------------------------------------------------------------------------
(* The samples *)

(* One thread's step changes the engine's state by one engine operation, or
   not at all. *)
LEMMA StepLemma ==
  ASSUME NEW th \in Threads, Step(th)
  PROVE  [EngineNext]_evars
<1>1. CASE DoAttach(th)
  BY <1>1 DEF DoAttach, EngineNext
<1>2. CASE DoDetach(th)
  BY <1>2 DEF DoDetach, EngineNext
<1>3. CASE DoStart(th)
  BY <1>3 DEF DoStart, EngineNext
<1>4. CASE DoWrite(th)
  <2>1. PICK t \in Tx, r \in Row :
           IF Op(th).op = "insert" \/ Read(t, r) # {}
           THEN \E v \in Val : v = Apply(Op(th).fn, Read(t, r)) /\ Write(t, r, v)
           ELSE state[t] = "active" /\ tbl /\ UNCHANGED evars
    BY <1>4 DEF DoWrite
  <2> QED
    BY <2>1 DEF EngineNext
<1>5. CASE DoDdl(th)
  <2>1. PICK t \in Tx : Define(t, IF Op(th).op = "drop" THEN "drop" ELSE "create")
    BY <1>5 DEF DoDdl
  <2> QED
    BY <2>1 DEF EngineNext, Ddl
<1>6. CASE DoCommit(th)
  BY <1>6 DEF DoCommit, EngineNext
<1>7. CASE DoRollback(th)
  BY <1>7 DEF DoRollback, EngineNext
<1>8. CASE DoRead(th) \/ DoAttachRefused(th) \/ DoFailStatement(th)
           \/ DoFailLost(th) \/ DoLockDenied(th)
  BY <1>8 DEF DoRead, DoAttachRefused, DoFailStatement, DoFailLost, DoLockDenied
<1>9. CASE DoSpawn(th) \/ DoJoin(th) \/ DoSet(th) \/ DoAwait(th) \/ DoUnless(th)
           \/ DoRaise(th) \/ DoExit(th)
  BY <1>9 DEF DoSpawn, DoJoin, DoSet, DoAwait, DoUnless, DoRaise, DoExit
<1> QED
  BY <1>1, <1>2, <1>3, <1>4, <1>5, <1>6, <1>7, <1>8, <1>9 DEF Step

LEMMA SamplesNextLemma == [Next]_vars => [EngineNext]_evars
<1> SUFFICES ASSUME [Next]_vars PROVE [EngineNext]_evars
  OBVIOUS
<1>1. CASE \E th \in Threads : Step(th)
  BY <1>1, StepLemma
<1>2. CASE MainReturns
  BY <1>2 DEF MainReturns
<1>3. CASE \E a \in Att : ConnectionLost(a)
  BY <1>3 DEF ConnectionLost, EngineNext
<1>4. CASE Terminating \/ UNCHANGED vars
  BY <1>4 DEF Terminating, vars
<1> QED
  BY <1>1, <1>2, <1>3, <1>4 DEF Next

(* The interpreter drives the engine only through its operations. *)
LEMMA SamplesImplementEngine == Spec => EngineSpec
<1>1. Init => EngineInit
  BY DEF Init
<1> QED
  BY <1>1, SamplesNextLemma, PTL DEF Spec, EngineSpec

-----------------------------------------------------------------------------
(* Third part: a program that keeps to the discipline never uses a transaction
   after its end. *)

(* What thread th owns in the current state, and its view of it: main owns
   what is not lent, another thread what it was lent. *)
Has(th, x) ==
  IF th = "main" THEN x \notin UNION {Outline[prog].share[k] : k \in born \ joined}
  ELSE x \in Outline[prog].share[th]

Young(th) == IF th = "main" THEN born ELSE {}
Old(th) == IF th = "main" THEN joined ELSE {}
OpenOf(th) == {t \in Tx : handle[t] = "open" /\ Has(th, t)}
SetOf(th) == {f \in flags : Has(th, f)}

Grounded == /\ prog \in DOMAIN Programs
            /\ {"main"} \subseteq born /\ born \subseteq Threads
            /\ joined \subseteq born \ {"main"}

(* A thread's place in its outline, in these terms. *)
LEMMA SpotLemma ==
  ASSUME NEW th
  PROVE  /\ Spot(th) = Place(code[th], OpenOf(th), SetOf(th), Young(th), Old(th))
         /\ \A x : Owns(Outline[prog], th, Spot(th), x) <=> Has(th, x)
  BY DEF Spot, Place, OpenOf, SetOf, Young, Old, Has, Owns, Lent

(* Nothing has two owners. *)
LEMMA ApartLemma ==
  ASSUME Disciplined, Grounded, NEW j \in born \ joined, NEW k \in born \ joined, j # k,
         NEW x, Has(j, x), Has(k, x)
  PROVE  FALSE
<1> DEFINE O == Outline[prog]
<1>1. \A a, b \in Threads : a # b => O.share[a] \cap O.share[b] = {}
  BY DEF Disciplined, Supports, Grounded
<1> QED
  BY <1>1 DEF Has, Grounded

(* A step of one thread that touches only what it owns. *)
LEMMA FrameLemma ==
  ASSUME Disciplined, Grounded, InOutline, NEW th \in born \ joined,
         UNCHANGED <<prog, born, joined>>,
         \A k \in Threads \ {th} : code'[k] = code[k],
         \A t \in Tx : ~Has(th, t) => handle'[t] = handle[t],
         \A f : ~Has(th, f) => (f \in flags' <=> f \in flags),
         Place(code'[th], OpenOf(th)', SetOf(th)', Young(th), Old(th)) \in Outline[prog].at[th]
  PROVE  InOutline'
<1>1. \A k, x : Has(k, x)' <=> Has(k, x)
  BY DEF Has
<1>2. ASSUME NEW k \in born \ joined
      PROVE  Spot(k)' \in Outline[prog].at[k]
  <2>1. Spot(k)' = Place(code'[k], OpenOf(k)', SetOf(k)', Young(k)', Old(k)')
    BY DEF Spot, Place, OpenOf, SetOf, Young, Old, Has, Owns, Lent
  <2>2. Young(k)' = Young(k) /\ Old(k)' = Old(k)
    BY DEF Young, Old
  <2>3. CASE k = th
    BY <2>1, <2>2, <2>3
  <2>4. CASE k # th
    <3>1. \A x : Has(k, x) => ~Has(th, x)
      BY <2>4, ApartLemma
    <3>2. OpenOf(k)' = OpenOf(k)
      BY <1>1, <3>1 DEF OpenOf
    <3>3. SetOf(k)' = SetOf(k)
      BY <1>1, <3>1 DEF SetOf
    <3>4. code'[k] = code[k]
      BY <2>4 DEF Grounded
    <3>5. Spot(k)' = Spot(k)
      BY <2>1, <2>2, <3>2, <3>3, <3>4, SpotLemma
    <3> QED
      BY <3>5 DEF InOutline
  <2> QED
    BY <2>3, <2>4
<1>3. \A k \in Threads \ born : code'[k] = StartCode(Prog, k)
  BY DEF InOutline
<1>4. \A k \in joined : code'[k] = <<>>
  BY DEF InOutline, Grounded
<1> QED
  BY <1>2, <1>3, <1>4 DEF InOutline, Prog

(* What the outline says of the place a thread is at. *)
LEMMA HereLemma ==
  ASSUME Disciplined, Grounded, InOutline, NEW th \in Threads, Runs(th)
  PROVE  /\ th \in born \ joined
         /\ Spot(th) \in Outline[prog].at[th]
         /\ Spot(th).code = code[th] /\ Spot(th).open = OpenOf(th) /\ Spot(th).set = SetOf(th)
         /\ Spot(th).born = Young(th) /\ Spot(th).joined = Old(th)
         /\ Allowed(Outline[prog], th, Spot(th))
         /\ After(Prog, Outline[prog], th, Spot(th)) \subseteq Outline[prog].at[th]
         /\ Op(th).op = "spawn" =>
              Begins(Prog, Outline[prog], Spot(th)) \in Outline[prog].at[Op(th).att]
<1>1. th \in born \ joined /\ code[th] # <<>>
  BY DEF Runs, InOutline
<1>2. Spot(th) \in Outline[prog].at[th]
  BY <1>1 DEF InOutline
<1>3. /\ Spot(th).code = code[th] /\ Spot(th).open = OpenOf(th) /\ Spot(th).set = SetOf(th)
      /\ Spot(th).born = Young(th) /\ Spot(th).joined = Old(th)
  BY SpotLemma DEF Place
<1>4. Supports(Prog, Outline[prog])
  BY DEF Disciplined, Grounded, Prog
<1> QED
  BY <1>1, <1>2, <1>3, <1>4 DEF Supports, Op

(* What each kind of call makes of a place. *)
LEMMA DoneLemma ==
  ASSUME NEW P, NEW O, NEW c, NEW open, NEW set, NEW young, NEW old, NEW d
  PROVE  LET o == Head(c)
             D == Done(P, O, Place(c, open, set, young, old), d)
         IN
         /\ o.op \in {"start", "reserve"} => Place(d, open \cup {o.tx}, set, young, old) \in D
         /\ o.op \in {"commit", "rollback"} => Place(d, open \ {o.tx}, set, young, old) \in D
         /\ o.op = "set" => Place(d, open, set \cup {o.att}, young, old) \in D
         /\ o.op = "spawn" => Place(d, open \ O.share[o.att], set \ O.share[o.att],
                                    young \cup {o.att}, old) \in D
         /\ o.op = "join" => \A q \in O.at[o.att] : q.code = <<>> =>
              Place(d, open \cup q.open, set \cup q.set, young, old \cup {o.att}) \in D
         /\ o.op \notin {"start", "reserve", "commit", "rollback", "set", "spawn", "join"} =>
              Place(d, open, set, young, old) \in D
<1> DEFINE p == Place(c, open, set, young, old)
<1>1. p.code = c /\ p.open = open /\ p.set = set /\ p.born = young /\ p.joined = old
  BY DEF Place
<1> HIDE DEF p
<1> SUFFICES LET o == Head(c)  D == Done(P, O, p, d) IN
         /\ o.op \in {"start", "reserve"} => D = {Place(d, open \cup {o.tx}, set, young, old)}
         /\ o.op \in {"commit", "rollback"} => D = {Place(d, open \ {o.tx}, set, young, old)}
         /\ o.op = "set" => D = {Place(d, open, set \cup {o.att}, young, old)}
         /\ o.op = "spawn" => D = {Place(d, open \ O.share[o.att], set \ O.share[o.att],
                                         young \cup {o.att}, old)}
         /\ o.op = "join" => D =
              {Place(d, open \cup q.open, set \cup q.set, young, old \cup {o.att}) :
                 q \in {q \in O.at[o.att] : q.code = <<>>}}
         /\ o.op \notin {"start", "reserve", "commit", "rollback", "set", "spawn", "join"} =>
              D = {Place(d, open, set, young, old)}
  BY DEF p
<1> QED
  BY <1>1 DEF Done

(* The places After lists. *)
LEMMA AfterLemma ==
  ASSUME NEW P, NEW O, NEW th, NEW p, p.code # <<>>
  PROVE  LET o == Head(p.code)  A == After(P, O, th, p)  failed == Thrown(P, th, p.code) IN
         /\ o.op \notin {"unless", "raise", "exit"} => Done(P, O, p, Onward(p.code)) \subseteq A
         /\ o.op = "unless" =>
              Done(P, O, p, IF o.att \in p.set THEN Tail(p.code) ELSE Onward(p.code)) \subseteq A
         /\ CanFail(P, o) /\ o.op = "join" => Done(P, O, p, failed) \subseteq A
         /\ CanFail(P, o) /\ o.op # "join" => 
              Place(failed, p.open, p.set, p.born, p.joined) \in A
BY DEF After

(* The inductive invariant behind SamplesInv. *)
Ready == Disciplined /\ TypeOK /\ InOutline /\ "main" \notin joined

LEMMA ReadyLemma == Ready => Disciplined /\ Grounded /\ InOutline /\ DOMAIN code = Threads
BY DEF Ready, Grounded, TypeOK

(* Where a thread is, what it may do there and where it goes. *)
LEMMA WhereLemma ==
  ASSUME Ready, NEW th \in Threads, Runs(th)
  PROVE  LET o == Op(th)
             O == Outline[prog]
             S(c) == Place(c, OpenOf(th), SetOf(th), Young(th), Old(th))
             D(c) == Done(Prog, O, S(code[th]), c)
             failed == Thrown(Prog, th, code[th])
         IN
         /\ th \in born \ joined /\ th \in DOMAIN code
         /\ Allowed(O, th, Spot(th))
         /\ \A x : Owns(O, th, Spot(th), x) <=> Has(th, x)
         /\ Spot(th).code = code[th] /\ Spot(th).open = OpenOf(th)
         /\ Spot(th).born = Young(th) /\ Spot(th).joined = Old(th)
         /\ o.op \notin {"unless", "raise", "exit"} => D(Onward(code[th])) \subseteq O.at[th]
         /\ o.op = "unless" =>
              D(IF o.att \in SetOf(th) THEN Tail(code[th]) ELSE Onward(code[th])) \subseteq O.at[th]
         /\ CanFail(Prog, o) /\ o.op = "join" => D(failed) \subseteq O.at[th]
         /\ CanFail(Prog, o) /\ o.op # "join" => S(failed) \in O.at[th]
<1>1. /\ Disciplined /\ Grounded /\ InOutline /\ DOMAIN code = Threads
      /\ Spot(th) = Place(code[th], OpenOf(th), SetOf(th), Young(th), Old(th))
      /\ \A x : Owns(Outline[prog], th, Spot(th), x) <=> Has(th, x)
  BY ReadyLemma, SpotLemma
<1>2. /\ th \in born \ joined
      /\ Spot(th).code = code[th] /\ Spot(th).open = OpenOf(th) /\ Spot(th).set = SetOf(th)
      /\ Spot(th).born = Young(th) /\ Spot(th).joined = Old(th)
      /\ Allowed(Outline[prog], th, Spot(th))
      /\ After(Prog, Outline[prog], th, Spot(th)) \subseteq Outline[prog].at[th]
  BY <1>1, HereLemma
<1>3. Spot(th).code # <<>> /\ Head(Spot(th).code) = Op(th)
  BY <1>2 DEF Runs, Op
<1> QED
  BY <1>1, <1>2, <1>3, AfterLemma

(* A step that leaves the handles and flags alone, for the places it goes to. *)
LEMMA QuietLemma ==
  ASSUME Ready, NEW th \in born \ joined, UNCHANGED <<prog, born, joined, handle, flags>>,
         NEW c, code' = [code EXCEPT ![th] = c],
         Place(c, OpenOf(th), SetOf(th), Young(th), Old(th)) \in Outline[prog].at[th]
  PROVE  InOutline'
<1>1. OpenOf(th)' = OpenOf(th) /\ SetOf(th)' = SetOf(th)
  BY DEF OpenOf, SetOf, Has
<1>2. th \in Threads /\ code'[th] = c /\ \A k \in Threads \ {th} : code'[k] = code[k]
  BY ReadyLemma DEF Grounded
<1> QED
  BY <1>1, <1>2, ReadyLemma, FrameLemma

(* The outline covers what follows a call that succeeds and changes no handle,
   flag or thread, and what follows any call but join that fails. *)
LEMMA GoesLemma ==
  ASSUME Ready, NEW th \in Threads, Runs(th), Goes(th),
         UNCHANGED <<born, joined, handle, flags>>,
         Op(th).op \notin {"start", "reserve", "commit", "rollback", "set", "spawn", "join",
                           "unless", "raise", "exit"}
  PROVE  InOutline'
<1>1. Place(Onward(code[th]), OpenOf(th), SetOf(th), Young(th), Old(th)) \in Outline[prog].at[th]
  <2>1. Done(Prog, Outline[prog],
             Place(code[th], OpenOf(th), SetOf(th), Young(th), Old(th)), Onward(code[th]))
          \subseteq Outline[prog].at[th]
    BY WhereLemma
  <2>2. Head(code[th]).op \notin {"start", "reserve", "commit", "rollback", "set", "spawn", "join"}
    BY DEF Op
  <2> QED
    BY <2>1, <2>2, DoneLemma
<1> QED
  BY <1>1, WhereLemma, QuietLemma DEF Goes, Op, Onward

LEMMA ThrowsLemma ==
  ASSUME Ready, NEW th \in Threads, Runs(th), Throws(th),
         UNCHANGED <<born, joined, handle, flags>>,
         Op(th).op # "join", CanFail(Prog, Op(th))
  PROVE  InOutline'
<1>1. Place(Thrown(Prog, th, code[th]), OpenOf(th), SetOf(th), Young(th), Old(th))
        \in Outline[prog].at[th]
  BY WhereLemma DEF Op
<1>2. \/ code' = code
      \/ code' = [code EXCEPT ![th] = Thrown(Prog, th, code[th])]
  BY DEF Throws, Thrown, UncaughtInMain, UncaughtInThread, Op
<1>3. CASE code' = code
  <2>1. UNCHANGED <<prog, code, born, joined, handle, flags>>
    BY <1>3 DEF Throws
  <2> QED
    BY <2>1 DEF Ready, InOutline, Spot, Prog
<1>4. CASE code' = [code EXCEPT ![th] = Thrown(Prog, th, code[th])]
  BY <1>1, <1>4, WhereLemma, QuietLemma DEF Throws
<1> QED
  BY <1>2, <1>3, <1>4

(* A step of thread th that goes on, and changes only what it owns. *)
LEMMA OwnLemma ==
  ASSUME Ready, NEW th \in Threads, Runs(th), UNCHANGED <<prog, born, joined>>,
         NEW c, code' = [code EXCEPT ![th] = c],
         \A t \in Tx : ~Has(th, t) => handle'[t] = handle[t],
         \A f : ~Has(th, f) => (f \in flags' <=> f \in flags),
         NEW open, NEW set, OpenOf(th)' = open, SetOf(th)' = set,
         Place(c, open, set, Young(th), Old(th)) \in Outline[prog].at[th]
  PROVE  InOutline'
<1>1. /\ th \in born \ joined /\ code'[th] = c
      /\ \A k \in Threads \ {th} : code'[k] = code[k]
  BY WhereLemma, ReadyLemma
<1> QED
  BY <1>1, ReadyLemma, FrameLemma

(* start and reserve, commit and rollback, set and unless: the thread's own
   view follows what it did. *)
LEMMA StartsLemma ==
  ASSUME Ready, NEW th \in Threads, Runs(th), Goes(th), Op(th).op \in {"start", "reserve"},
         UNCHANGED <<born, joined, flags>>,
         handle' = [handle EXCEPT ![Op(th).tx] = "open"]
  PROVE  InOutline'
<1> DEFINE t == Op(th).tx
<1>1. t \in Tx /\ Has(th, t) /\ handle \in [Tx -> {"none", "open", "closed"}]
  BY WhereLemma DEF Allowed, Op, Ready, TypeOK
<1>2. code' = [code EXCEPT ![th] = Onward(code[th])] /\ UNCHANGED prog
  BY DEF Goes, Op, Onward
<1>3. OpenOf(th)' = OpenOf(th) \cup {t} /\ SetOf(th)' = SetOf(th)
  BY <1>1, <1>2 DEF OpenOf, SetOf, Has
<1>4. Place(Onward(code[th]), OpenOf(th) \cup {t}, SetOf(th), Young(th), Old(th))
        \in Outline[prog].at[th]
  <2>1. Done(Prog, Outline[prog],
             Place(code[th], OpenOf(th), SetOf(th), Young(th), Old(th)), Onward(code[th]))
          \subseteq Outline[prog].at[th]
    BY WhereLemma
  <2> QED
    BY <2>1, DoneLemma DEF Op
<1>5. \A u \in Tx : ~Has(th, u) => handle'[u] = handle[u]
  BY <1>1
<1> QED
  BY <1>2, <1>3, <1>4, <1>5, OwnLemma

LEMMA EndsLemma ==
  ASSUME Ready, NEW th \in Threads, Runs(th), Goes(th), Op(th).op \in {"commit", "rollback"},
         UNCHANGED <<born, joined, flags>>,
         handle' = [handle EXCEPT ![Op(th).tx] = "closed"]
  PROVE  InOutline'
<1> DEFINE t == Op(th).tx
<1>1. t \in Tx /\ Has(th, t) /\ handle \in [Tx -> {"none", "open", "closed"}]
  BY WhereLemma DEF Allowed, Op, Ready, TypeOK, TxCalls
<1>2. code' = [code EXCEPT ![th] = Onward(code[th])] /\ UNCHANGED prog
  BY DEF Goes, Op, Onward
<1>3. OpenOf(th)' = OpenOf(th) \ {t} /\ SetOf(th)' = SetOf(th)
  BY <1>1, <1>2 DEF OpenOf, SetOf, Has
<1>4. Place(Onward(code[th]), OpenOf(th) \ {t}, SetOf(th), Young(th), Old(th))
        \in Outline[prog].at[th]
  <2>1. Done(Prog, Outline[prog],
             Place(code[th], OpenOf(th), SetOf(th), Young(th), Old(th)), Onward(code[th]))
          \subseteq Outline[prog].at[th]
    BY WhereLemma
  <2> QED
    BY <2>1, DoneLemma DEF Op
<1>5. \A u \in Tx : ~Has(th, u) => handle'[u] = handle[u]
  BY <1>1
<1> QED
  BY <1>2, <1>3, <1>4, <1>5, OwnLemma

LEMMA SetLemma ==
  ASSUME Ready, NEW th \in Threads, DoSet(th)
  PROVE  InOutline'
<1> DEFINE f == Op(th).att
<1>0. Runs(th) /\ Op(th).op = "set" /\ Goes(th) /\ UNCHANGED <<born, joined, handle>>
  BY DEF DoSet, At, Op, Succeeds
<1>1. Has(th, f)
  BY <1>0, WhereLemma DEF Allowed, Op
<1>2. code' = [code EXCEPT ![th] = Onward(code[th])] /\ UNCHANGED prog
  BY <1>0 DEF Goes, Op, Onward
<1>3. OpenOf(th)' = OpenOf(th) /\ SetOf(th)' = SetOf(th) \cup {f}
  BY <1>0, <1>1, <1>2 DEF OpenOf, SetOf, Has, DoSet
<1>4. Place(Onward(code[th]), OpenOf(th), SetOf(th) \cup {f}, Young(th), Old(th))
        \in Outline[prog].at[th]
  <2>1. Done(Prog, Outline[prog],
             Place(code[th], OpenOf(th), SetOf(th), Young(th), Old(th)), Onward(code[th]))
          \subseteq Outline[prog].at[th]
    BY <1>0, WhereLemma
  <2> QED
    BY <1>0, <2>1, DoneLemma DEF Op
<1>5. \A g : ~Has(th, g) => (g \in flags' <=> g \in flags)
  BY <1>1 DEF DoSet
<1> QED
  BY <1>0, <1>2, <1>3, <1>4, <1>5, OwnLemma

LEMMA UnlessLemma ==
  ASSUME Ready, NEW th \in Threads, DoUnless(th)
  PROVE  InOutline'
<1> DEFINE f == Op(th).att
           c == IF f \in SetOf(th) THEN Tail(code[th]) ELSE Onward(code[th])
<1>0. Runs(th) /\ Op(th).op = "unless" /\ UNCHANGED <<prog, born, joined, handle, flags>>
  BY DEF DoUnless, At, Op, pvars
<1>1. Has(th, f)
  BY <1>0, WhereLemma DEF Allowed, Op
<1>2. code' = [code EXCEPT ![th] = c]
  BY <1>1 DEF DoUnless, Op, Onward, SetOf
<1>4. Place(c, OpenOf(th), SetOf(th), Young(th), Old(th)) \in Outline[prog].at[th]
  <2>1. Done(Prog, Outline[prog], Place(code[th], OpenOf(th), SetOf(th), Young(th), Old(th)), c)
          \subseteq Outline[prog].at[th]
    BY <1>0, WhereLemma
  <2> HIDE DEF c
  <2> QED
    BY <1>0, <2>1, DoneLemma DEF Op
<1> HIDE DEF c
<1> QED
  BY <1>0, <1>2, <1>4, WhereLemma, QuietLemma

(* Main hands the new thread its share. *)
LEMMA SpawnLemma ==
  ASSUME Ready, NEW th \in Threads, DoSpawn(th)
  PROVE  InOutline'
<1> DEFINE O == Outline[prog]
<1> PICK k : k = Op(th).att
  OBVIOUS
<1>0. /\ Runs(th) /\ Op(th).op = "spawn" /\ Goes(th) /\ UNCHANGED <<prog, joined, handle, flags>>
      /\ born' = born \cup {k}
  BY DEF DoSpawn, At, Op, Succeeds, Goes
<1>1. th = "main" /\ k \in Threads \ born
  BY <1>0, WhereLemma DEF Allowed, Op, Young
<1>2. code' = [code EXCEPT !["main"] = Onward(code["main"])]
  BY <1>0, <1>1 DEF Goes, Op, Onward
<1>3. Disciplined /\ Grounded /\ InOutline /\ DOMAIN code = Threads /\ "main" \in born \ joined
  BY ReadyLemma DEF Ready, Grounded
<1>a. \A a, b \in Threads : a # b => O.share[a] \cap O.share[b] = {}
  BY <1>3 DEF Disciplined, Supports, Grounded
<1>4. \A x : Has("main", x)' <=> Has("main", x) /\ x \notin O.share[k]
  <2>1. born' \ joined' = (born \ joined) \cup {k}
    BY <1>0, <1>1, <1>3 DEF Grounded
  <2>2. \A x : Has("main", x)' <=> x \notin UNION {O.share[i] : i \in (born \ joined) \cup {k}}
    BY <1>0, <2>1, Zenon DEF Has
  <2>3. \A x : x \in UNION {O.share[i] : i \in (born \ joined) \cup {k}}
               <=> x \in UNION {O.share[i] : i \in born \ joined} \/ x \in O.share[k]
    BY Zenon
  <2>4. \A x : Has("main", x) <=> x \notin UNION {O.share[i] : i \in born \ joined}
    BY DEF Has
  <2> HIDE DEF O
  <2> QED
    BY <2>2, <2>3, <2>4
<1>5. \A j \in born \ {"main"} : \A x : Has(j, x)' <=> Has(j, x)
  BY <1>0 DEF Has
<1>6. \A x : /\ Has(k, x)' <=> x \in O.share[k]
             /\ x \in O.share[k] => Has("main", x)
  BY <1>0, <1>1, <1>3, <1>a DEF Has, Grounded
<1>7. Spot("main")' \in O.at["main"]
  <2>1. /\ OpenOf("main")' = OpenOf("main") \ O.share[k]
        /\ SetOf("main")' = SetOf("main") \ O.share[k]
    BY <1>0, <1>4 DEF OpenOf, SetOf
  <2>2. Spot("main")' = Place(Onward(code["main"]), OpenOf("main")', SetOf("main")', born', joined')
    BY <1>2, <1>3 DEF Spot, Place, OpenOf, SetOf, Has, Owns, Lent, Grounded
  <2>3. Done(Prog, O, Place(code[th], OpenOf(th), SetOf(th), Young(th), Old(th)),
             Onward(code[th]))
          \subseteq O.at[th]
    BY <1>0, WhereLemma
  <2>4. Place(Onward(code[th]), OpenOf(th) \ O.share[k], SetOf(th) \ O.share[k],
              Young(th) \cup {k}, Old(th)) \in O.at[th]
    BY <1>0, <2>3, DoneLemma DEF Op
  <2> QED
    BY <1>0, <1>1, <2>1, <2>2, <2>4 DEF Young, Old
<1>8. Spot(k)' \in O.at[k]
  <2>1. OpenOf(k)' = OpenOf("main") \cap O.share[k] /\ SetOf(k)' = SetOf("main") \cap O.share[k]
    BY <1>0, <1>6 DEF OpenOf, SetOf
  <2>2. k # "main" /\ code'[k] = StartCode(Prog, k)
    BY <1>1, <1>2, <1>3 DEF InOutline
  <2>3. Spot(k)' = Place(StartCode(Prog, k), OpenOf(k)', SetOf(k)', {}, {})
    BY <2>2 DEF Spot, Place, OpenOf, SetOf, Has, Owns, Lent
  <2>4. /\ Begins(Prog, O, Spot("main")) \in O.at[k]
        /\ Spot("main").code = code["main"]
        /\ Spot("main").open = OpenOf("main") /\ Spot("main").set = SetOf("main")
    BY <1>0, <1>1, <1>3, HereLemma
  <2> QED
    BY <1>1, <2>1, <2>3, <2>4 DEF Begins, Op
<1>9. ASSUME NEW j \in born \ joined, j # "main"
      PROVE  Spot(j)' \in O.at[j]
  <2>1. code'[j] = code[j]
    BY <1>2, <1>3, <1>9 DEF Grounded
  <2>2. Spot(j)' = Spot(j)
    BY <1>0, <1>9, <2>1 DEF Spot, Place, Owns
  <2> QED
    BY <1>3, <2>2 DEF InOutline
<1> QED
  BY <1>0, <1>2, <1>3, <1>7, <1>8, <1>9 DEF InOutline, Grounded, Prog

(* Main has the share back, in the state the thread left it in. *)
LEMMA JoinLemma ==
  ASSUME Ready, NEW th \in Threads, DoJoin(th)
  PROVE  InOutline' /\ "main" \notin joined'
<1> DEFINE O == Outline[prog]
<1> PICK k : k = Op(th).att
  OBVIOUS
<1>0. /\ Runs(th) /\ Op(th).op = "join" /\ UNCHANGED <<prog, born, handle, flags>>
      /\ joined' = joined \cup {k} /\ code[k] = <<>>
  BY DEF DoJoin, At, Op, Succeeds, Goes, Throws, Finished
<1>1. th = "main" /\ k \in born \ ({"main"} \cup joined)
  BY <1>0, WhereLemma DEF Allowed, Op, Young, Old
<1>2. PICK c : /\ code' = [code EXCEPT !["main"] = c]
               /\ Done(Prog, O, Place(code[th], OpenOf(th), SetOf(th), Young(th), Old(th)), c)
                    \subseteq O.at[th]
  <2>1. CASE k \in stray /\ Prog.stray = "rethrow"
    <3>1. Throws(th) /\ CanFail(Prog, Op(th))
      BY <1>0, <2>1 DEF DoJoin, CanFail
    <3>2. code' = [code EXCEPT !["main"] = Thrown(Prog, th, code[th])]
      BY <1>1, <2>1, <3>1 DEF Throws, Thrown, UncaughtInMain, Op
    <3> QED
      BY <1>0, <3>1, <3>2, WhereLemma
  <2>2. CASE ~(k \in stray /\ Prog.stray = "rethrow")
    <3>1. Goes(th)
      BY <2>2 DEF DoJoin, Succeeds
    <3>2. code' = [code EXCEPT !["main"] = Onward(code[th])]
      BY <1>1, <3>1 DEF Goes, Op, Onward
    <3> QED
      BY <1>0, <3>2, WhereLemma
  <2> QED
    BY <2>1, <2>2
<1>3. Disciplined /\ Grounded /\ InOutline /\ DOMAIN code = Threads /\ "main" \in born \ joined
  BY ReadyLemma DEF Ready, Grounded
<1>a. \A a, b \in Threads : a # b => O.share[a] \cap O.share[b] = {}
  BY <1>3 DEF Disciplined, Supports, Grounded
<1>4. \A x : Has("main", x)' <=> Has("main", x) \/ Has(k, x)
  <2> TAKE x
  <2>1. Has("main", x)' <=> \A j \in born \ (joined \cup {k}) : x \notin O.share[j]
    BY <1>0 DEF Has
  <2>2. Has("main", x) <=> \A j \in born \ joined : x \notin O.share[j]
    BY DEF Has
  <2>3. Has(k, x) <=> x \in O.share[k]
    BY <1>1 DEF Has
  <2>4. x \in O.share[k] => \A j \in born \ {k} : x \notin O.share[j]
    BY <1>1, <1>3, <1>a DEF Grounded
  <2> QED
    BY <2>1, <2>2, <2>3, <2>4
<1>5. Spot("main")' \in O.at["main"]
  <2>1. /\ OpenOf("main")' = OpenOf("main") \cup OpenOf(k)
        /\ SetOf("main")' = SetOf("main") \cup SetOf(k)
    BY <1>0, <1>4 DEF OpenOf, SetOf
  <2>2. Spot("main")' = Place(c, OpenOf("main")', SetOf("main")', born', joined')
    BY <1>2, <1>3 DEF Spot, Place, OpenOf, SetOf, Has, Owns, Lent, Grounded
  <2>3. /\ Spot(k) \in O.at[k] /\ Spot(k).code = <<>>
        /\ Spot(k).open = OpenOf(k) /\ Spot(k).set = SetOf(k)
    <3>1. Spot(k) = Place(code[k], OpenOf(k), SetOf(k), Young(k), Old(k))
      BY SpotLemma
    <3>2. Spot(k) \in O.at[k]
      BY <1>1, <1>3 DEF InOutline
    <3> QED
      BY <1>0, <3>1, <3>2 DEF Place
  <2>4. Place(c, OpenOf(th) \cup OpenOf(k), SetOf(th) \cup SetOf(k),
              Young(th), Old(th) \cup {k}) \in O.at[th]
    BY <1>0, <1>2, <2>3, DoneLemma DEF Op
  <2> QED
    BY <1>0, <1>1, <2>1, <2>2, <2>4 DEF Young, Old
<1>6. ASSUME NEW j \in born \ joined, j # "main"
      PROVE  Spot(j)' \in O.at[j]
  <2>1. code'[j] = code[j]
    BY <1>2, <1>3, <1>6 DEF Grounded
  <2>2. Spot(j)' = Spot(j)
    BY <1>0, <1>6, <2>1 DEF Spot, Place, Owns
  <2> QED
    BY <1>3, <2>2 DEF InOutline
<1> QED
  BY <1>0, <1>1, <1>2, <1>3, <1>5, <1>6 DEF InOutline, Grounded, Prog

(* A thread's step keeps the types of what Succeeds and Throws change. *)
ControlOK ==
  /\ prog \in DOMAIN Programs
  /\ DOMAIN code = Threads
  /\ stray \subseteq born
  /\ proc \in {"running", "done", "failed", "aborted"}
  /\ outcome \in [Labels -> {"-", "ok", "failed"}]

LEMMA ControlLemma ==
  ASSUME Ready, NEW th \in Threads, Runs(th), born \subseteq born',
         \/ Succeeds(th)
         \/ Throws(th)
         \/ Goes(th) /\ UNCHANGED outcome
  PROVE  ControlOK'
<1>1. ControlOK /\ th \in born
  BY DEF Ready, TypeOK, ControlOK, Runs
<1>2. ASSUME NEW what \in {"ok", "failed"}, Result(th, what)
      PROVE  outcome' \in [Labels -> {"-", "ok", "failed"}]
  BY <1>1, <1>2 DEF ControlOK, Result
<1>3. CASE Goes(th) /\ (Succeeds(th) \/ UNCHANGED outcome)
  BY <1>1, <1>2, <1>3 DEF ControlOK, Succeeds, Goes
<1>4. CASE Throws(th)
  <2>1. /\ prog' = prog /\ DOMAIN code' = Threads /\ stray' \subseteq stray \cup {th}
        /\ proc' \in {proc, "aborted", "failed"}
    BY <1>1, <1>4 DEF ControlOK, Throws, UncaughtInMain, UncaughtInThread
  <2>2. outcome' \in [Labels -> {"-", "ok", "failed"}]
    BY <1>1, <1>2, <1>4 DEF ControlOK, Throws
  <2> QED
    BY <1>1, <2>1, <2>2 DEF ControlOK
<1> QED
  BY <1>3, <1>4 DEF Succeeds

(* The rest of TypeOK, when nothing of it but faults moves. *)
LEMMA StillLemma ==
  ASSUME TypeOK, EngineTypeOK', ControlOK',
         UNCHANGED <<born, joined, handle, lck, flags, seen>>, faults' \in 0..MaxFaults
  PROVE  TypeOK'
BY DEF TypeOK, ControlOK

(* One thread's step keeps the invariant, whatever the others are about to do. *)
LEMMA ReadyStepLemma ==
  ASSUME Ready, EngineTypeOK', NEW th \in Threads, Step(th)
  PROVE  Ready'
<1>0. Disciplined /\ TypeOK /\ EngineTypeOK /\ faults \in 0..MaxFaults
  BY DEF Ready, TypeOK
<1> SUFFICES TypeOK' /\ InOutline' /\ "main" \notin joined'
  BY <1>0 DEF Ready, Disciplined
<1>1. CASE DoAttach(th) \/ DoDetach(th) \/ DoWrite(th) \/ DoDdl(th)
  <2>1. /\ Runs(th) /\ Succeeds(th) /\ Goes(th)
        /\ UNCHANGED <<born, joined, handle, lck, flags, seen, faults>>
        /\ Op(th).op \in {"attach", "detach", "insert", "update"} \cup DdlOps
    BY <1>1 DEF DoAttach, DoDetach, DoWrite, DoDdl, At, Op, Succeeds
  <2> QED
    BY <1>0, <2>1, ControlLemma, StillLemma, GoesLemma DEF DdlOps, Ready
<1>2. CASE DoRead(th)
  <2>1. /\ Runs(th) /\ Goes(th) /\ Op(th).op = "read"
        /\ UNCHANGED <<born, joined, handle, lck, flags, outcome, faults>>
        /\ seen' = [seen EXCEPT ![Op(th).lab] = Read(Op(th).tx, Op(th).row)]
    BY <1>2 DEF DoRead, At, Op
  <2>2. Op(th).row \in Row
    BY <2>1, WhereLemma DEF Allowed, Op
  <2>3. Read(Op(th).tx, Op(th).row) \subseteq Val
    BY <1>0, <2>2, VersionLemma DEF Read, SeenAt
  <2>4. ControlOK'
    BY <2>1, ControlLemma
  <2>5. TypeOK'
    BY <1>0, <2>1, <2>3, <2>4 DEF TypeOK, ControlOK
  <2>6. InOutline'
    BY <2>1, GoesLemma
  <2> QED
    BY <2>1, <2>5, <2>6 DEF Ready
<1>3. CASE DoStart(th)
  <2>1. /\ Runs(th) /\ Succeeds(th) /\ Goes(th) /\ Op(th).op \in {"start", "reserve"}
        /\ UNCHANGED <<born, joined, flags, seen, faults>>
        /\ handle' = [handle EXCEPT ![Op(th).tx] = "open"]
        /\ lck' = [lck EXCEPT ![Op(th).tx] = Op(th).mode]
    BY <1>3 DEF DoStart, Succeeds
  <2>2. Op(th).mode \in LockModes
    BY <2>1, WhereLemma DEF Allowed, Op
  <2>4. ControlOK'
    BY <2>1, ControlLemma
  <2>5. TypeOK'
    BY <1>0, <2>1, <2>2, <2>4 DEF TypeOK, ControlOK
  <2>6. InOutline'
    BY <2>1, StartsLemma
  <2> QED
    BY <2>1, <2>5, <2>6 DEF Ready
<1>4. CASE DoCommit(th) \/ DoRollback(th)
  <2>1. /\ Runs(th) /\ Succeeds(th) /\ Goes(th) /\ Op(th).op \in {"commit", "rollback"}
        /\ UNCHANGED <<born, joined, lck, flags, seen, faults>>
        /\ handle' = [handle EXCEPT ![Op(th).tx] = "closed"]
    BY <1>4 DEF DoCommit, DoRollback, Succeeds, At, Op
  <2>4. ControlOK'
    BY <2>1, ControlLemma
  <2>5. TypeOK'
    BY <1>0, <2>1, <2>4 DEF TypeOK, ControlOK
  <2>6. InOutline'
    BY <2>1, EndsLemma
  <2> QED
    BY <2>1, <2>5, <2>6 DEF Ready
<1>5. CASE \/ DoAttachRefused(th) \/ DoFailStatement(th) \/ DoFailLost(th)
           \/ DoLockDenied(th) \/ DoRaise(th)
  <2>1. /\ Runs(th) /\ Throws(th) /\ UNCHANGED <<born, joined, handle, lck, flags, seen>>
        /\ faults' \in 0..MaxFaults
    BY <1>0, <1>5, SamplesAssumption 
       DEF DoAttachRefused, DoFailStatement, DoFailLost, DoLockDenied, DoRaise, At, Waits
  <2>2. Op(th).op # "join" /\ CanFail(Prog, Op(th))
    <3>1. CASE DoLockDenied(th)
      <4>1. Blockers(th) # {}
        BY <3>1 DEF DoLockDenied, Waits
      <4>2. Op(th).op \in {"reserve", "insert", "update"}
        BY <4>1 DEF Blockers
      <4> QED
        BY <4>2 DEF CanFail, TxCalls
    <3>2. CASE DoAttachRefused(th) \/ DoFailStatement(th) \/ DoFailLost(th) \/ DoRaise(th)
      <4>1. Op(th).op \in TxCalls \cup {"attach", "start", "reserve", "raise"}
        BY <3>2 DEF DoAttachRefused, DoFailStatement, DoFailLost, DoRaise, At, Op
      <4> QED
        BY <4>1 DEF CanFail, TxCalls
    <3> QED
      BY <1>5, <3>1, <3>2
  <2>4. ControlOK'
    BY <2>1, ControlLemma
  <2>5. TypeOK'
    BY <1>0, <2>1, <2>4, StillLemma
  <2>6. InOutline'
    BY <2>1, <2>2, ThrowsLemma
  <2> QED
    BY <2>1, <2>5, <2>6 DEF Ready
<1>6. CASE DoAwait(th)
  <2>1. /\ Runs(th)
        /\ Succeeds(th) \/ Throws(th)
        /\ UNCHANGED <<born, joined, handle, lck, flags, seen, faults>>
        /\ Op(th).op = "await"
    BY <1>6 DEF DoAwait, At, Op
  <2>4. ControlOK'
    BY <1>6, <2>1, ControlLemma DEF DoAwait, At
  <2>5. TypeOK'
    BY <1>0, <2>1, <2>4, StillLemma
  <2>6. InOutline'
    <3>1. CASE Succeeds(th)
      BY <1>6, <2>1, <3>1, GoesLemma DEF Succeeds, DoAwait, At
    <3>2. CASE Throws(th)
      BY <1>6, <2>1, <3>2, ThrowsLemma DEF CanFail, DoAwait, At
    <3> QED
      BY <2>1, <3>1, <3>2
  <2> QED
    BY <2>1, <2>5, <2>6 DEF Ready
<1>7. CASE DoSpawn(th)
  <2>1. /\ Runs(th) /\ Succeeds(th) /\ Op(th).op = "spawn"
        /\ UNCHANGED <<joined, handle, lck, flags, seen, faults>>
        /\ born' = born \cup {Op(th).att}
    BY <1>7 DEF DoSpawn, At, Op
  <2>2. Op(th).att \in Threads
    BY <2>1, WhereLemma DEF Allowed, Op
  <2>4. ControlOK'
    BY <2>1, ControlLemma
  <2>5. TypeOK'
    BY <1>0, <2>1, <2>2, <2>4 DEF TypeOK, ControlOK
  <2> QED
    BY <1>7, <2>1, <2>5, SpawnLemma DEF Ready
<1>8. CASE DoJoin(th)
  <2>1. /\ Runs(th)
        /\ Throws(th) \/ Succeeds(th)
        /\ UNCHANGED <<born, handle, lck, flags, seen, faults>>
        /\ joined' = joined \cup {Op(th).att} /\ Op(th).att \in born
    BY <1>8 DEF DoJoin, At, Op, Finished
  <2>4. ControlOK'
    BY <1>8, <2>1, ControlLemma DEF DoJoin, At
  <2>5. TypeOK'
    BY <1>0, <2>1, <2>4 DEF TypeOK, ControlOK
  <2> QED
    BY <1>8, <2>5, JoinLemma
<1>9. CASE DoSet(th)
  <2>1. /\ Runs(th) /\ Succeeds(th) /\ Op(th).op = "set"
        /\ UNCHANGED <<born, joined, handle, lck, seen, faults>>
        /\ flags' = flags \cup {Op(th).att}
    BY <1>9 DEF DoSet, At, Op
  <2>2. Op(th).att \in Flags
    BY <2>1, WhereLemma DEF Allowed, Op
  <2>4. ControlOK'
    BY <2>1, ControlLemma
  <2>5. TypeOK'
    BY <1>0, <2>1, <2>2, <2>4 DEF TypeOK, ControlOK
  <2> QED
    BY <1>9, <2>1, <2>5, SetLemma DEF Ready
<1>10. CASE DoUnless(th)
  <2>1. UNCHANGED <<prog, stray, proc, pvars>> /\ DOMAIN code' = DOMAIN code
    BY <1>10 DEF DoUnless
  <2>5. TypeOK'
    BY <1>0, <2>1 DEF TypeOK, pvars
  <2> QED
    BY <1>10, <2>1, <2>5, UnlessLemma DEF Ready, pvars
<1>11. CASE DoExit(th)
  <2>1. UNCHANGED <<prog, code, stray, pvars>> /\ proc' = "failed"
    BY <1>11 DEF DoExit
  <2>2. TypeOK'
    BY <1>0, <2>1 DEF TypeOK, pvars
  <2> QED
    BY <2>1, <2>2 DEF Ready, InOutline, Spot, Prog, pvars
<1> QED
  BY <1>1, <1>2, <1>3, <1>4, <1>5, <1>6, <1>7, <1>8, <1>9, <1>10, <1>11 DEF Step

LEMMA ReadyNextLemma == Ready /\ EngineTypeOK' /\ [Next]_vars => Ready'
<1> SUFFICES ASSUME Ready, EngineTypeOK', [Next]_vars PROVE Ready'
  OBVIOUS
<1>1. CASE \E th \in Threads : Step(th)
  BY <1>1, ReadyStepLemma
<1>2. ASSUME UNCHANGED <<prog, code, born, joined, handle, lck, flags, outcome, seen, stray>>,
             proc' \in {proc, "aborted", "done"}, faults' \in 0..MaxFaults
      PROVE  Ready'
  <2>1. TypeOK'
    BY <1>2 DEF Ready, TypeOK
  <2> QED
    BY <1>2, <2>1 DEF Ready, Disciplined, InOutline, Spot, Prog
<1>3. CASE MainReturns
  BY <1>2, <1>3 DEF MainReturns, pvars, Ready, TypeOK
<1>4. CASE \E a \in Att : ConnectionLost(a)
  BY <1>2, <1>4, SamplesAssumption DEF ConnectionLost, Ready, TypeOK
<1>5. CASE UNCHANGED vars
  BY <1>2, <1>5 DEF vars, pvars, Ready, TypeOK
<1> QED
  BY <1>1, <1>3, <1>4, <1>5 DEF Next, Terminating

LEMMA ReadyInitLemma ==
  ASSUME Disciplined, Init, EngineTypeOK
  PROVE  Ready
<1>1. TypeOK
  BY SamplesAssumption DEF Init, TypeOK, LockModes
<1>2. Supports(Prog, Outline[prog])
  BY <1>1 DEF Disciplined, TypeOK, Prog
<1>3. OpenOf("main") = {} /\ SetOf("main") = {}
  BY DEF Init, OpenOf, SetOf
<1>4. Spot("main") = Place(StartCode(Prog, "main"), {}, {}, {"main"}, {})
  BY <1>3, SpotLemma, SamplesAssumption DEF Init, StartCode, Young, Old
<1>5. Spot("main") \in Outline[prog].at["main"]
  BY <1>2, <1>4 DEF Supports
<1>6. InOutline
  BY <1>5 DEF Init, InOutline, StartCode
<1> QED
  BY <1>1, <1>6 DEF Ready, Init

(* At a place of an outline the first call is allowed, so its transaction is open. *)
LEMMA SafeLemma == Ready => SamplesInv
<1> SUFFICES ASSUME Ready, NEW th \in Threads, Runs(th), Op(th).op \in TxCalls
             PROVE  handle[Op(th).tx] = "open"
  BY DEF SamplesInv, NoUseAfterEnd, Ready
<1>1. Op(th).tx \in OpenOf(th)
  BY WhereLemma DEF Allowed, Op
<1> QED
  BY <1>1 DEF OpenOf

LEMMA AlwaysReadyLemma == Disciplined /\ Spec => []Ready
<1>1. Disciplined /\ Init /\ EngineTypeOK => Ready
  BY ReadyInitLemma
<1>2. EngineInv => EngineTypeOK
  BY DEF EngineInv
<1> QED
  BY <1>1, <1>2, ReadyNextLemma, SamplesImplementEngine, EngineInvariant, PTL DEF Spec

(* In every program that keeps to the discipline, with any number of threads,
   transactions and broken connections, no thread is about to use a transaction
   that was never started or that some thread has already ended: what the
   samples' victim flags and joins have to ensure. *)
THEOREM SamplesInvTheorem == Disciplined /\ Spec => []SamplesInv
  BY AlwaysReadyLemma, SafeLemma, PTL

(* Every thread of such a program also stays within its outline: what it knows
   of its own transactions and flags, and main of its threads, is never wrong. *)
THEOREM DisciplineTheorem == Disciplined /\ Spec => []DisciplineInv
<1>1. Ready => DisciplineInv
  BY SafeLemma DEF Ready, DisciplineInv
<1> QED
  BY <1>1, AlwaysReadyLemma, PTL
=============================================================================
