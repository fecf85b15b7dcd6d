--------------------------- MODULE ScriptProofs ----------------------------
(***************************************************************************)
(* A script that has an outline returns 0 only with its work committed and *)
(* with what it promises to remove gone, however many runs there are and   *)
(* whichever of their calls fail, lose their answer or are cut short by a  *)
(* kill.                                                                   *)
(*                                                                         *)
(* The invariant Kept says that a running process is at a place of the     *)
(* outline and that the server's records have their types.  Every action   *)
(* of Scripts leads from one place to another: a call that succeeds to     *)
(* Succeeded of the place, one that throws to a member of Failed, and a    *)
(* new run to the first place, for any subset of the objects to be removed *)
(* that the last run may have left.                                        *)
(***************************************************************************)
EXTENDS ScriptOutline, TLAPS

-----------------------------------------------------------------------------
(* The invariant *)

WorkNow == [t \in DOMAIN tx |-> Doing(tx[t].on, tx[t].own)]
LeftNow == {i \in prog.gone : db.val[i] # 0}

Fields == {"on", "snap", "own", "late", "dropped", "mon"}

(* What is kept of an open transaction. *)
TxOK(r) ==
  /\ DOMAIN r = Fields /\ r.on \in DOMAIN att
  /\ DOMAIN r.own \subseteq prog.items /\ \A i \in DOMAIN r.own : r.own[i] \in Nat
  /\ r.snap \in [prog.items -> Nat]

ServerOK ==
  /\ DOMAIN db = {"there", "val"} /\ db.there \in BOOLEAN /\ db.val \in [prog.items -> Nat]
  /\ \A a \in DOMAIN att : att[a] \in Nat
  /\ \A t \in DOMAIN tx : TxOK(tx[t])

ProcessOK ==
  /\ prog \in Programs
  /\ status \in {"idle", "running", "ok", "failed", "killed"}
  /\ faulted \in BOOLEAN /\ raced \in BOOLEAN

Kept == Outlined /\ ProcessOK /\ ServerOK /\ InOutline /\ CleansUp

-----------------------------------------------------------------------------
(* Functions: what a transaction's work is made of. *)

(* Laying one assignment over another keeps items and natural values. *)
LEMMA OverLemma ==
  ASSUME NEW f, NEW I, DOMAIN f \subseteq I, \A i \in DOMAIN f : f[i] \in Nat
  PROVE  /\ \A g \in [I -> Nat] : Over(f, g) \in [I -> Nat]
         /\ \A g : DOMAIN g \subseteq I /\ (\A i \in DOMAIN g : g[i] \in Nat) =>
              DOMAIN Over(f, g) \subseteq I /\ \A i \in DOMAIN Over(f, g) : Over(f, g)[i] \in Nat
BY DEF Over

(* DDL, with what it wipes, keeps them too. *)
LEMMA DefinedLemma ==
  ASSUME NEW P, NEW o, NEW own, DOMAIN P.within \subseteq P.items,
         o.i \in P.items, o.to \in Nat,
         DOMAIN own \subseteq P.items, \A i \in DOMAIN own : own[i] \in Nat
  PROVE  /\ DOMAIN Defined(P, o, own) \subseteq P.items
         /\ \A i \in DOMAIN Defined(P, o, own) : Defined(P, o, own)[i] \in Nat
<1> DEFINE z == [j \in Wiped(P, o) |-> 0]
           f == Over(z, own)
<1>1. DOMAIN z \subseteq P.items /\ \A i \in DOMAIN z : z[i] \in Nat
  BY DEF Wiped
<1>2. DOMAIN f \subseteq P.items /\ \A i \in DOMAIN f : f[i] \in Nat
  <2> HIDE DEF z
  <2> QED
    BY <1>1, OverLemma
<1>3. Defined(P, o, own) = With(f, o.i, o.to)
  BY DEF Defined
<1> HIDE DEF f
<1> QED
  BY <1>2, <1>3 DEF With

-----------------------------------------------------------------------------
(* Places *)

(* Where the process is, what it names there, and where it goes. *)
LEMMA HereLemma ==
  ASSUME Kept, status = "running", code # <<>>
  PROVE  /\ Spot.code = code /\ Spot.open = DOMAIN att
         /\ Spot.work = WorkNow /\ Spot.left = LeftNow
         /\ DOMAIN WorkNow = DOMAIN tx
         /\ \A t \in DOMAIN tx : WorkNow[t] = Doing(tx[t].on, tx[t].own)
         /\ NamesItems(prog, Op)
         /\ ~Refused(Op) =>
              Succeeded(prog, Spot) \in Outline[prog]
         /\ Head(Spot.code) = Op
         /\ Failed(prog, Spot) \subseteq Outline[prog]
         /\ prog.gone \subseteq prog.items /\ DOMAIN prog.within \subseteq prog.items
<1>1. Spot = Place(code, DOMAIN att, WorkNow, LeftNow) /\ Spot \in Outline[prog]
  BY DEF Spot, WorkNow, LeftNow, Kept, InOutline
<1>2. Supports(prog, Outline[prog])
  BY DEF Kept, Outlined, ProcessOK
<1>3. /\ Spot.code = code /\ Spot.open = DOMAIN att /\ Spot.work = WorkNow
      /\ Spot.left = LeftNow /\ Head(Spot.code) = Op
  BY <1>1 DEF Place, Op
<1>4. /\ DOMAIN WorkNow = DOMAIN tx
      /\ \A t \in DOMAIN tx : /\ WorkNow[t] = Doing(tx[t].on, tx[t].own)
                              /\ WorkNow[t].on = tx[t].on /\ WorkNow[t].own = tx[t].own
  BY DEF WorkNow, Doing
<1>5. ~Refused(Op) => CanSucceed(Spot)
  BY <1>3, <1>4 DEF CanSucceed, Refused, DdlRefused, TakenByOther, Pending, InTx
<1> QED
  BY <1>1, <1>2, <1>3, <1>4, <1>5 DEF Supports

(* A step after which the process still runs. *)
LEMMA MoveLemma ==
  ASSUME Kept, status = "running", status' = "running", prog' = prog,
         faulted' \in BOOLEAN, raced' \in BOOLEAN, ServerOK',
         Place(code', DOMAIN att', WorkNow', LeftNow') \in Outline[prog]
  PROVE  Kept'
<1>1. Spot' = Place(code', DOMAIN att', WorkNow', LeftNow')
  BY DEF Spot, WorkNow, LeftNow
<1>2. InOutline' /\ CleansUp'
  BY <1>1 DEF InOutline, CleansUp
<1>3. Outlined' /\ ProcessOK'
  BY DEF Kept, Outlined, ProcessOK
<1> QED
  BY <1>2, <1>3 DEF Kept

(* What is left when some handles are closed. *)
LEMMA WithoutLemma ==
  ASSUME ServerOK, prog' = prog, NEW names, Without(names),
         DOMAIN db' = {"there", "val"}, db'.there \in BOOLEAN, db'.val \in [prog.items -> Nat]
  PROVE  /\ ServerOK' /\ DOMAIN att' = DOMAIN att \ names
         /\ WorkNow' = [t \in {t \in DOMAIN WorkNow \ names : WorkNow[t].on \notin names} |->
                          WorkNow[t]]
<1>1. /\ DOMAIN att' = DOMAIN att \ names /\ \A a \in DOMAIN att' : att'[a] = att[a]
      /\ DOMAIN tx' = {t \in DOMAIN tx \ names : tx[t].on \notin names}
      /\ \A t \in DOMAIN tx' : tx'[t] = tx[t]
  BY DEF Without
<1>2. /\ DOMAIN WorkNow = DOMAIN tx
      /\ \A t \in DOMAIN tx : WorkNow[t] = Doing(tx[t].on, tx[t].own) /\ WorkNow[t].on = tx[t].on
  BY DEF WorkNow, Doing
<1>3. \A t \in DOMAIN tx' : TxOK(tx[t])'
  BY <1>1 DEF ServerOK, TxOK
<1>4. ServerOK'
  BY <1>1, <1>3 DEF ServerOK
<1>5. WorkNow' = [t \in DOMAIN tx' |-> WorkNow[t]]
  BY <1>1, <1>2 DEF WorkNow
<1>6. DOMAIN tx' = {t \in DOMAIN WorkNow \ names : WorkNow[t].on \notin names}
  BY <1>1, <1>2
<1> QED
  BY <1>1, <1>4, <1>5, <1>6

(* Same, for a step that goes on running. *)
LEMMA ShutLemma ==
  ASSUME Kept, status = "running", status' = "running", prog' = prog,
         faulted' \in BOOLEAN, raced' \in BOOLEAN, NEW names, Without(names),
         DOMAIN db' = {"there", "val"}, db'.there \in BOOLEAN, db'.val \in [prog.items -> Nat],
         Shut(code', DOMAIN att, WorkNow, LeftNow', names) \in Outline[prog]
  PROVE  Kept'
<1>1. ServerOK
  BY DEF Kept
<1>2. /\ ServerOK' /\ DOMAIN att' = DOMAIN att \ names
      /\ WorkNow' = [t \in {t \in DOMAIN WorkNow \ names : WorkNow[t].on \notin names} |->
                       WorkNow[t]]
  BY <1>1, WithoutLemma
<1>3. Place(code', DOMAIN att', WorkNow', LeftNow') \in Outline[prog]
  BY <1>2 DEF Shut
<1> QED
  BY <1>2, <1>3, MoveLemma

(* A step after which it does not. *)
LEMMA StopLemma ==
  ASSUME Kept, prog' = prog, status' \in {"ok", "failed", "killed"},
         faulted' \in BOOLEAN, raced' \in BOOLEAN, Without(DOMAIN att),
         DOMAIN db' = {"there", "val"}, db'.there \in BOOLEAN, db'.val \in [prog.items -> Nat],
         status' = "ok" => LeftNow' = {}
  PROVE  Kept'
<1>1. ServerOK' /\ DOMAIN att' = {}
  <2>1. ServerOK
    BY DEF Kept
  <2>2. PICK names : names = DOMAIN att
    OBVIOUS
  <2>3. ServerOK' /\ DOMAIN att' = DOMAIN att \ names
    BY <2>1, <2>2, WithoutLemma
  <2> QED
    BY <2>2, <2>3
<1>2. CleansUp' /\ InOutline'
  BY <1>1 DEF CleansUp, LeftNow, InOutline
<1> QED
  BY <1>1, <1>2 DEF Kept, Outlined, ProcessOK

(* What is committed of the objects to be removed, once f is committed. *)
LEMMA LeftLemma ==
  ASSUME Kept, prog' = prog, NEW f, db' = [db EXCEPT !.val = Over(f, @)],
         prog.gone \subseteq prog.items,
         DOMAIN f \subseteq prog.items, \A i \in DOMAIN f : f[i] \in Nat
  PROVE  /\ LeftNow' = LeftBy(prog, f, LeftNow)
         /\ DOMAIN db' = {"there", "val"} /\ db'.there \in BOOLEAN
         /\ db'.val \in [prog.items -> Nat]
<1>1. /\ db.val \in [prog.items -> Nat] /\ DOMAIN db = {"there", "val"} /\ db.there \in BOOLEAN
  BY DEF Kept, ServerOK
<1>2. db'.val = Over(f, db.val) /\ db'.there = db.there /\ DOMAIN db' = {"there", "val"}
  BY <1>1
<1>3. db'.val \in [prog.items -> Nat]
  BY <1>1, <1>2, OverLemma
<1>4. \A i \in prog.gone : db'.val[i] = IF i \in DOMAIN f THEN f[i] ELSE db.val[i]
  BY <1>1, <1>2 DEF Over
<1>5. LeftNow' = LeftBy(prog, f, LeftNow)
  BY <1>4 DEF LeftNow, LeftBy
<1> QED
  BY <1>1, <1>2, <1>3, <1>5

(* An error. *)
LEMMA ThrowLemma ==
  ASSUME Kept, status = "running", code # <<>>, prog' = prog,
         Op.op \notin {"note", "block", "end", "if"},
         faulted' \in BOOLEAN, raced' \in BOOLEAN, NEW lost, Throw(lost),
         \/ UNCHANGED db /\ lost = {}
         \/ /\ Op.op \in {"commit", "retain"} /\ ~Refused(Op) /\ lost = {Op.t}
            /\ db' = [db EXCEPT !.val = Over(tx[Op.t].own, @)]
  PROVE  Kept'
<1>1. /\ Spot.code = code /\ Spot.open = DOMAIN att /\ Spot.work = WorkNow /\ Spot.left = LeftNow
      /\ Failed(prog, Spot) \subseteq Outline[prog]
      /\ prog.gone \subseteq prog.items
      /\ \A t \in DOMAIN tx : WorkNow[t] = Doing(tx[t].on, tx[t].own)
      /\ DOMAIN WorkNow = DOMAIN tx
  BY HereLemma
<1>2. Op.op \in {"commit", "retain"} /\ ~Refused(Op) => Op.t \in DOMAIN tx
  BY DEF Refused, InTx
<1>3. /\ DOMAIN db' = {"there", "val"} /\ db'.there \in BOOLEAN /\ db'.val \in [prog.items -> Nat]
      /\ \/ LeftNow' = LeftNow /\ lost = {}
         \/ /\ Op.op \in {"commit", "retain"} /\ ~Refused(Op) /\ lost = {Op.t}
            /\ LeftNow' = LeftBy(prog, tx[Op.t].own, LeftNow)
  <2>1. CASE UNCHANGED db /\ lost = {}
    BY <2>1 DEF Kept, ServerOK, LeftNow
  <2>2. CASE /\ Op.op \in {"commit", "retain"} /\ ~Refused(Op) /\ lost = {Op.t}
             /\ db' = [db EXCEPT !.val = Over(tx[Op.t].own, @)]
    <3>1. TxOK(tx[Op.t])
      BY <1>2, <2>2 DEF Kept, ServerOK
    <3>2. PICK f : f = tx[Op.t].own
      OBVIOUS
    <3>3. /\ LeftNow' = LeftBy(prog, f, LeftNow)
          /\ DOMAIN db' = {"there", "val"} /\ db'.there \in BOOLEAN
          /\ db'.val \in [prog.items -> Nat]
      BY <1>1, <2>2, <3>1, <3>2, LeftLemma DEF TxOK
    <3> QED
      BY <2>2, <3>2, <3>3
  <2> QED
    BY <2>1, <2>2
<1>4. CASE Catching(code) = {}
  <2>1. status' = "failed" /\ Without(DOMAIN att)
    BY <1>4 DEF Throw
  <2> QED
    BY <1>3, <2>1, StopLemma
<1>5. CASE Catching(code) # {}
  <2>1. status' = "running" /\ code' = Handled(code) /\ Without(lost \cup Unwound(code))
    BY <1>5 DEF Throw
  <2>2. Head(Spot.code) = Op
    BY <1>1 DEF Op
  <2>3. Shut(Handled(code), DOMAIN att, WorkNow, LeftNow', lost \cup Unwound(code))
          \in Failed(prog, Spot)
    <3>1. CASE LeftNow' = LeftNow /\ lost = {}
      BY <1>1, <1>5, <2>2, <3>1 DEF Failed
    <3>2. CASE /\ Op.op \in {"commit", "retain"} /\ ~Refused(Op) /\ lost = {Op.t}
               /\ LeftNow' = LeftBy(prog, tx[Op.t].own, LeftNow)
      <4>1. CanSucceed(Spot)
        BY <1>1, <1>2, <2>2, <3>2 DEF CanSucceed
      <4>2. Spot.work[Op.t].own = tx[Op.t].own
        BY <1>1, <1>2, <3>2 DEF Doing
      <4> QED
        BY <1>1, <1>5, <2>2, <3>2, <4>1, <4>2 DEF Failed
    <3> QED
      BY <1>3, <3>1, <3>2
  <2> QED
    BY <1>1, <1>3, <2>1, <2>3, ShutLemma
<1> QED
  BY <1>4, <1>5

(* A successful call: the facts every action below starts from. *)
LEMMA CallLemma ==
  ASSUME Kept, NEW k, Goes(k), Advance
  PROVE  /\ status = "running" /\ status' = "running" /\ prog' = prog /\ code # <<>>
         /\ faulted' \in BOOLEAN /\ raced' \in BOOLEAN
         /\ Op.op = k /\ Op = Head(code) /\ code' = Tail(code) /\ ServerOK
         /\ k \in InTx => Op.t \in DOMAIN tx /\ TxOK(tx[Op.t])
         /\ k \in {"detach", "dropdb", "start"} => Op.a \in DOMAIN att
BY DEF Goes, At, Advance, Op, Kept, ProcessOK, ServerOK, Refused

(* Where it leads, and how that place is described in the state. *)
LEMMA NowLemma ==
  ASSUME Kept, status = "running", code # <<>>, ~Refused(Op)
  PROVE  /\ Succeeded(prog, Spot) \in Outline[prog] /\ Head(Spot.code) = Op
         /\ Tail(Spot.code) = Tail(code) /\ Spot.open = DOMAIN att
         /\ Spot.work = WorkNow /\ Spot.left = LeftNow
         /\ DOMAIN WorkNow = DOMAIN tx
         /\ \A t \in DOMAIN tx : WorkNow[t] = Doing(tx[t].on, tx[t].own)
BY HereLemma

-----------------------------------------------------------------------------
(* One lemma per action, or per group of actions that do the same to a place. *)

LEMMA AttachLemma ==
  ASSUME Kept, AttachDb \/ MakeDb \/ AttachOtherDb
  PROVE  Kept'
<1>1. PICK k \in {"attach", "make", "other"} : Goes(k) /\ Advance
  BY DEF AttachDb, MakeDb, AttachOtherDb
<1>2. att' = With(att, Op.a, 0) /\ tx' = tx /\ db'.val = db.val /\ db'.there \in BOOLEAN
      /\ DOMAIN db' = {"there", "val"}
  BY DEF AttachDb, MakeDb, AttachOtherDb, Kept, ServerOK
<1>3. /\ DOMAIN att' = DOMAIN att \cup {Op.a}
      /\ \A a \in DOMAIN att' : att'[a] \in {0, att[a]} /\ (a \notin DOMAIN att => att'[a] = 0)
  BY <1>2 DEF With
<1>4. ServerOK'
  <2>1. \A t \in DOMAIN tx : TxOK(tx[t])'
    BY <1>1, <1>2, <1>3, CallLemma DEF ServerOK, TxOK
  <2> QED
    BY <1>1, <1>2, <1>3, <2>1, CallLemma DEF ServerOK
<1>5. WorkNow' = WorkNow /\ LeftNow' = LeftNow
  BY <1>1, <1>2, CallLemma DEF WorkNow, LeftNow
<1>6. Place(Tail(code), DOMAIN att \cup {Op.a}, WorkNow, LeftNow) \in Outline[prog]
  <2>1. Op.op = k /\ ~Refused(Op) /\ status = "running" /\ code # <<>>
    BY <1>1, CallLemma DEF Goes
  <2>2. Succeeded(prog, Spot) = Place(Tail(code), DOMAIN att \cup {Op.a}, WorkNow, LeftNow)
    BY <2>1, NowLemma DEF Succeeded
  <2> QED
    BY <2>1, <2>2, NowLemma
<1> QED
  BY <1>1, <1>3, <1>4, <1>5, <1>6, CallLemma, MoveLemma

LEMMA DetachLemma ==
  ASSUME Kept, DetachDb
  PROVE  Kept'
<1>1. Goes("detach") /\ Advance /\ Without({Op.a}) /\ UNCHANGED db
  BY DEF DetachDb
<1>2. Shut(Tail(code), DOMAIN att, WorkNow, LeftNow, {Op.a}) \in Outline[prog]
  <2>1. Op.op = "detach" /\ ~Refused(Op) /\ status = "running" /\ code # <<>>
    BY <1>1, CallLemma DEF Goes
  <2>2. Succeeded(prog, Spot) = Shut(Tail(code), DOMAIN att, WorkNow, LeftNow, {Op.a})
    BY <2>1, NowLemma DEF Succeeded
  <2> QED
    BY <2>1, <2>2, NowLemma
<1>3. LeftNow' = LeftNow
  BY <1>1, CallLemma DEF LeftNow
<1> QED
  BY <1>1, <1>2, <1>3, CallLemma, ShutLemma DEF ServerOK

LEMMA DropDbLemma ==
  ASSUME Kept, DropDb
  PROVE  Kept'
<1>1. Goes("dropdb") /\ Advance /\ Without({Op.a})
      /\ db' = [there |-> FALSE, val |-> [i \in prog.items |-> 0]]
  BY DEF DropDb
<1>2. Shut(Tail(code), DOMAIN att, WorkNow, {}, {Op.a}) \in Outline[prog]
  <2>1. Op.op = "dropdb" /\ ~Refused(Op) /\ status = "running" /\ code # <<>>
    BY <1>1, CallLemma DEF Goes
  <2>2. Succeeded(prog, Spot) = Shut(Tail(code), DOMAIN att, WorkNow, {}, {Op.a})
    BY <2>1, NowLemma DEF Succeeded
  <2> QED
    BY <2>1, <2>2, NowLemma
<1>3. LeftNow' = {}
  <2>1. prog.gone \subseteq prog.items
    BY <1>1, CallLemma, HereLemma
  <2> QED
    BY <1>1, <2>1, CallLemma DEF LeftNow
<1>4. DOMAIN db' = {"there", "val"} /\ db'.there \in BOOLEAN /\ db'.val \in [prog.items -> Nat]
  BY <1>1
<1> QED
  BY <1>1, <1>2, <1>3, <1>4, CallLemma, ShutLemma

LEMMA LeaveLemma ==
  ASSUME Kept, LeaveBlock
  PROVE  Kept'
<1>1. /\ Op.op = "end" /\ ~Refused(Op) /\ status = "running" /\ code # <<>>
      /\ Advance /\ Without(Op.frees) /\ UNCHANGED db
  BY DEF LeaveBlock, At, Refused, InTx
<1>2. Shut(Tail(code), DOMAIN att, WorkNow, LeftNow, Op.frees) \in Outline[prog]
  <2>1. Op.op = "end" /\ ~Refused(Op) /\ status = "running" /\ code # <<>>
    BY <1>1, CallLemma DEF Goes
  <2>2. Succeeded(prog, Spot) = Shut(Tail(code), DOMAIN att, WorkNow, LeftNow, Op.frees)
    BY <2>1, NowLemma DEF Succeeded
  <2> QED
    BY <2>1, <2>2, NowLemma
<1>3. LeftNow' = LeftNow /\ prog' = prog
  BY <1>1 DEF LeftNow, Advance
<1> QED
  BY <1>1, <1>2, <1>3, ShutLemma DEF Kept, ProcessOK, ServerOK, Advance

(* Steps that change only the code. *)
LEMMA StillLemma ==
  ASSUME Kept, status = "running", UNCHANGED <<prog, status, faulted, raced, server>>,
         Place(code', DOMAIN att, WorkNow, LeftNow) \in Outline[prog]
  PROVE  Kept'
<1>1. ServerOK' /\ WorkNow' = WorkNow /\ LeftNow' = LeftNow /\ DOMAIN att' = DOMAIN att
  BY DEF Kept, ServerOK, TxOK, WorkNow, LeftNow, server
<1> QED
  BY <1>1, MoveLemma DEF Kept, ProcessOK

LEMMA PlainLemma ==
  ASSUME Kept, TestAttached \/ EnterBlock \/ PrepareColumn \/ OtherCall \/ NoteIt
  PROVE  Kept'
<1>1. /\ status = "running" /\ code # <<>>
      /\ UNCHANGED <<prog, status, faulted, raced, server>> /\ ~Refused(Op)
      /\ \/ Op.op = "if" /\ code' = (IF Op.a \in DOMAIN att THEN Op.body ELSE <<>>) \o Tail(code)
         \/ Op.op = "block" /\ code' = Op.body \o <<Op.end>> \o Tail(code)
         \/ Op.op \in {"need", "call", "note"} /\ code' = Tail(code)
  BY DEF TestAttached, EnterBlock, PrepareColumn, OtherCall, NoteIt, Goes, At, Advance, Refused,
         InTx
<1>2. Place(code', DOMAIN att, WorkNow, LeftNow) \in Outline[prog]
  <2>1. /\ Spot.code = code /\ Spot.open = DOMAIN att
        /\ Spot.work = WorkNow /\ Spot.left = LeftNow
        /\ Succeeded(prog, Spot) \in Outline[prog] /\ Op = Head(Spot.code)
    BY <1>1, HereLemma DEF Op
  <2> QED
    BY <1>1, <2>1 DEF Succeeded
<1> QED
  BY <1>1, <1>2, StillLemma

LEMMA StartTxLemma ==
  ASSUME Kept, StartTx
  PROVE  Kept'
<1>1. /\ Goes("start") /\ Advance /\ UNCHANGED <<db, att>>
      /\ tx' = With(tx, Op.t, [on |-> Op.a, snap |-> db.val, own |-> Nothing,
                               late |-> {}, dropped |-> {}, mon |-> Nothing])
  BY DEF StartTx
<1>2. PICK t, r : /\ t = Op.t /\ r = tx'[Op.t]
                  /\ r = [on |-> Op.a, snap |-> db.val, own |-> Nothing,
                          late |-> {}, dropped |-> {}, mon |-> Nothing]
  BY <1>1 DEF With
<1>3. /\ DOMAIN tx' = DOMAIN tx \cup {t} /\ tx'[t] = r
      /\ \A u \in DOMAIN tx \ {t} : tx'[u] = tx[u]
  BY <1>1, <1>2 DEF With
<1>4. ServerOK'
  <2>1. TxOK(r)'
    <3>1. DOMAIN r = Fields
      BY <1>2 DEF Fields
    <3>2. r.on = Op.a /\ r.own = Nothing /\ r.snap = db.val
      BY <1>2
    <3>3. Op.a \in DOMAIN att /\ db.val \in [prog.items -> Nat] /\ prog' = prog /\ att' = att
      BY <1>1, CallLemma DEF ServerOK
    <3> QED
      BY <3>1, <3>2, <3>3 DEF TxOK, Nothing
  <2>2. \A u \in DOMAIN tx : TxOK(tx[u]) /\ \A x : TxOK(x)' <=> TxOK(x)
    BY <1>1, CallLemma DEF ServerOK, TxOK
  <2>3. \A u \in DOMAIN tx' : TxOK(tx[u])'
    BY <1>3, <2>1, <2>2 DEF TxOK
  <2> QED
    BY <1>1, <2>3, CallLemma DEF ServerOK
<1>5. WorkNow' = With(WorkNow, t, Doing(Op.a, Nothing)) /\ LeftNow' = LeftNow
  BY <1>1, <1>2, <1>3, CallLemma DEF WorkNow, LeftNow, With
<1>6. Place(Tail(code), DOMAIN att, With(WorkNow, Op.t, Doing(Op.a, Nothing)), LeftNow)
        \in Outline[prog]
  <2>1. Op.op = "start" /\ ~Refused(Op) /\ status = "running" /\ code # <<>>
    BY <1>1, CallLemma DEF Goes
  <2>2. Succeeded(prog, Spot) =
          Place(Tail(code), DOMAIN att, With(WorkNow, Op.t, Doing(Op.a, Nothing)), LeftNow)
    BY <2>1, NowLemma DEF Succeeded
  <2> QED
    BY <2>1, <2>2, NowLemma
<1> QED
  BY <1>1, <1>2, <1>4, <1>5, <1>6, CallLemma, MoveLemma

(* One transaction's record changes, the attachments stay. *)
LEMMA ChangeLemma ==
  ASSUME ServerOK, prog' = prog, NEW t \in DOMAIN tx, NEW r, TxOK(r), r.on = tx[t].on,
         tx' = [tx EXCEPT ![t] = r],
         DOMAIN att' = DOMAIN att, \A a \in DOMAIN att : att'[a] \in Nat,
         DOMAIN db' = {"there", "val"}, db'.there \in BOOLEAN, db'.val \in [prog.items -> Nat]
  PROVE  /\ ServerOK'
         /\ WorkNow' = [WorkNow EXCEPT ![t] = Doing(@.on, r.own)]
<1>1. /\ DOMAIN tx' = DOMAIN tx /\ tx'[t] = r
      /\ \A u \in DOMAIN tx \ {t} : tx'[u] = tx[u]
  OBVIOUS
<1>2. \A x : TxOK(x)' <=> TxOK(x)
  BY DEF TxOK
<1>3. \A u \in DOMAIN tx' : TxOK(tx'[u])
  BY <1>1 DEF ServerOK
<1>4. \A u \in DOMAIN tx' : TxOK(tx[u])'
  BY <1>2, <1>3 DEF TxOK
<1>5. ServerOK'
  BY <1>4 DEF ServerOK
<1>6. DOMAIN WorkNow = DOMAIN tx /\ \A u \in DOMAIN tx : WorkNow[u] = Doing(tx[u].on, tx[u].own)
  BY DEF WorkNow
<1>7. WorkNow[t].on = r.on
  BY <1>6 DEF Doing
<1>8. WorkNow' = [WorkNow EXCEPT ![t] = Doing(r.on, r.own)]
  BY <1>1, <1>6 DEF WorkNow
<1> QED
  BY <1>5, <1>7, <1>8

(* Counting record operations keeps the attachments. *)
LEMMA CountedLemma ==
  ASSUME ServerOK, NEW t \in DOMAIN tx, NEW n \in Nat, att' = Counted(t, n)
  PROVE  DOMAIN att' = DOMAIN att /\ \A a \in DOMAIN att : att'[a] \in Nat
<1>1. tx[t].on \in DOMAIN att /\ \A a \in DOMAIN att : att[a] \in Nat
  BY DEF ServerOK, TxOK
<1> QED
  BY <1>1 DEF Counted

(* One transaction ends, with its work f in the database or without. *)
LEMMA EndLemma ==
  ASSUME ServerOK, prog' = prog, NEW t, tx' = [u \in DOMAIN tx \ {t} |-> tx[u]], att' = att,
         DOMAIN db' = {"there", "val"}, db'.there \in BOOLEAN, db'.val \in [prog.items -> Nat]
  PROVE  /\ ServerOK'
         /\ WorkNow' = [u \in DOMAIN WorkNow \ {t} |-> WorkNow[u]]
<1>1. DOMAIN tx' = DOMAIN tx \ {t} /\ \A u \in DOMAIN tx' : tx'[u] = tx[u]
  OBVIOUS
<1>2. \A u \in DOMAIN tx' : TxOK(tx[u])'
  BY <1>1 DEF ServerOK, TxOK
<1>3. ServerOK'
  BY <1>2 DEF ServerOK
<1> QED
  BY <1>1, <1>3 DEF WorkNow

LEMMA CommitLemma ==
  ASSUME Kept, CommitTx
  PROVE  Kept'
<1>1. /\ Goes("commit") /\ Advance /\ UNCHANGED att
      /\ db' = [db EXCEPT !.val = Over(tx[Op.t].own, @)]
      /\ tx' = [u \in DOMAIN tx \ {Op.t} |-> tx[u]]
  BY DEF CommitTx
<1>2. PICK t, f : t = Op.t /\ f = tx[Op.t].own
  OBVIOUS
<1>3. t \in DOMAIN tx /\ TxOK(tx[t])
  BY <1>1, <1>2, CallLemma DEF InTx
<1>4. prog.gone \subseteq prog.items
  BY <1>1, CallLemma, HereLemma
<1>5. /\ LeftNow' = LeftBy(prog, f, LeftNow)
      /\ DOMAIN db' = {"there", "val"} /\ db'.there \in BOOLEAN
      /\ db'.val \in [prog.items -> Nat]
  BY <1>1, <1>2, <1>3, <1>4, CallLemma, LeftLemma DEF TxOK
<1>6. ServerOK' /\ WorkNow' = [u \in DOMAIN WorkNow \ {t} |-> WorkNow[u]]
  BY <1>1, <1>2, <1>5, CallLemma, EndLemma
<1>7. Place(Tail(code), DOMAIN att, [u \in DOMAIN WorkNow \ {t} |-> WorkNow[u]],
            LeftBy(prog, f, LeftNow)) \in Outline[prog]
  <2>1. Op.op = "commit" /\ ~Refused(Op) /\ status = "running" /\ code # <<>>
    BY <1>1, CallLemma DEF Goes
  <2>2. Spot.work[t].own = f
    BY <1>2, <1>3, <2>1, NowLemma DEF Doing
  <2>3. Succeeded(prog, Spot) = Place(Tail(code), DOMAIN att,
           [u \in DOMAIN WorkNow \ {t} |-> WorkNow[u]], LeftBy(prog, f, LeftNow))
    BY <1>2, <2>1, <2>2, NowLemma DEF Succeeded
  <2> QED
    BY <2>1, <2>3, NowLemma
<1> QED
  BY <1>1, <1>5, <1>6, <1>7, CallLemma, MoveLemma

LEMMA RetainLemma ==
  ASSUME Kept, CommitRetainingTx
  PROVE  Kept'
<1>1. /\ Goes("retain") /\ Advance /\ UNCHANGED att
      /\ db' = [db EXCEPT !.val = Over(tx[Op.t].own, @)]
      /\ tx' = [tx EXCEPT ![Op.t] =
                  [tx[Op.t] EXCEPT !.snap = Over(tx[Op.t].own, tx[Op.t].snap), !.own = Nothing,
                                   !.late = {}, !.dropped = {}]]
  BY DEF CommitRetainingTx
<1>2. PICK t, f : t = Op.t /\ f = tx[Op.t].own
  OBVIOUS
<1>3. t \in DOMAIN tx /\ TxOK(tx[t])
  BY <1>1, <1>2, CallLemma DEF InTx
<1>4. prog.gone \subseteq prog.items
  BY <1>1, CallLemma, HereLemma
<1>5. /\ LeftNow' = LeftBy(prog, f, LeftNow)
      /\ DOMAIN db' = {"there", "val"} /\ db'.there \in BOOLEAN
      /\ db'.val \in [prog.items -> Nat]
  BY <1>1, <1>2, <1>3, <1>4, CallLemma, LeftLemma DEF TxOK
<1>6. PICK r : r = [tx[t] EXCEPT !.snap = Over(f, tx[t].snap), !.own = Nothing,
                                 !.late = {}, !.dropped = {}]
  OBVIOUS
<1>7. TxOK(r) /\ r.on = tx[t].on /\ r.own = Nothing
  <2>1. /\ DOMAIN r = Fields /\ r.on = tx[t].on /\ r.own = Nothing
        /\ r.snap = Over(f, tx[t].snap)
    BY <1>3, <1>6 DEF TxOK, Fields
  <2>2. Over(f, tx[t].snap) \in [prog.items -> Nat]
    BY <1>2, <1>3, OverLemma DEF TxOK
  <2> QED
    BY <1>3, <2>1, <2>2 DEF TxOK, Nothing
<1>8. ServerOK' /\ WorkNow' = [WorkNow EXCEPT ![t] = Doing(@.on, Nothing)]
  <2>1. tx' = [tx EXCEPT ![t] = r]
    BY <1>1, <1>2, <1>6, Zenon
  <2>2. DOMAIN att' = DOMAIN att /\ \A a \in DOMAIN att : att'[a] \in Nat
    BY <1>1, CallLemma DEF ServerOK
  <2> QED
    BY <1>1, <1>3, <1>5, <1>7, <2>1, <2>2, CallLemma, ChangeLemma
<1>9. Place(Tail(code), DOMAIN att, [WorkNow EXCEPT ![t] = Doing(@.on, Nothing)],
            LeftBy(prog, f, LeftNow)) \in Outline[prog]
  <2>1. Op.op = "retain" /\ ~Refused(Op) /\ status = "running" /\ code # <<>>
    BY <1>1, CallLemma DEF Goes
  <2>2. Spot.work[t].own = f
    BY <1>2, <1>3, <2>1, NowLemma DEF Doing
  <2>3. Succeeded(prog, Spot) = Place(Tail(code), DOMAIN att,
           [WorkNow EXCEPT ![t] = Doing(@.on, Nothing)], LeftBy(prog, f, LeftNow))
    BY <1>2, <2>1, <2>2, NowLemma DEF Succeeded
  <2> QED
    BY <2>1, <2>3, NowLemma
<1> QED
  BY <1>1, <1>5, <1>8, <1>9, CallLemma, MoveLemma

LEMMA RollbackLemma ==
  ASSUME Kept, RollbackTx
  PROVE  Kept'
<1>1. /\ Goes("rollback") /\ Advance /\ UNCHANGED <<db, att>>
      /\ tx' = [u \in DOMAIN tx \ {Op.t} |-> tx[u]]
  BY DEF RollbackTx
<1>2. PICK t : t = Op.t
  OBVIOUS
<1>3. ServerOK' /\ WorkNow' = [u \in DOMAIN WorkNow \ {t} |-> WorkNow[u]]
  <2>1. DOMAIN db' = {"there", "val"} /\ db'.there \in BOOLEAN /\ db'.val \in [prog.items -> Nat]
    BY <1>1, CallLemma DEF ServerOK
  <2> QED
    BY <1>1, <1>2, <2>1, CallLemma, EndLemma
<1>4. LeftNow' = LeftNow
  BY <1>1, CallLemma DEF LeftNow
<1>5. Place(Tail(code), DOMAIN att, [u \in DOMAIN WorkNow \ {t} |-> WorkNow[u]], LeftNow)
        \in Outline[prog]
  <2>1. Op.op = "rollback" /\ ~Refused(Op) /\ status = "running" /\ code # <<>>
    BY <1>1, CallLemma DEF Goes
  <2>2. Succeeded(prog, Spot) =
          Place(Tail(code), DOMAIN att, [u \in DOMAIN WorkNow \ {t} |-> WorkNow[u]], LeftNow)
    BY <1>2, <2>1, NowLemma DEF Succeeded
  <2> QED
    BY <2>1, <2>2, NowLemma
<1> QED
  BY <1>1, <1>3, <1>4, <1>5, CallLemma, MoveLemma

LEMMA DdlLemma ==
  ASSUME Kept, ExecDdl
  PROVE  Kept'
<1>1. Goes("ddl") /\ Advance /\ UNCHANGED db
  BY DEF ExecDdl
<1>2. PICK t, f : t = Op.t /\ f = Defined(prog, Op, tx[Op.t].own)
  OBVIOUS
<1>3. t \in DOMAIN tx /\ TxOK(tx[t])
  BY <1>1, <1>2, CallLemma DEF InTx
<1>4. PICK r : /\ tx' = [tx EXCEPT ![t] = r] /\ DOMAIN r = DOMAIN tx[t]
               /\ r.on = tx[t].on /\ r.own = f /\ r.snap = tx[t].snap
  <2> DEFINE l == IF Op.how = "late" THEN {[i |-> Op.i, from |-> Op.from]} ELSE {}
             d == IF Ends(Op) /\ Lookup(Op.t, Op.i) # 0
                  THEN {Op.i} \cup Wiped(prog, Op) ELSE {}
             late == tx[t].late \cup l
             dropped == tx[t].dropped \cup d
  <2>1. tx' = [tx EXCEPT ![t] = [tx[t] EXCEPT !.own = f, !.late = late, !.dropped = dropped]]
    BY <1>2, Zenon DEF ExecDdl
  <2> HIDE DEF late, dropped
  <2>2. PICK r : r = [tx[t] EXCEPT !.own = f, !.late = late, !.dropped = dropped]
    OBVIOUS
  <2>3. /\ DOMAIN r = DOMAIN tx[t] /\ r.on = tx[t].on /\ r.own = f /\ r.snap = tx[t].snap
    BY <1>3, <2>2 DEF TxOK, Fields
  <2> QED
    BY <1>3, <2>1, <2>2, <2>3
<1>5. TxOK(r)
  <2>1. Op.i \in prog.items /\ Op.to \in Nat /\ DOMAIN prog.within \subseteq prog.items
    BY <1>1, CallLemma, HereLemma DEF NamesItems
  <2>2. DOMAIN f \subseteq prog.items /\ \A i \in DOMAIN f : f[i] \in Nat
    BY <1>2, <1>3, <2>1, DefinedLemma DEF TxOK
  <2> QED
    BY <1>3, <1>4, <2>2 DEF TxOK
<1>6. DOMAIN att' = DOMAIN att /\ \A a \in DOMAIN att : att'[a] \in Nat
  <2>1. PICK n \in Nat : att' = Counted(t, n)
    BY <1>2 DEF ExecDdl
  <2> QED
    BY <1>1, <1>3, <2>1, CallLemma, CountedLemma
<1>7. ServerOK' /\ WorkNow' = [WorkNow EXCEPT ![t] = Doing(@.on, f)]
  <2>1. DOMAIN db' = {"there", "val"} /\ db'.there \in BOOLEAN /\ db'.val \in [prog.items -> Nat]
    BY <1>1, CallLemma DEF ServerOK
  <2> QED
    BY <1>1, <1>3, <1>4, <1>5, <1>6, <2>1, CallLemma, ChangeLemma
<1>8. LeftNow' = LeftNow
  BY <1>1, CallLemma DEF LeftNow
<1>9. Place(Tail(code), DOMAIN att, [WorkNow EXCEPT ![t] = Doing(@.on, f)], LeftNow)
        \in Outline[prog]
  <2>1. Op.op = "ddl" /\ ~Refused(Op) /\ status = "running" /\ code # <<>>
    BY <1>1, CallLemma DEF Goes
  <2>2. f = Defined(prog, Op, Spot.work[t].own)
    BY <1>2, <1>3, <2>1, NowLemma DEF Doing
  <2>3. Succeeded(prog, Spot) =
          Place(Tail(code), DOMAIN att, [WorkNow EXCEPT ![t] = Doing(@.on, f)], LeftNow)
    BY <1>2, <2>1, <2>2, NowLemma DEF Succeeded
  <2> QED
    BY <2>1, <2>3, NowLemma
<1> QED
  BY <1>1, <1>6, <1>7, <1>8, <1>9, CallLemma, MoveLemma

LEMMA PutLemma ==
  ASSUME Kept, ExecPut
  PROVE  Kept'
<1>1. /\ Goes("put") /\ Advance /\ UNCHANGED db
      /\ tx' = [tx EXCEPT ![Op.t].own = Over(Op.f, @)] /\ att' = Counted(Op.t, 1)
  BY DEF ExecPut
<1>2. PICK t, f : t = Op.t /\ f = Over(Op.f, tx[Op.t].own)
  OBVIOUS
<1>3. t \in DOMAIN tx /\ TxOK(tx[t])
  BY <1>1, <1>2, CallLemma DEF InTx
<1>4. PICK r : /\ tx' = [tx EXCEPT ![t] = r] /\ DOMAIN r = DOMAIN tx[t]
               /\ r.on = tx[t].on /\ r.own = f /\ r.snap = tx[t].snap
  <2>1. tx' = [tx EXCEPT ![t] = [@ EXCEPT !.own = f]]
    BY <1>1, <1>2, <1>3
  <2>2. PICK r : r = [tx[t] EXCEPT !.own = f]
    OBVIOUS
  <2>3. /\ DOMAIN r = DOMAIN tx[t] /\ r.on = tx[t].on /\ r.own = f /\ r.snap = tx[t].snap
    BY <1>3, <2>2 DEF TxOK, Fields
  <2> QED
    BY <1>3, <2>1, <2>2, <2>3
<1>5. TxOK(r)
  <2>1. DOMAIN Op.f \subseteq prog.items /\ \A i \in DOMAIN Op.f : Op.f[i] \in Nat
    BY <1>1, CallLemma, HereLemma DEF NamesItems
  <2>2. DOMAIN f \subseteq prog.items /\ \A i \in DOMAIN f : f[i] \in Nat
    BY <1>2, <1>3, <2>1, OverLemma DEF TxOK
  <2> QED
    BY <1>3, <1>4, <2>2 DEF TxOK
<1>6. DOMAIN att' = DOMAIN att /\ \A a \in DOMAIN att : att'[a] \in Nat
  BY <1>1, <1>2, <1>3, CallLemma, CountedLemma
<1>7. ServerOK' /\ WorkNow' = [WorkNow EXCEPT ![t] = Doing(@.on, f)]
  <2>1. DOMAIN db' = {"there", "val"} /\ db'.there \in BOOLEAN /\ db'.val \in [prog.items -> Nat]
    BY <1>1, CallLemma DEF ServerOK
  <2> QED
    BY <1>1, <1>3, <1>4, <1>5, <1>6, <2>1, CallLemma, ChangeLemma
<1>8. LeftNow' = LeftNow
  BY <1>1, CallLemma DEF LeftNow
<1>9. Place(Tail(code), DOMAIN att, [WorkNow EXCEPT ![t] = Doing(@.on, f)], LeftNow)
        \in Outline[prog]
  <2>1. Op.op = "put" /\ ~Refused(Op) /\ status = "running" /\ code # <<>>
    BY <1>1, CallLemma DEF Goes
  <2>2. f = Over(Op.f, Spot.work[t].own)
    BY <1>2, <1>3, <2>1, NowLemma DEF Doing
  <2>3. Succeeded(prog, Spot) =
          Place(Tail(code), DOMAIN att, [WorkNow EXCEPT ![t] = Doing(@.on, f)], LeftNow)
    BY <1>2, <2>1, <2>2, NowLemma DEF Succeeded
  <2> QED
    BY <2>1, <2>3, NowLemma
<1> QED
  BY <1>1, <1>6, <1>7, <1>8, <1>9, CallLemma, MoveLemma

LEMMA AloneLemma ==
  ASSUME Kept, ExecAlone
  PROVE  Kept'
<1>1. /\ Goes("alone") /\ Advance /\ UNCHANGED <<att, tx>>
      /\ db' = [db EXCEPT !.val = Over(Op.f, @)]
  BY DEF ExecAlone
<1>2. PICK f : f = Op.f
  OBVIOUS
<1>3. /\ prog.gone \subseteq prog.items
      /\ DOMAIN f \subseteq prog.items /\ \A i \in DOMAIN f : f[i] \in Nat
  BY <1>1, <1>2, CallLemma, HereLemma DEF NamesItems
<1>4. /\ LeftNow' = LeftBy(prog, f, LeftNow)
      /\ DOMAIN db' = {"there", "val"} /\ db'.there \in BOOLEAN
      /\ db'.val \in [prog.items -> Nat]
  BY <1>1, <1>2, <1>3, CallLemma, LeftLemma
<1>5. ServerOK' /\ WorkNow' = WorkNow
  <2>1. \A t \in DOMAIN tx : TxOK(tx[t])'
    BY <1>1, CallLemma DEF ServerOK, TxOK
  <2> QED
    BY <1>1, <1>4, <2>1, CallLemma DEF ServerOK, WorkNow
<1>6. Place(Tail(code), DOMAIN att, WorkNow, LeftBy(prog, f, LeftNow)) \in Outline[prog]
  <2>1. Op.op = "alone" /\ ~Refused(Op) /\ status = "running" /\ code # <<>>
    BY <1>1, CallLemma DEF Goes
  <2>2. Succeeded(prog, Spot) =
          Place(Tail(code), DOMAIN att, WorkNow, LeftBy(prog, f, LeftNow))
    BY <1>2, <2>1, NowLemma DEF Succeeded
  <2> QED
    BY <2>1, <2>2, NowLemma
<1> QED
  BY <1>1, <1>4, <1>5, <1>6, CallLemma, MoveLemma

(* Queries: what they count or freeze is not part of a place. *)
LEMMA QueryLemma ==
  ASSUME Kept, QueryItem \/ QueryMon
  PROVE  Kept'
<1>1. PICK k \in {"get", "mon"} : Goes(k) /\ Advance
  BY DEF QueryItem, QueryMon
<1>2. PICK t : t = Op.t
  OBVIOUS
<1>3. t \in DOMAIN tx /\ TxOK(tx[t]) /\ UNCHANGED db
  BY <1>1, <1>2, CallLemma DEF InTx, QueryItem, QueryMon
<1>4. DOMAIN att' = DOMAIN att /\ \A a \in DOMAIN att : att'[a] \in Nat
  <2>1. att' = att \/ att' = Counted(t, 1)
    BY <1>2 DEF QueryItem, QueryMon
  <2>2. ServerOK
    BY DEF Kept
  <2>3. CASE att' = att
    BY <2>2, <2>3 DEF ServerOK
  <2>4. CASE att' = Counted(t, 1)
    BY <1>3, <2>2, <2>4, CountedLemma
  <2> QED
    BY <2>1, <2>3, <2>4
<1>5. DOMAIN db' = {"there", "val"} /\ db'.there \in BOOLEAN /\ db'.val \in [prog.items -> Nat]
  BY <1>1, <1>3, CallLemma DEF ServerOK
<1>6. ServerOK' /\ WorkNow' = WorkNow
  <2>1. CASE QueryItem
    <3>1. tx' = tx
      BY <2>1 DEF QueryItem
    <3>2. \A u \in DOMAIN tx : TxOK(tx[u])'
      BY <1>1, <1>4, <3>1, CallLemma DEF ServerOK, TxOK
    <3> QED
      BY <1>1, <1>4, <1>5, <3>1, <3>2, CallLemma DEF ServerOK, WorkNow
  <2>2. CASE QueryMon
    <3>1. PICK m : m = MonOf(t)
      OBVIOUS
    <3>2. PICK r : r = [tx[t] EXCEPT !.mon = m]
      OBVIOUS
    <3>3. tx' = [tx EXCEPT ![t] = r]
      BY <1>2, <1>3, <2>2, <3>1, <3>2 DEF QueryMon
    <3>4. TxOK(r) /\ r.on = tx[t].on /\ r.own = tx[t].own
      BY <1>3, <3>2 DEF TxOK, Fields
    <3>5. ServerOK' /\ WorkNow' = [WorkNow EXCEPT ![t] = Doing(@.on, r.own)]
      BY <1>1, <1>3, <1>4, <1>5, <3>3, <3>4, CallLemma, ChangeLemma
    <3>6. WorkNow[t] = Doing(WorkNow[t].on, r.own)
      BY <1>3, <3>4 DEF WorkNow, Doing
    <3> QED
      BY <3>5, <3>6 DEF WorkNow
  <2> QED
    BY <2>1, <2>2
<1>7. LeftNow' = LeftNow
  BY <1>1, <1>3, CallLemma DEF LeftNow
<1>8. Place(Tail(code), DOMAIN att, WorkNow, LeftNow) \in Outline[prog]
  <2>1. Op.op = k /\ ~Refused(Op) /\ status = "running" /\ code # <<>>
    BY <1>1, CallLemma DEF Goes
  <2>2. Succeeded(prog, Spot) = Place(Tail(code), DOMAIN att, WorkNow, LeftNow)
    BY <2>1, NowLemma DEF Succeeded
  <2> QED
    BY <2>1, <2>2, NowLemma
<1> QED
  BY <1>1, <1>4, <1>6, <1>7, <1>8, CallLemma, MoveLemma

(* Calls that fail: refused by the server, or for a reason of their own. *)
LEMMA FailLemma ==
  ASSUME Kept, Refuse \/ Fault \/ CommitAnswerLost
  PROVE  Kept'
<1>1. ProcessOK
  BY DEF Kept
<1>2. CASE Refuse
  <2>1. /\ status = "running" /\ code # <<>> /\ Throw({}) /\ prog' = prog /\ UNCHANGED db
        /\ faulted' \in BOOLEAN /\ raced' \in BOOLEAN
    BY <1>1, <1>2 DEF Refuse, ProcessOK
  <2>2. Op.op \notin {"note", "block", "end", "if"}
    BY <1>2 DEF Refuse, Refused, InTx
  <2> QED
    BY <2>1, <2>2, ThrowLemma
<1>3. CASE Fault
  <2>1. /\ status = "running" /\ code # <<>> /\ Throw({}) /\ prog' = prog /\ UNCHANGED db
        /\ faulted' \in BOOLEAN /\ raced' \in BOOLEAN
        /\ Op.op \notin {"note", "block", "end", "if"}
    BY <1>1, <1>3 DEF Fault, ProcessOK, Silent
  <2> QED
    BY <2>1, ThrowLemma
<1>4. CASE CommitAnswerLost
  <2>1. PICK lost : lost = {Op.t}
    OBVIOUS
  <2>2. /\ status = "running" /\ code # <<>> /\ Throw(lost) /\ prog' = prog
        /\ faulted' \in BOOLEAN /\ raced' \in BOOLEAN
        /\ Op.op \in {"commit", "retain"} /\ ~Refused(Op)
        /\ db' = [db EXCEPT !.val = Over(tx[Op.t].own, @)]
    BY <1>1, <1>4, <2>1 DEF CommitAnswerLost, ProcessOK, Goes, At
  <2> QED
    BY <2>1, <2>2, ThrowLemma
<1> QED
  BY <1>2, <1>3, <1>4

(* The end of a run: the place where main returns 0 is settled. *)
LEMMA ExitLemma ==
  ASSUME Kept, Exit \/ Kill
  PROVE  Kept'
<1>1. /\ prog' = prog /\ Without(DOMAIN att) /\ UNCHANGED db
      /\ faulted' \in BOOLEAN /\ raced' \in BOOLEAN
  BY DEF Exit, Kill, Kept, ProcessOK
<1>2. DOMAIN db' = {"there", "val"} /\ db'.there \in BOOLEAN /\ db'.val \in [prog.items -> Nat]
  BY <1>1 DEF Kept, ServerOK
<1>3. CASE Exit
  <2>1. status = "running" /\ code = <<>> /\ status' = "ok"
    BY <1>3 DEF Exit
  <2>2. Spot \in Outline[prog] /\ Supports(prog, Outline[prog])
    BY <2>1 DEF Kept, InOutline, Outlined, ProcessOK
  <2>3. Spot.code = <<>> /\ Spot.left = LeftNow
    BY <2>1 DEF Spot, LeftNow, Place
  <2>4. LeftNow' = {}
    BY <1>1, <2>2, <2>3 DEF Supports, Settled, LeftNow
  <2> QED
    BY <1>1, <1>2, <2>1, <2>4, StopLemma
<1>4. CASE Kill
  <2>1. status' = "killed"
    BY <1>4 DEF Kill
  <2> QED
    BY <1>1, <1>2, <2>1, StopLemma
<1> QED
  BY <1>3, <1>4

(* Another program creates the file. *)
LEMMA OtherLemma ==
  ASSUME Kept, OtherCreates
  PROVE  Kept'
<1>1. UNCHANGED <<prog, status, code, att, tx, faulted>> /\ raced' \in BOOLEAN
  BY DEF OtherCreates
<1>2. /\ DOMAIN db' = {"there", "val"} /\ db'.there \in BOOLEAN /\ db'.val = db.val
  BY DEF OtherCreates, Kept, ServerOK
<1>3. ServerOK'
  <2>1. \A t \in DOMAIN tx : TxOK(tx[t])'
    BY <1>1 DEF Kept, ServerOK, TxOK
  <2> QED
    BY <1>1, <1>2, <2>1 DEF Kept, ServerOK
<1>4. Spot' = Spot
  BY <1>1, <1>2 DEF Spot
<1>5. InOutline' /\ CleansUp'
  BY <1>1, <1>2, <1>4 DEF Kept, InOutline, CleansUp
<1> QED
  BY <1>1, <1>3, <1>5 DEF Kept, Outlined, ProcessOK

(* A new run starts with nothing open, from whatever the last one left. *)
LEMMA StartRunLemma ==
  ASSUME Kept, StartRun
  PROVE  Kept'
<1>1. /\ status # "running" /\ status' = "running" /\ code' = prog.body
      /\ faulted' = FALSE /\ raced' = FALSE /\ UNCHANGED <<prog, db, att, tx>>
  BY DEF StartRun, server
<1>2. ServerOK'
  <2>1. \A t \in DOMAIN tx : TxOK(tx[t])'
    BY <1>1 DEF Kept, ServerOK, TxOK
  <2> QED
    BY <1>1, <2>1 DEF Kept, ServerOK
<1>3. DOMAIN att = {} /\ DOMAIN tx = {}
  BY <1>1 DEF Kept, InOutline, ServerOK, TxOK
<1>4. Spot' = Place(prog.body, {}, Nothing, LeftNow)
  <2>1. WorkNow' = Nothing
    BY <1>1, <1>3 DEF WorkNow, Nothing
  <2>2. Spot' = Place(code', DOMAIN att', WorkNow', LeftNow')
    BY DEF Spot, WorkNow, LeftNow
  <2>3. LeftNow' = LeftNow
    BY <1>1 DEF LeftNow
  <2> QED
    BY <1>1, <1>3, <2>1, <2>2, <2>3
<1>5. LeftNow \in SUBSET prog.gone /\ Supports(prog, Outline[prog])
  BY DEF LeftNow, Kept, Outlined, ProcessOK
<1>6. Spot' \in Outline[prog]
  BY <1>4, <1>5 DEF Supports
<1>7. InOutline' /\ CleansUp'
  BY <1>1, <1>6 DEF InOutline, CleansUp
<1> QED
  BY <1>1, <1>2, <1>7 DEF Kept, Outlined, ProcessOK

-----------------------------------------------------------------------------
(* The invariant holds at first, is kept by every step, and implies the rest. *)

LEMMA KeptInitLemma == Outlined /\ Init => Kept
<1> SUFFICES ASSUME Outlined, Init PROVE Kept
  OBVIOUS
<1>1. ProcessOK /\ CleansUp
  BY DEF Init, ProcessOK, CleansUp
<1>2. DOMAIN att = {} /\ DOMAIN tx = {} /\ status = "idle"
  BY DEF Init, Nothing
<1>3. ServerOK
  <2>1. DOMAIN db = {"there", "val"} /\ db.there \in BOOLEAN /\ db.val \in [prog.items -> Nat]
    BY DEF Init
  <2> QED
    BY <1>2, <2>1 DEF ServerOK
<1> QED
  BY <1>1, <1>2, <1>3 DEF Kept, InOutline

LEMMA KeptNextLemma == Kept /\ [Next]_vars => Kept'
<1> SUFFICES ASSUME Kept, [Next]_vars PROVE Kept'
  OBVIOUS
<1>1. CASE AttachDb \/ MakeDb \/ AttachOtherDb
  BY <1>1, AttachLemma
<1>2. CASE DetachDb
  BY <1>2, DetachLemma
<1>3. CASE DropDb
  BY <1>3, DropDbLemma
<1>4. CASE TestAttached \/ EnterBlock \/ PrepareColumn \/ OtherCall \/ NoteIt
  BY <1>4, PlainLemma
<1>5. CASE StartTx
  BY <1>5, StartTxLemma
<1>6. CASE CommitTx
  BY <1>6, CommitLemma
<1>7. CASE CommitRetainingTx
  BY <1>7, RetainLemma
<1>8. CASE RollbackTx
  BY <1>8, RollbackLemma
<1>9. CASE ExecDdl
  BY <1>9, DdlLemma
<1>10. CASE ExecPut
  BY <1>10, PutLemma
<1>11. CASE ExecAlone
  BY <1>11, AloneLemma
<1>12. CASE QueryItem \/ QueryMon
  BY <1>12, QueryLemma
<1>13. CASE LeaveBlock
  BY <1>13, LeaveLemma
<1>14. CASE Refuse \/ Fault \/ CommitAnswerLost
  BY <1>14, FailLemma
<1>15. CASE Exit \/ Kill
  BY <1>15, ExitLemma
<1>16. CASE OtherCreates
  BY <1>16, OtherLemma
<1>17. CASE StartRun
  BY <1>17, StartRunLemma
<1>18. CASE UNCHANGED vars
  <2>1. UNCHANGED <<prog, status, code, db, att, tx, faulted, raced>>
    BY <1>18 DEF vars
  <2>2. ServerOK' <=> ServerOK
    BY <2>1 DEF ServerOK, TxOK
  <2>3. Spot' = Spot
    BY <2>1 DEF Spot
  <2> QED
    BY <2>1, <2>2, <2>3 DEF Kept, Outlined, ProcessOK, InOutline, CleansUp
<1> QED
  BY <1>1, <1>2, <1>3, <1>4, <1>5, <1>6, <1>7, <1>8, <1>9, <1>10, <1>11, <1>12, <1>13,
     <1>14, <1>15, <1>16, <1>17, <1>18 DEF Next, Proceed, Disturb

LEMMA KeptLemma == Kept => ScriptsInv /\ OutlineInv
<1> SUFFICES ASSUME Kept PROVE ScriptsInv /\ OutlineInv
  OBVIOUS
<1>1. TypeOK
  BY DEF Kept, ProcessOK, ServerOK, TxOK, TypeOK
<1>2. NoLostWork
  <2> SUFFICES ASSUME status = "running", code = <<>>, NEW t \in DOMAIN tx
               PROVE  tx[t].own = Nothing
    BY DEF NoLostWork
  <2>1. Spot \in Outline[prog] /\ Supports(prog, Outline[prog])
    BY DEF Kept, InOutline, Outlined, ProcessOK
  <2>2. Spot.code = <<>> /\ Spot.work = WorkNow
    BY DEF Spot, WorkNow, Place
  <2>3. \A u \in DOMAIN WorkNow : WorkNow[u].own = Nothing
    BY <2>1, <2>2 DEF Supports, Settled
  <2> QED
    BY <2>3 DEF WorkNow, Doing
<1> QED
  BY <1>1, <1>2 DEF ScriptsInv, OutlineInv, Kept

(* For any set of scripts that have an outline: types are kept, a process that
   returns 0 has no uncommitted work, and after exit 0 what the script says it
   removed is gone; over any number of runs, failed calls, lost commit answers,
   kills and databases created by another program in between. *)
THEOREM ScriptsInvTheorem == Outlined /\ Spec => []ScriptsInv
<1>1. Kept => ScriptsInv
  BY KeptLemma
<1> QED
  BY <1>1, KeptInitLemma, KeptNextLemma, PTL DEF Spec

(* The outline is right, too: a running process never is at a place that it does
   not list, and a process that has ended has no attachment open. *)
THEOREM OutlineTheorem == Outlined /\ Spec => []OutlineInv
<1>1. Kept => OutlineInv
  BY KeptLemma
<1> QED
  BY <1>1, KeptInitLemma, KeptNextLemma, PTL DEF Spec
=============================================================================
