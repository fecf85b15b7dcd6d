------------------------------ MODULE Scripts ------------------------------
(***************************************************************************)
(* A single-threaded sample run again and again on its scratch database.   *)
(*                                                                         *)
(* Most samples are straight-line programs: attach (or create) a scratch   *)
(* database, clean up what an earlier run left, build a schema, show       *)
(* something, end the transaction.  What is hard to test in them is what   *)
(* an EARLIER run leaves behind: any call may fail and the process may be  *)
(* killed between any two calls, so the next run starts from every         *)
(* intermediate database, and the clean-up it opens with must cope.        *)
(*                                                                         *)
(* A sample is a record of data: its body is a sequence of operations, one *)
(* per API call (ScriptTwins has one per program).  This module runs it:   *)
(* the process (code still to execute, with the try blocks and destructor  *)
(* scopes entered so far), the server as far as these programs see it      *)
(* (committed items, attachments, open transactions), the faults, and the  *)
(* endless sequence of runs; how many calls fail, how often the process is *)
(* killed and how often it is started again is not limited.                *)
(*                                                                         *)
(* Items are catalog objects (tables, procedures, users ...; the value is  *)
(* the version of the definition, 0 when absent) and the contents of a     *)
(* table (the value stands for the rows).                                  *)
(***************************************************************************)
EXTENDS Integers, Sequences, FiniteSets, FiniteSetsExt

CONSTANT Programs   \* the samples to run, records as Script below

VARIABLES prog,     \* the sample being run
          status,   \* "idle", "running", "ok" (exit 0), "failed" (exit 1), "killed"
          code,     \* what the process has still to execute
          db,       \* the database: does the file exist, committed items
          att,      \* open attachments, each with its count of record operations
          tx,       \* active transactions the process has a handle of
          leaked,   \* active transactions whose handle it has overwritten
          seen,     \* what this run has shown so far, by label
          faulted,  \* a call has failed in this run
          raced     \* another program has created the file during this run
vars == <<prog, status, code, db, att, tx, leaked, seen, faulted, raced>>
server == <<db, att, tx, leaked>>

-----------------------------------------------------------------------------
(* Programs as data *)

\* catalog: the catalog objects; within: what disappears with what (rows, indexes
\* and triggers with their table); uses: a version of one object needs another;
\* claims: what the sample prints that it shows; gone: what it says it removed.
Script(name, catalog, within, uses, claims, gone, body) ==
  [name |-> name, items |-> catalog \cup DOMAIN within,
   rows |-> DOMAIN within \ catalog, within |-> within,
   uses |-> uses, claims |-> claims, gone |-> gone, body |-> body]

Uses(item, ver, on) == [item |-> item, ver |-> ver, on |-> on]

Attach(a) == [op |-> "attach", a |-> a, login |-> {}]
AttachAs(a, login) == [op |-> "attach", a |-> a, login |-> login]
Make(a) == [op |-> "make", a |-> a]
AttachOther(a) == [op |-> "other", a |-> a]
Detach(a) == [op |-> "detach", a |-> a]
DropDatabase(a) == [op |-> "dropdb", a |-> a]
IfAttached(a, body) == [op |-> "if", a |-> a, body |-> body]
Start(t, a) == [op |-> "start", t |-> t, a |-> a]
Commit(t) == [op |-> "commit", t |-> t]
CommitRetaining(t) == [op |-> "retain", t |-> t]
Rollback(t) == [op |-> "rollback", t |-> t]

Versions == 1..9
Ddl(t, i, from, to, how) ==
  [op |-> "ddl", t |-> t, i |-> i, from |-> from, to |-> to, how |-> how]
Create(t, i) == Ddl(t, i, {0}, 1, "now")
Drop(t, i) == Ddl(t, i, Versions, 0, "now")
Recreate(t, i) == Ddl(t, i, {0} \cup Versions, 1, "fresh")
CreateOrAlter(t, i, v) == Ddl(t, i, {0} \cup Versions, v, "now")
Alter(t, i, v) == Ddl(t, i, Versions, v, "now")
DropUnused(t, i) == Ddl(t, i, Versions, 0, "unused")     \* dependents checked at once
CreateUser(t, i) == Ddl(t, i, {0}, 1, "late")            \* performed at commit
DropUser(t, i) == Ddl(t, i, Versions, 0, "late")

PutAll(t, f) == [op |-> "put", t |-> t, f |-> f]
Put(t, i, v) == PutAll(t, [x \in {i} |-> v])
PutAlone(f) == [op |-> "alone", f |-> f]                 \* autonomous transaction
Get(t, i, label) == [op |-> "get", t |-> t, i |-> i, label |-> label]
Need(t, i, v) == [op |-> "need", t |-> t, i |-> i, v |-> v]
Mon(t, what, label) == [op |-> "mon", t |-> t, what |-> what, label |-> label]
Call(t) == [op |-> "call", t |-> t]
Raise == [op |-> "raise"]
Note(label) == [op |-> "note", label |-> label]

\* try { body } catch { handler }, and a block whose locals are destroyed at its end
End(catches, handler, frees) ==
  [op |-> "end", catches |-> catches, handler |-> handler, frees |-> frees]
Try(body, handler) == [op |-> "block", body |-> body, end |-> End(TRUE, handler, {})]
Scope(names, body) == [op |-> "block", body |-> body, end |-> End(FALSE, <<>>, names)]
Quiet(o) == Try(<<o>>, <<>>)

\* fb_sample.h, fbcpp_sample.h: two calls, and any failure of the first is
\* taken to mean that there is no database
AttachOrCreate(a) == Try(<<Attach(a)>>, <<Make(a)>>)

-----------------------------------------------------------------------------
(* The server, as these programs see it *)

Op == Head(code)
At(k) == status = "running" /\ code # <<>> /\ Op.op = k

Nothing == [i \in {} |-> 0]
Over(f, g) == [x \in DOMAIN f \cup DOMAIN g |-> IF x \in DOMAIN f THEN f[x] ELSE g[x]]
With(g, x, v) == [y \in DOMAIN g \cup {x} |-> IF y = x THEN v ELSE g[y]]

Lookup(t, i) == IF i \in DOMAIN tx[t].own THEN tx[t].own[i] ELSE db.val[i]

\* Metadata is read committed; rows are read in the transaction's snapshot
Visible(t, i) ==
  IF i \in prog.rows /\ i \notin DOMAIN tx[t].own
  THEN tx[t].snap[i] ELSE Lookup(t, i)

Pending(t, i) == i \in DOMAIN tx[t].own
TakenByOther(t, i) ==
  \/ \E u \in DOMAIN tx \ {t} : Pending(u, i)
  \/ \E u \in leaked : i \in DOMAIN u.own

\* A commit of drops fails while something still uses what is dropped
Dangling(t) ==
  \E u \in prog.uses : /\ u.on \in tx[t].dropped
                       /\ u.item \notin tx[t].dropped
                       /\ Lookup(t, u.item) = u.ver
CommitRefused(t) ==
  \/ \E d \in tx[t].late : db.val[d.i] \notin d.from
  \/ Dangling(t)

DdlRefused(o) ==
  \/ o.how # "late" /\ (Lookup(o.t, o.i) \notin o.from \/ TakenByOther(o.t, o.i))
  \/ o.how = "unused" /\ \E u \in prog.uses : u.on = o.i /\ db.val[u.item] = u.ver
  \/ \E u \in prog.uses : u.item = o.i /\ u.ver = o.to /\ Lookup(o.t, u.on) = 0

NoTable(t, i) == i \in prog.rows /\ Lookup(t, prog.within[i]) = 0

InTx == {"commit", "retain", "rollback", "ddl", "put", "get", "need", "mon", "call"}

\* The server answers this call with an error
Refused(o) ==
  \/ o.op = "attach" /\ (~db.there \/ \E i \in o.login : db.val[i] = 0)
  \/ o.op = "make" /\ db.there
  \/ o.op \in {"detach", "dropdb", "start"} /\ o.a \notin DOMAIN att
  \/ o.op = "dropdb" /\ o.a \in DOMAIN att /\ DOMAIN att # {o.a}
  \/ o.op \in InTx /\ o.t \notin DOMAIN tx
  \/ o.op \in InTx /\ o.t \in DOMAIN tx
     /\ \/ o.op \in {"commit", "retain"} /\ CommitRefused(o.t)
        \/ o.op = "ddl" /\ DdlRefused(o)
        \/ o.op = "put" /\ \E i \in DOMAIN o.f : NoTable(o.t, i)
        \/ o.op = "get" /\ NoTable(o.t, o.i)
        \/ o.op = "need" /\ Lookup(o.t, o.i) < o.v
  \/ o.op = "raise"

\* WAIT: the call sleeps until another transaction ends
Blocked(o) ==
  o.op = "put" /\ o.t \in DOMAIN tx /\ \E i \in DOMAIN o.f : TakenByOther(o.t, i)

\* What is left of the open handles when some are closed: the server rolls
\* back the transactions of an attachment that ends
Without(names) ==
  /\ att' = [a \in DOMAIN att \ names |-> att[a]]
  /\ tx' = [t \in {t \in DOMAIN tx \ names : tx[t].on \notin names} |-> tx[t]]
  /\ leaked' = {u \in leaked : u.on \notin names}

Counted(t, n) == [att EXCEPT ![tx[t].on] = @ + n]

-----------------------------------------------------------------------------
(* The process *)

Goes(o) == At(o) /\ ~Refused(Op) /\ ~Blocked(Op)
Advance == code' = Tail(code) /\ UNCHANGED <<prog, status, faulted, raced>>

AttachDb ==
  /\ Goes("attach") /\ Advance
  /\ att' = With(att, Op.a, 0)
  /\ UNCHANGED <<db, tx, leaked, seen>>

MakeDb ==
  /\ Goes("make") /\ Advance
  /\ db' = [db EXCEPT !.there = TRUE]
  /\ att' = With(att, Op.a, 0)
  /\ UNCHANGED <<tx, leaked, seen>>

\* The employee database: it is always there
AttachOtherDb ==
  /\ Goes("other") /\ Advance
  /\ att' = With(att, Op.a, 0)
  /\ UNCHANGED <<db, tx, leaked, seen>>

\* ~Db and the destructors of fb-cpp: open transactions are rolled back
DetachDb ==
  /\ Goes("detach") /\ Advance
  /\ Without({Op.a})
  /\ UNCHANGED <<db, seen>>

DropDb ==
  /\ Goes("dropdb") /\ Advance
  /\ db' = [there |-> FALSE, val |-> [i \in prog.items |-> 0]]
  /\ Without({Op.a})
  /\ UNCHANGED seen

TestAttached ==
  /\ At("if")
  /\ code' = (IF Op.a \in DOMAIN att THEN Op.body ELSE <<>>) \o Tail(code)
  /\ UNCHANGED <<prog, status, faulted, raced, server, seen>>

StartTx ==
  /\ Goes("start") /\ Advance
  /\ leaked' = leaked \cup {tx[t] : t \in DOMAIN tx \cap {Op.t}}
  /\ tx' = With(tx, Op.t, [on |-> Op.a, snap |-> db.val, own |-> Nothing,
                           late |-> {}, dropped |-> {}, mon |-> Nothing])
  /\ UNCHANGED <<db, att, seen>>

CommitTx ==
  /\ Goes("commit") /\ Advance
  /\ db' = [db EXCEPT !.val = Over(tx[Op.t].own, @)]
  /\ tx' = [t \in DOMAIN tx \ {Op.t} |-> tx[t]]
  /\ UNCHANGED <<att, leaked, seen>>

\* The transaction goes on with the snapshot it had, plus its own work
CommitRetainingTx ==
  /\ Goes("retain") /\ Advance
  /\ db' = [db EXCEPT !.val = Over(tx[Op.t].own, @)]
  /\ LET r == tx[Op.t]
     IN tx' = [tx EXCEPT ![Op.t] = [r EXCEPT !.snap = Over(r.own, r.snap), !.own = Nothing,
                                             !.late = {}, !.dropped = {}]]
  /\ UNCHANGED <<att, leaked, seen>>

RollbackTx ==
  /\ Goes("rollback") /\ Advance
  /\ tx' = [t \in DOMAIN tx \ {Op.t} |-> tx[t]]
  /\ UNCHANGED <<db, att, leaked, seen>>

\* What DDL does to a transaction's own work: a table takes with it what is in it
Ends(o) == o.to = 0 \/ o.how = "fresh"
Wiped(P, o) == IF Ends(o) THEN {j \in DOMAIN P.within : P.within[j] = o.i} ELSE {}
Defined(P, o, own) == With(Over([j \in Wiped(P, o) |-> 0], own), o.i, o.to)

ExecDdl ==
  /\ Goes("ddl") /\ Advance
  /\ LET o == Op
         r == tx[o.t]
         late == IF o.how = "late" THEN {[i |-> o.i, from |-> o.from]} ELSE {}
         dropped == IF Ends(o) /\ Lookup(o.t, o.i) # 0 THEN {o.i} \cup Wiped(prog, o) ELSE {}
     IN tx' = [tx EXCEPT ![o.t] = [r EXCEPT !.own = Defined(prog, o, r.own),
                                            !.late = r.late \cup late,
                                            !.dropped = r.dropped \cup dropped]]
  /\ att' = Counted(Op.t, IF Op.to = 0 THEN 0 ELSE 1)
  /\ UNCHANGED <<db, leaked, seen>>

ExecPut ==
  /\ Goes("put") /\ Advance
  /\ tx' = [tx EXCEPT ![Op.t].own = Over(Op.f, @)]
  /\ att' = Counted(Op.t, 1)
  /\ UNCHANGED <<db, leaked, seen>>

\* Work a server plugin commits by itself, in a transaction of its own
ExecAlone ==
  /\ Goes("alone") /\ Advance
  /\ db' = [db EXCEPT !.val = Over(Op.f, @)]
  /\ UNCHANGED <<att, tx, leaked, seen>>

QueryItem ==
  /\ Goes("get") /\ Advance
  /\ seen' = With(seen, Op.label, Visible(Op.t, Op.i))
  /\ att' = Counted(Op.t, 1)
  /\ UNCHANGED <<db, tx, leaked>>

PrepareColumn ==
  /\ Goes("need") /\ Advance
  /\ UNCHANGED <<server, seen>>

\* The first MON$ query of a transaction freezes what all of them return:
\* attachments, record operations per attachment, undo records per transaction
MonNow == [attachments |-> Cardinality(DOMAIN att),
           work |-> att,
           undo |-> [t \in DOMAIN tx |-> Cardinality(DOMAIN tx[t].own)]]
MonOf(t) == IF tx[t].mon = Nothing THEN MonNow ELSE tx[t].mon
All == [kind |-> "attachments"]                \* the viewer may see every attachment
Self == [kind |-> "own"]                       \* the viewer sees its own only
Work(a) == [kind |-> "work", of |-> a]
Undo(t) == [kind |-> "undo", of |-> t]
MonValue(m, what) ==
  CASE what.kind = "attachments" -> m.attachments
    [] what.kind = "own" -> 1
    [] what.kind = "work" -> m.work[what.of]
    [] what.kind = "undo" -> m.undo[what.of]

QueryMon ==
  /\ Goes("mon") /\ Advance
  /\ tx' = [tx EXCEPT ![Op.t].mon = MonOf(Op.t)]
  /\ seen' = With(seen, Op.label, MonValue(MonOf(Op.t), Op.what))
  /\ UNCHANGED <<db, att, leaked>>

\* A prepare, a query or a blob call whose result no property looks at
OtherCall ==
  /\ Goes("call") /\ Advance
  /\ UNCHANGED <<server, seen>>

NoteIt ==
  /\ At("note") /\ Advance
  /\ seen' = With(seen, Op.label, 1)
  /\ UNCHANGED server

EnterBlock ==
  /\ At("block")
  /\ code' = Op.body \o <<Op.end>> \o Tail(code)
  /\ UNCHANGED <<prog, status, faulted, raced, server, seen>>

LeaveBlock ==
  /\ At("end") /\ Advance
  /\ Without(Op.frees)
  /\ UNCHANGED <<db, seen>>

\* An exception: run the destructors up to the innermost handler entered,
\* or up to the catch of main, which reports and returns 1; lost are handles
\* the failing call itself has used up
Catching(c) == {k \in DOMAIN c : c[k].op = "end" /\ c[k].catches}
Handled(c) == LET k == Min(Catching(c)) IN c[k].handler \o SubSeq(c, k + 1, Len(c))
Unwound(c) ==
  UNION {c[j].frees : j \in {j \in DOMAIN c : c[j].op = "end" /\ j <= Min(Catching(c))}}

Throw(lost) ==
  \/ /\ Catching(code) = {}
     /\ status' = "failed" /\ code' = <<>>
     /\ Without(DOMAIN att)
  \/ /\ Catching(code) # {}
     /\ code' = Handled(code)
     /\ Without(lost \cup Unwound(code))
     /\ UNCHANGED status

Refuse ==
  /\ status = "running" /\ code # <<>> /\ Refused(Op)
  /\ Throw({})
  /\ UNCHANGED <<prog, db, seen, faulted, raced>>

Exit ==
  /\ status = "running" /\ code = <<>>
  /\ status' = "ok"
  /\ Without(DOMAIN att)
  /\ UNCHANGED <<prog, code, db, seen, faulted, raced>>

-----------------------------------------------------------------------------
(* What goes wrong: a call fails, its answer is lost, the process is killed *)

Silent == {"note", "block", "end", "if", "raise"}

Fault ==
  /\ status = "running" /\ code # <<>> /\ Op.op \notin Silent
  /\ Throw({})
  /\ faulted' = TRUE
  /\ UNCHANGED <<prog, db, seen, raced>>

\* The commit took effect and the error is about its answer; it is the last the
\* program hears of the transaction, also of one that was to be retained
CommitAnswerLost ==
  /\ Goes("commit") \/ Goes("retain")
  /\ Throw({Op.t})
  /\ db' = [db EXCEPT !.val = Over(tx[Op.t].own, @)]
  /\ faulted' = TRUE
  /\ UNCHANGED <<prog, seen, raced>>

\* The server rolls back what the process had open
Kill ==
  /\ status = "running"
  /\ status' = "killed" /\ code' = <<>>
  /\ Without(DOMAIN att)
  /\ UNCHANGED <<prog, db, seen, faulted, raced>>

\* Another program on the same path creates the file
OtherCreates ==
  /\ ~db.there
  /\ raced' = TRUE
  /\ db' = [db EXCEPT !.there = TRUE]
  /\ UNCHANGED <<prog, status, code, att, tx, leaked, seen, faulted>>

StartRun ==
  /\ status # "running"
  /\ status' = "running" /\ code' = prog.body
  /\ seen' = Nothing /\ faulted' = FALSE /\ raced' = FALSE
  /\ UNCHANGED <<prog, server>>

Init ==
  /\ prog \in Programs
  /\ status = "idle" /\ code = <<>>
  /\ db = [there |-> FALSE, val |-> [i \in prog.items |-> 0]]
  /\ att = Nothing /\ tx = Nothing /\ leaked = {} /\ seen = Nothing
  /\ faulted = FALSE /\ raced = FALSE

Proceed ==
  \/ AttachDb \/ MakeDb \/ AttachOtherDb \/ DetachDb \/ DropDb \/ TestAttached
  \/ StartTx \/ CommitTx \/ CommitRetainingTx \/ RollbackTx
  \/ ExecDdl \/ ExecPut \/ ExecAlone \/ QueryItem \/ PrepareColumn \/ QueryMon
  \/ OtherCall \/ NoteIt \/ EnterBlock \/ LeaveBlock \/ Refuse \/ Exit

Disturb == Fault \/ CommitAnswerLost \/ Kill \/ OtherCreates

Next == Proceed \/ Disturb \/ StartRun

\* A running process keeps executing; nothing makes it fail, die or run again
Spec == Init /\ [][Next]_vars /\ WF_vars(Proceed)

-----------------------------------------------------------------------------
(* Properties *)

TypeOK ==
  /\ status \in {"idle", "running", "ok", "failed", "killed"}
  /\ faulted \in BOOLEAN /\ raced \in BOOLEAN /\ db.there \in BOOLEAN
  /\ db.val \in [prog.items -> Nat]
  /\ \A a \in DOMAIN att : att[a] \in Nat
  /\ \A t \in DOMAIN tx : /\ tx[t].on \in DOMAIN att
                          /\ DOMAIN tx[t].own \subseteq prog.items
                          /\ tx[t].snap \in [prog.items -> Nat]

\* "Idempotent - safe to re-run" (psql.cpp, plans.cpp, request_lifecycle.cpp and
\* the "idempotent cleanup" of the others): whatever the earlier runs left
\* behind, wherever they failed or were killed, a run in which no call fails
\* for a reason of its own exits 0, unless another program created the file
\* under it: that race costs one run and never the next.
Rerunnable == status = "failed" => faulted \/ raced

\* A run that exits 0 and in which no call failed has shown exactly what the
\* sample prints that it shows, on the first run and on every later one.
ClaimsHold == status = "ok" /\ ~faulted => seen = prog.claims

\* main never returns 0 over uncommitted work that the detach then throws away,
\* not even after an error it has caught.
NoLostWork ==
  status = "running" /\ code = <<>> =>
    \A t \in DOMAIN tx : tx[t].own = Nothing

\* What the sample says it has removed again (the temporary user and role of
\* security, the shadow of ha) is gone whenever the process exits 0.
CleansUp == status = "ok" => \A i \in prog.gone : db.val[i] = 0

\* The state keeps its types, and exit 0 leaves nothing undone: no work that the
\* detach throws away, nothing that was to be removed.
ScriptsInv == TypeOK /\ NoLostWork /\ CleansUp

\* Every run ends: the process never waits for a row lock that one of its own
\* transactions holds, with or without a handle of it.
RunsEnd == status = "running" ~> status # "running"
=============================================================================
