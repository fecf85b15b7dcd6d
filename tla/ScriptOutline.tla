--------------------------- MODULE ScriptOutline ---------------------------
(***************************************************************************)
(* Why a script that exits 0 leaves nothing undone: a rule that can be     *)
(* checked of its code alone.  An outline of a script lists the places its *)
(* process may come to, each with what matters of the server there: which  *)
(* attachments and transactions are open, what each transaction has done,  *)
(* and which of the objects the script promises to remove are there.       *)
(* Otherwise it is left open whether a call succeeds: what earlier runs    *)
(* left in the database, snapshots, dependencies and values read are not   *)
(* looked at.  MCScriptOutline computes an outline for each script, and    *)
(* ScriptProofs shows what follows from having one.                        *)
(***************************************************************************)
EXTENDS Scripts

CONSTANT Outline   \* [Programs -> sets of places]

-----------------------------------------------------------------------------
(* Places.  work: what each open transaction has done and on which attachment;
   left: the objects to be removed that the committed database has. *)

Place(c, open, work, left) == [code |-> c, open |-> open, work |-> work, left |-> left]

Shut(c, open, work, left, names) ==
  Place(c, open \ names,
        [t \in {t \in DOMAIN work \ names : work[t].on \notin names} |-> work[t]], left)

LeftBy(P, f, left) == {i \in P.gone : IF i \in DOMAIN f THEN f[i] # 0 ELSE i \in left}

Doing(on, own) == [on |-> on, own |-> own]

(* A call on a transaction or an attachment that is not there is refused, and
   so is DDL on what another transaction has changed and not committed. *)
CanSucceed(p) ==
  LET o == Head(p.code) IN
  /\ o.op # "raise"
  /\ o.op \in {"detach", "dropdb", "start"} => o.a \in p.open
  /\ o.op \in InTx => o.t \in DOMAIN p.work
  /\ o.op = "ddl" /\ o.how # "late" =>
       \A u \in DOMAIN p.work \ {o.t} : o.i \notin DOMAIN p.work[u].own

Succeeded(P, p) ==
  LET o == Head(p.code)
      c == Tail(p.code)
      done(w) == Place(c, p.open, w, p.left)
      own == p.work[o.t].own
  IN
  CASE o.op \in {"attach", "make", "other"} -> Place(c, p.open \cup {o.a}, p.work, p.left)
    [] o.op = "detach"   -> Shut(c, p.open, p.work, p.left, {o.a})
    [] o.op = "dropdb"   -> Shut(c, p.open, p.work, {}, {o.a})
    [] o.op = "end"      -> Shut(c, p.open, p.work, p.left, o.frees)
    [] o.op = "if"       -> Place((IF o.a \in p.open THEN o.body ELSE <<>>) \o c,
                                  p.open, p.work, p.left)
    [] o.op = "block"    -> Place(o.body \o <<o.end>> \o c, p.open, p.work, p.left)
    [] o.op = "start"    -> done(With(p.work, o.t, Doing(o.a, Nothing)))
    [] o.op = "ddl"      -> done([p.work EXCEPT ![o.t] = Doing(@.on, Defined(P, o, own))])
    [] o.op = "put"      -> done([p.work EXCEPT ![o.t] = Doing(@.on, Over(o.f, own))])
    [] o.op = "rollback" -> done([t \in DOMAIN p.work \ {o.t} |-> p.work[t]])
    [] o.op = "commit"   -> Place(c, p.open, [t \in DOMAIN p.work \ {o.t} |-> p.work[t]],
                                  LeftBy(P, own, p.left))
    [] o.op = "retain"   -> Place(c, p.open, [p.work EXCEPT ![o.t] = Doing(@.on, Nothing)],
                                  LeftBy(P, own, p.left))
    [] o.op = "alone"    -> Place(c, p.open, p.work, LeftBy(P, o.f, p.left))
    [] OTHER             -> done(p.work)

(* Where a call that fails leads to, if anything catches the error; a commit
   may have been done all the same. *)
Failed(P, p) ==
  LET o == Head(p.code)
      lands(left, lost) == Shut(Handled(p.code), p.open, p.work, left, lost \cup Unwound(p.code))
  IN
  IF o.op \in {"note", "block", "end", "if"} \/ Catching(p.code) = {} THEN {}
  ELSE {lands(p.left, {})}
       \cup (IF o.op \notin {"commit", "retain"} \/ ~CanSucceed(p) THEN {}
             ELSE {lands(LeftBy(P, p.work[o.t].own, p.left), {o.t})})

(* The code names only items of its program, and gives them natural values. *)
NamesItems(P, o) ==
  /\ o.op = "ddl" => o.i \in P.items /\ o.to \in Nat
  /\ o.op \in {"put", "alone"} => /\ DOMAIN o.f \subseteq P.items
                                  /\ \A i \in DOMAIN o.f : o.f[i] \in Nat

(* At the end nothing is uncommitted, and what was to be removed is gone. *)
Settled(p) == p.left = {} /\ \A t \in DOMAIN p.work : p.work[t].own = Nothing

Supports(P, S) ==
  /\ P.gone \subseteq P.items /\ DOMAIN P.within \subseteq P.items
  /\ \A left \in SUBSET P.gone : Place(P.body, {}, Nothing, left) \in S
  /\ \A p \in S :
       IF p.code = <<>> THEN Settled(p)
       ELSE /\ NamesItems(P, Head(p.code))
            /\ CanSucceed(p) => Succeeded(P, p) \in S
            /\ Failed(P, p) \subseteq S

(* Every script has an outline: from whatever an earlier run left of the
   objects to be removed, and whichever calls fail, it returns 0 only with its
   work committed and those objects gone. *)
Outlined == \A P \in Programs : Supports(P, Outline[P])

-----------------------------------------------------------------------------
(* Where the process is in a state. *)

Spot == Place(code, DOMAIN att, [t \in DOMAIN tx |-> Doing(tx[t].on, tx[t].own)],
              {i \in prog.gone : db.val[i] # 0})

(* A running process is at a place of the outline, and one that has ended, in
   whichever way, has nothing open. *)
InOutline == IF status = "running" THEN Spot \in Outline[prog] ELSE DOMAIN att = {}

(* The scripts have outlines, and the outlines are right: from what any earlier
   run left behind, through caught errors and destructors, no process comes to
   a place at which it could return 0 with something undone. *)
OutlineInv == Outlined /\ InOutline /\ ScriptsInv
=============================================================================
