----------------------------- MODULE Discipline -----------------------------
(***************************************************************************)
(* Why no thread of a sample uses a transaction after its end: a rule that *)
(* can be checked of a program thread by thread, without interleaving them *)
(* and without the engine.  Main lends a thread the transactions and flags *)
(* that thread's code names when it spawns it, and has them back when it   *)
(* has joined it; in between, either side keeps to its own.                *)
(*                                                                         *)
(* An outline of a program lists the places a thread may come to, each     *)
(* with what the thread then knows of the things it owns.  It is a proof,  *)
(* not part of the program: MCDiscipline computes one for each program,    *)
(* and SamplesProofs shows that a program with an outline is safe whatever *)
(* the engine answers and however many connections break.                  *)
(***************************************************************************)
EXTENDS Samples

CONSTANT Outline   \* [program -> [share : [thread -> what it is lent],
                   \*              at : [thread -> its places]]]

-----------------------------------------------------------------------------
(* Places.  open and set: the open transactions and the true flags among those
   the thread owns; born and joined: main's knowledge of the other threads. *)

Place(c, open, set, young, old) ==
  [code |-> c, open |-> open, set |-> set, born |-> young, joined |-> old]

StartCode(P, th) == IF th \in DOMAIN P.threads THEN P.threads[th] ELSE <<>>

Lent(O, p) == UNION {O.share[k] : k \in p.born \ p.joined}
Owns(O, th, p, x) == IF th = "main" THEN x \notin Lent(O, p) ELSE x \in O.share[th]

(* What the code goes on with when its first call succeeds, and when it fails. *)
Onward(c) == Head(c).then \o Tail(c)
Thrown(P, th, c) ==
  IF Head(c).caught THEN Head(c).else \o Tail(c)
  ELSE IF th = "main" THEN Append(P.unwind, ExitOp) ELSE <<>>

CanFail(P, o) ==
  \/ o.op \in TxCalls \cup {"attach", "start", "reserve", "await", "raise"}
  \/ o.op = "join" /\ P.stray = "rethrow"

(* A call that may be made at place p: on a transaction that is the thread's
   own and open, on flags that are its own, and spawn and join by main only,
   once for each thread. *)
Allowed(O, th, p) ==
  LET o == Head(p.code) IN
  /\ o.op \in TxCalls => o.tx \in Tx /\ Owns(O, th, p, o.tx) /\ o.tx \in p.open
  /\ o.op \in {"start", "reserve"} =>
       o.tx \in Tx /\ Owns(O, th, p, o.tx) /\ o.mode \in LockModes
  /\ o.op \in {"set", "unless"} => o.att \in Flags /\ Owns(O, th, p, o.att)
  /\ o.op = "read" => o.row \in Row
  /\ o.op = "spawn" => th = "main" /\ o.att \in Threads \ p.born
  /\ o.op = "join" => th = "main" /\ o.att \in p.born \ ({"main"} \cup p.joined)

(* What a successful call makes of the thread's knowledge: one place, or for a
   join one for each place the other thread can end at. *)
Done(P, O, p, c) ==
  LET o == Head(p.code) IN
  CASE o.op \in {"start", "reserve"} ->
         {Place(c, p.open \cup {o.tx}, p.set, p.born, p.joined)}
    [] o.op \in {"commit", "rollback"} ->
         {Place(c, p.open \ {o.tx}, p.set, p.born, p.joined)}
    [] o.op = "set" -> {Place(c, p.open, p.set \cup {o.att}, p.born, p.joined)}
    [] o.op = "spawn" ->
         {Place(c, p.open \ O.share[o.att], p.set \ O.share[o.att],
                p.born \cup {o.att}, p.joined)}
    [] o.op = "join" ->
         {Place(c, p.open \cup q.open, p.set \cup q.set, p.born, p.joined \cup {o.att}) :
            q \in {q \in O.at[o.att] : q.code = <<>>}}
    [] OTHER -> {Place(c, p.open, p.set, p.born, p.joined)}

After(P, O, th, p) ==
  LET o == Head(p.code)
      failed == Thrown(P, th, p.code)
  IN  (CASE o.op \in {"raise", "exit"} -> {}
         [] o.op = "unless" /\ o.att \in p.set -> Done(P, O, p, Tail(p.code))
         [] OTHER -> Done(P, O, p, Onward(p.code)))
      \cup
      (IF ~CanFail(P, o) THEN {}
       ELSE IF o.op = "join" THEN Done(P, O, p, failed)
       ELSE {Place(failed, p.open, p.set, p.born, p.joined)})

(* Where a thread begins that main spawns at place p. *)
Begins(P, O, p) ==
  LET k == Head(p.code).att
  IN  Place(StartCode(P, k), p.open \cap O.share[k], p.set \cap O.share[k], {}, {})

Supports(P, O) ==
  /\ O.share["main"] = {}
  /\ \A a, b \in Threads : a # b => O.share[a] \cap O.share[b] = {}
  /\ Place(StartCode(P, "main"), {}, {}, {"main"}, {}) \in O.at["main"]
  /\ \A th \in Threads : \A p \in O.at[th] :
       p.code # <<>> =>
         /\ Allowed(O, th, p)
         /\ After(P, O, th, p) \subseteq O.at[th]
         /\ Head(p.code).op = "spawn" => Begins(P, O, p) \in O.at[Head(p.code).att]

(* Every program keeps to the rule: no thread's code names a transaction that
   may be ended, never started, or in the hands of another thread by then,
   whichever of its own calls fail. *)
Disciplined == \A n \in DOMAIN Programs : Supports(Programs[n], Outline[n])

-----------------------------------------------------------------------------
(* Where the threads are in a state. *)

Spot(th) ==
  LET young == IF th = "main" THEN born ELSE {}
      old   == IF th = "main" THEN joined ELSE {}
      p     == Place(code[th], {}, {}, young, old)
  IN  Place(code[th],
            {t \in Tx : handle[t] = "open" /\ Owns(Outline[prog], th, p, t)},
            {f \in flags : Owns(Outline[prog], th, p, f)}, young, old)

(* Every running thread is at a place of its outline: its own view of its
   transactions and flags is never wrong, in any interleaving. *)
InOutline ==
  /\ \A th \in born \ joined : Spot(th) \in Outline[prog].at[th]
  /\ \A th \in Threads \ born : code[th] = StartCode(Prog, th)
  /\ \A th \in joined : code[th] = <<>>

(* The programs keep to the rule, and the rule does what it is for: each thread
   is where its outline says, and about to use open transactions only
   (the probes, the releaser and the crossed updates of lock_manager). *)
DisciplineInv == Disciplined /\ InOutline /\ SamplesInv
=============================================================================
