-------------------------- MODULE MCScriptOutline --------------------------
(* Outlines of the 44 scripts, computed from their code. *)
EXTENDS MCScripts, ScriptOutline

Rounds == 12    \* Rounds^2: at least the calls on the longest way through a script

(* The places there are, and the ones that are new among them. *)
Grown(P, O) ==
  IF O.new = {} THEN O ELSE
  LET steps == {p \in O.new : p.code # <<>>}
      found == {Succeeded(P, p) : p \in {p \in steps : CanSucceed(p)}}
               \cup UNION {Failed(P, p) : p \in steps}
  IN  [all |-> O.all \cup found, new |-> found \ O.all]

(* In two levels, which keeps TLC's stack low. *)
GrownMore(P, O) ==
  IF O.new = {} THEN O ELSE
  LET after[k \in 0..Rounds] == IF k = 0 THEN O ELSE Grown(P, after[k - 1])
  IN  after[Rounds]

OutlineOf(P) ==
  LET first == {Place(P.body, {}, Nothing, left) : left \in SUBSET P.gone}
      after[k \in 0..Rounds] ==
        IF k = 0 THEN [all |-> first, new |-> first] ELSE GrownMore(P, after[k - 1])
  IN  after[Rounds].all

Outlines == [P \in AllPrograms |-> OutlineOf(P)]
MCOutline == Outlines
=============================================================================
