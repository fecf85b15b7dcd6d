---------------------------- MODULE MCDiscipline ----------------------------
(* Outlines of the twenty programs, computed from their code. *)
EXTENDS MCSamples, Discipline

Depth == 3     \* blocks within blocks of the programs' code
Rounds == 90   \* calls on the longest way through a program

Ops(c) == {c[i] : i \in DOMAIN c}

(* What a piece of code names: the transactions of its calls, the flags it sets. *)
Names(c) ==
  LET within[k \in 0..Depth] ==
        IF k = 0 THEN Ops(c)
        ELSE within[k - 1]
             \cup UNION {Ops(o.then) \cup Ops(o.else) : o \in within[k - 1]}
      all == within[Depth]
  IN  {o.tx : o \in {o \in all : o.op \in TxCalls \cup {"start", "reserve"}}}
      \cup {o.att : o \in {o \in all : o.op = "set"}}

Share(P) == [th \in Threads |-> IF th = "main" THEN {} ELSE Names(StartCode(P, th))]

(* With the places that can be come to from the places there are. *)
Grown(P, O) ==
  IF O.whole THEN O ELSE
  LET steps(th) == {p \in O.at[th] : p.code # <<>>}
      spawns(th) == {p \in steps("main") :
                       Head(p.code).op = "spawn" /\ Head(p.code).att = th}
      at == [th \in Threads |-> O.at[th]
                                \cup UNION {After(P, O, th, p) : p \in steps(th)}
                                \cup {Begins(P, O, p) : p \in spawns(th)}]
  IN  [O EXCEPT !.at = at, !.whole = (at = O.at)]

OutlineOf(P) ==
  LET first == [share |-> Share(P), whole |-> FALSE,
                at |-> [th \in Threads |->
                          IF th = "main"
                          THEN {Place(StartCode(P, th), {}, {}, {"main"}, {})} ELSE {}]]
      after[k \in 0..Rounds] == IF k = 0 THEN first ELSE Grown(P, after[k - 1])
  IN  after[Rounds]

Outlines == [n \in DOMAIN MCPrograms |-> OutlineOf(MCPrograms[n])]
MCOutline == Outlines
=============================================================================
