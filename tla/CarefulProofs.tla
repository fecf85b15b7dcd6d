--------------------------- MODULE CarefulProofs ---------------------------
(***************************************************************************)
(* Proofs about CarefulWrites: for any of the nine programs, any sizes and *)
(* any number of polls, batches and failing calls, and wherever SIGKILL    *)
(* strikes.                                                                *)
(***************************************************************************)
EXTENDS CarefulWrites, TLAPS

-----------------------------------------------------------------------------
(* What the nine programs have in common *)

Early == Creates \cup {"open", "drop"}
GoBefore == <<"recreate", "table">>
Cut(t) == Len(t.writer) - 2      \* the step that commits the marker

\* Preparations, then marker, announcement and rows, in this order; the table
\* is made once, by the parent or by the writer's step ahead of the marker.
TwinOK(t) ==
  /\ t.engine \in {"embedded", "server"} /\ t.watch \in {"size", "output"}
  /\ t.watch = "size" => t.polls \in 1..(2 * Polls) /\ t.before # <<>>
  /\ t.before \in {<<>>, <<"unlink">>, GoBefore}
  /\ Len(t.writer) \in 4..6
  /\ \A k \in 1..(Len(t.writer) - 3) :
       /\ t.writer[k] \in Early \cup {"table"}
       /\ t.writer[k] = "table" => k + 1 = Len(t.writer) - 2
       /\ t.before = GoBefore => t.writer[k] = "open"
  /\ t.writer[Len(t.writer) - 2] = "marker"
  /\ t.writer[Len(t.writer) - 1] = "say"
  /\ t.writer[Len(t.writer)] = "bulk"
  /\ t.engine = "server" /\ t.watch = "size" => t.before = GoBefore

LEMMA ConstLemma ==
  /\ Created \in Nat /\ Created > 0 /\ Growth \in Nat /\ Polls \in Nat /\ Polls > 0
  /\ MaxRows \in Nat /\ MaxRows > 0 /\ Meta \in Nat /\ MaxFaults \in Nat
  /\ Growth > 2 * Meta
  /\ MaxSize \in Nat /\ MaxSize > Created + 2 * Meta + Growth
  BY CarefulAssumption DEF MaxSize

LEMMA TwinLemma == \A t \in Twins : TwinOK(t)
<1> USE ConstLemma DEF TwinOK, Writer, Early, Creates, GoBefore
<1>1. TwinOK(CppCarefulWrites)
  BY DEF CppCarefulWrites
<1>2. TwinOK(FbCppCarefulWrites)
  BY DEF FbCppCarefulWrites
<1>3. TwinOK(FpcCarefulWrites)
  BY DEF FpcCarefulWrites
<1>4. TwinOK(PythonCarefulWrites)
  BY DEF PythonCarefulWrites
<1>5. TwinOK(RustCarefulWrites)
  BY DEF RustCarefulWrites
<1>6. TwinOK(JavaCarefulWrites)
  BY DEF JavaCarefulWrites
<1>7. TwinOK(CSharpCarefulWrites)
  BY DEF CSharpCarefulWrites
<1>8. TwinOK(GoCarefulWrites)
  BY DEF GoCarefulWrites
<1>9. TwinOK(JsCarefulWrites)
  BY DEF JsCarefulWrites
<1> HIDE DEF TwinOK
<1> QED
  BY <1>1, <1>2, <1>3, <1>4, <1>5, <1>6, <1>7, <1>8, <1>9, TwinsAssumption DEF AllTwins

-----------------------------------------------------------------------------
(* The inductive invariant *)

MarkerSafe ==
  /\ "marker" \in tip /\ "marker" \in pages /\ "marker" \in mine
  /\ call.op \in {"none", "bulk"}

\* Where the writer is, and the call that goes with it
WriterInv ==
  /\ wpc <= Len(twin.writer)
  /\ Alive /\ call # Idle => call.op = twin.writer[wpc]
  /\ call # Idle => \E k \in 1..Len(twin.writer) : call.op = twin.writer[k]
  /\ call.in = "tip" => call.op \in {"table", "marker"} /\ call.op \in pages
  /\ wpc = NoChild => call = Idle /\ rows = 0 /\ mine = {} /\ pipe = <<>>
  /\ Alive => ppc \in {"watch", "kill"}
  /\ ppc = "prepare" => wpc = NoChild

\* Past its commit the marker is in the file, committed, and by this run
MarkerInv == wpc > Cut(twin) \/ call.op = "bulk" \/ rows > 0 => MarkerSafe
AckInv == acked => wpc # NoChild /\ MarkerSafe

\* What this run has committed at each step
MineInv ==
  /\ Alive /\ twin.writer[wpc] \in Early \cup {"table"} => mine = {}
  /\ call.op \in Early \cup {"table"} => mine = {}
  /\ Alive /\ twin.writer[wpc] = "marker" => "marker" \notin mine
  /\ call.op = "marker" => "marker" \notin mine

\* No transaction commits the rows; the parent reads of rows that exist
RowsInv ==
  /\ "bulk" \notin tip
  /\ \A i \in 1..Len(pipe) : pipe[i] <= rows
  /\ twin.watch = "output" /\ ppc \in {"kill", "attach", "marker", "bulk"} => rows > 0

\* Without uncommitted rows the file grows by two small transactions at most
Growing == Alive \/ call # Idle \/ ppc = "prepare"
SizeInv ==
  /\ rows = 0 => size <= Created + 2 * Meta
  /\ Growing /\ "marker" \notin mine /\ ~(call.op = "marker" /\ call.in = "tip") =>
       size <= Created + Meta
  /\ Growing /\ mine = {} /\ call.in # "tip" /\ twin.before # GoBefore => size <= Created
  /\ ppc = "prepare" /\ todo # <<>> => size <= Created

\* The parent that creates the database itself never sees a smaller file
BaseInv ==
  twin.engine = "server" /\ twin.watch = "size" =>
    /\ ppc \notin {"prepare", "error"} => size >= Created
    /\ ppc = "prepare" /\ todo # twin.before => size >= Created
    /\ base # -1 => base >= Created

\* The parent's own progress
ParentInv ==
  /\ ppc = "prepare" => \/ todo = twin.before
                        \/ todo = <<>>
                        \/ todo = <<"table">> /\ twin.before = GoBefore
  /\ twin.watch = "size" /\ ppc \in {"prepare", "watch"} => polls < twin.polls
  /\ ppc \in {"prepare", "watch", "kill", "attach", "marker"} => counts.marker = -1
  /\ ppc = "bulk" => counts.marker # -1
  /\ ppc = "ok" /\ twin.watch = "size" => counts.marker # -1 /\ counts.bulk # -1
  /\ counts.bulk \in {-1, 0}

\* Once the file is made anew, a marker in it is this run's
Renewed == ppc # "error" /\ ~(ppc = "prepare" /\ todo = twin.before)
Fresh == "marker" \in tip /\ twin.watch = "size" /\ Renewed => "marker" \in mine
FreshInv == stale \/ Fresh

CarefulIInv ==
  /\ TypeOK /\ WriterInv /\ MarkerInv /\ AckInv /\ MineInv /\ RowsInv /\ SizeInv /\ BaseInv
  /\ ParentInv /\ FreshInv /\ VerdictIsFresh /\ AnnouncedMarkerSurvives /\ KillMidInsert

\* Step k of the writer of t
Place(t, k) ==
  /\ Cut(t) \in 2..4 /\ Len(t.writer) = Cut(t) + 2
  /\ \/ /\ k < Cut(t) /\ t.writer[k] \in Early \cup {"table"}
        /\ t.writer[k] = "table" => k + 1 = Cut(t)
        /\ t.before = GoBefore => t.writer[k] = "open"
     \/ k = Cut(t) /\ t.writer[k] = "marker"
     \/ k = Cut(t) + 1 /\ t.writer[k] = "say"
     \/ k = Cut(t) + 2 /\ t.writer[k] = "bulk"

LEMMA PlaceLemma ==
  ASSUME NEW t, TwinOK(t)
  PROVE  /\ Cut(t) \in 2..4 /\ Len(t.writer) = Cut(t) + 2
         /\ \A k \in 1..Len(t.writer) : Place(t, k)
<1>1. Cut(t) \in 2..4 /\ Len(t.writer) = Cut(t) + 2
  BY DEF TwinOK, Cut
<1>2. ASSUME NEW k \in 1..Len(t.writer) PROVE Place(t, k)
  <2>1. CASE k \in 1..(Len(t.writer) - 3)
    BY <1>1, <2>1 DEF TwinOK, Place
  <2>2. CASE k = Len(t.writer) - 2
    BY <1>1, <2>2 DEF TwinOK, Place
  <2>3. CASE k = Len(t.writer) - 1
    BY <1>1, <2>3 DEF TwinOK, Place
  <2>4. CASE k = Len(t.writer)
    BY <1>1, <2>4 DEF TwinOK, Place
  <2>5. k \in Int /\ k >= 1 /\ k <= Cut(t) + 2 /\ Cut(t) \in Int
    BY <1>1
  <2>6. k \in 1..(Cut(t) - 1) \/ k = Cut(t) \/ k = Cut(t) + 1 \/ k = Cut(t) + 2
    BY <2>5
  <2>7. /\ Len(t.writer) - 3 = Cut(t) - 1 /\ Len(t.writer) - 2 = Cut(t)
        /\ Len(t.writer) - 1 = Cut(t) + 1
    BY <1>1
  <2> QED
    BY <1>1, <2>1, <2>2, <2>3, <2>4, <2>6, <2>7
<1> QED
  BY <1>1, <1>2

\* The step the writer is at, and the step of a call
LEMMA WriterPlace ==
  ASSUME CarefulIInv
  PROVE  /\ Cut(twin) \in 2..4 /\ Len(twin.writer) = Cut(twin) + 2 /\ wpc \in Dead..6
         /\ wpc > 0 => wpc \in 1..Len(twin.writer) /\ Place(twin, wpc)
         /\ call # Idle => \E k \in 1..Len(twin.writer) : call.op = twin.writer[k] /\ Place(twin, k)
         /\ wpc > 0 /\ call # Idle => call.op = twin.writer[wpc]
<1>1. TwinOK(twin)
  BY TwinLemma DEF CarefulIInv, TypeOK
<1>2. /\ Cut(twin) \in 2..4 /\ Len(twin.writer) = Cut(twin) + 2
      /\ \A k \in 1..Len(twin.writer) : Place(twin, k)
  BY <1>1, PlaceLemma
<1>3. wpc \in Dead..6 /\ wpc <= Len(twin.writer)
  BY DEF CarefulIInv, TypeOK, WriterInv
<1>4. wpc > 0 => wpc \in 1..Len(twin.writer)
  BY <1>2, <1>3 DEF Dead
<1> QED
  BY <1>2, <1>3, <1>4 DEF CarefulIInv, WriterInv, Alive, NoChild

LEMMA AppendLemma ==
  ASSUME NEW N \in Nat, NEW s \in Seq(0..N), NEW x \in 0..N, NEW n \in Nat, NEW m \in Nat,
         n <= m, x <= m, \A i \in 1..Len(s) : s[i] <= n
  PROVE  /\ Append(s, x) \in Seq(0..N)
         /\ \A i \in 1..Len(Append(s, x)) : Append(s, x)[i] <= m
<1> DEFINE q == Append(s, x)
<1>1. /\ q \in Seq(0..N) /\ Len(q) = Len(s) + 1 /\ Len(s) \in Nat
      /\ \A i \in 1..Len(s) : q[i] = s[i] /\ s[i] \in 0..N
      /\ q[Len(s) + 1] = x
  OBVIOUS
<1> HIDE DEF q
<1>2. ASSUME NEW i \in 1..Len(q) PROVE q[i] <= m
  <2>1. CASE i \in 1..Len(s)
    <3>1. q[i] = s[i] /\ s[i] \in Nat /\ s[i] <= n
      BY <1>1, <2>1
    <3> QED
      BY <3>1
  <2>2. CASE i = Len(s) + 1
    BY <1>1, <2>2
  <2>3. i \in Int /\ 1 <= i /\ i <= Len(s) + 1
    BY <1>1
  <2> QED
    BY <1>1, <2>1, <2>2, <2>3
<1> QED
  BY <1>1, <1>2 DEF q

LEMMA HeadTail ==
  /\ {<<>>, <<"unlink">>, <<"table">>, GoBefore} \subseteq Seq({"unlink", "recreate", "table"})
  /\ Head(<<"unlink">>) = "unlink" /\ Tail(<<"unlink">>) = <<>>
  /\ Head(GoBefore) = "recreate" /\ Tail(GoBefore) = <<"table">>
  /\ Head(<<"table">>) = "table" /\ Tail(<<"table">>) = <<>>
  /\ <<"unlink">> # <<>> /\ <<"table">> # <<>> /\ GoBefore # <<>>
  /\ GoBefore # <<"table">> /\ GoBefore # <<"unlink">> /\ <<"unlink">> # <<"table">>
  BY DEF GoBefore

LEMMA InitLemma == Init => CarefulIInv
<1> SUFFICES ASSUME Init PROVE CarefulIInv
  OBVIOUS
<1> USE ConstLemma
<1>1. TwinOK(twin) /\ twin \in Twins
  BY TwinLemma DEF Init
<1>2. FlagsOK /\ AckInv /\ AnnouncedMarkerSurvives /\ KillMidInsert /\ FreshInv
  BY DEF Init, FlagsOK, AckInv, AnnouncedMarkerSurvives, KillMidInsert, FreshInv, Fresh, Renewed
<1>3. TypeOK
  <2>1. todo \in Seq({"unlink", "recreate", "table"})
    BY <1>1, HeadTail DEF Init, TwinOK
  <2> QED
    BY <1>1, <1>2, <2>1 DEF Init, TypeOK, Idle, NoChild, Dead
<1>4. WriterInv /\ MarkerInv /\ MineInv /\ RowsInv
  <2>1. /\ wpc = 0 /\ call = Idle /\ Idle.op = "none" /\ Idle.in = "-" /\ rows = 0 /\ mine = {}
        /\ pipe = <<>> /\ ppc = "prepare" /\ "bulk" \notin tip /\ Len(twin.writer) \in 4..6
    BY <1>1 DEF Init, Idle, NoChild, TwinOK
  <2>2. Cut(twin) \in 2..4 /\ Len(twin.writer) = Cut(twin) + 2
    BY <1>1, PlaceLemma
  <2>3. WriterInv /\ MineInv /\ RowsInv
    BY <2>1 DEF WriterInv, MineInv, RowsInv, NoChild, Alive, Early, Creates
  <2>4. MarkerInv
    BY <2>1, <2>2 DEF MarkerInv
  <2> QED
    BY <2>3, <2>4
<1>5. SizeInv /\ BaseInv
  BY <1>1 DEF Init, SizeInv, BaseInv, Growing
<1>6. ParentInv /\ VerdictIsFresh
  BY <1>1 DEF Init, ParentInv, TwinOK, VerdictIsFresh
<1> QED
  BY <1>2, <1>3, <1>4, <1>5, <1>6 DEF CarefulIInv

-----------------------------------------------------------------------------
(* Each step preserves it *)

LEMMA WriterCallsLemma ==
  ASSUME CarefulIInv, WriterCalls
  PROVE  CarefulIInv'
<1> USE ConstLemma DEF CarefulIInv
<1>1. TwinOK(twin) /\ twin \in Twins /\ FlagsOK
  BY TwinLemma DEF TypeOK
<1>2. /\ wpc > 0
      /\ call = Idle
      /\ twin.writer[wpc] \in Calls
      /\ call' = [op |-> twin.writer[wpc], in |-> "data"]
      /\ UNCHANGED <<twin, size, pages, tip, mine, wpc, rows, acked, pipe, ppc, todo, base,
                     polls, grew, bulkAtKill, killed, counts, stale, faults>>
  BY <1>1 DEF WriterCalls, WriterStep, Alive, NoChild, file, parent, watch
<1>3. /\ Cut(twin) \in 2..4 /\ Len(twin.writer) = Cut(twin) + 2 /\ wpc \in Dead..6
      /\ wpc > 0 => wpc \in 1..Len(twin.writer) /\ Place(twin, wpc)
      /\ call # Idle => \E k \in 1..Len(twin.writer) : call.op = twin.writer[k] /\ Place(twin, k)
      /\ wpc > 0 /\ call # Idle => call.op = twin.writer[wpc]
  BY WriterPlace
<1>4. UNCHANGED <<acked, grew, bulkAtKill, stale>>
  BY <1>2
<1>5. wpc \in 1..Len(twin.writer) /\ twin.writer[wpc] \in Early \cup {"table", "marker", "bulk"}
      /\ (twin.writer[wpc] = "bulk" => wpc > Cut(twin))
  BY <1>1, <1>2, <1>3, SMTT(30) DEF Place, Calls, Early, Creates
<1>6. call'.op = twin.writer[wpc] /\ call'.in = "data" /\ Idle.op = "none"
  BY <1>2 DEF Idle
<1>7. MarkerSafe => MarkerSafe'
  BY <1>2, <1>5, <1>6 DEF MarkerSafe, MineInv, Alive, NoChild
<1>8. wpc # NoChild => wpc' # NoChild
  BY <1>2 DEF NoChild
<1>9. Fresh => Fresh'
  BY <1>2 DEF Fresh, Renewed
<1>10. call' \in [op : Calls, in : {"data", "tip"}] \cup {Idle}
  BY <1>2 DEF TypeOK
<1>11. FlagsOK'
  BY <1>1, <1>2, <1>4 DEF FlagsOK
<1>12. TypeOK'
  BY <1>2, <1>11, <1>10 DEF TypeOK
<1>13. WriterInv'
  BY <1>1, <1>2, <1>5, <1>6 DEF WriterInv, Alive, Idle, NoChild, Dead
<1>14. MarkerInv'
  BY <1>2, <1>5, <1>6, <1>7 DEF MarkerInv, MarkerSafe, Early, Creates
<1>15. AckInv'
  BY <1>4, <1>7, <1>8, Zenon DEF AckInv
<1>16. MineInv'
  BY <1>1, <1>2, <1>5, <1>6 DEF MineInv, Alive, Idle, NoChild, Dead
<1>17. SizeInv'
  BY <1>1, <1>2, <1>5, <1>6 DEF SizeInv, Growing, Alive, Idle, NoChild, Dead
<1>18. FreshInv'
  BY <1>4, <1>9, Zenon DEF FreshInv
<1>19. RowsInv' /\ BaseInv' /\ ParentInv'
  BY <1>2 DEF RowsInv, BaseInv, ParentInv
<1>20. VerdictIsFresh' /\ AnnouncedMarkerSurvives' /\ KillMidInsert'
  BY <1>2, <1>4 DEF VerdictIsFresh, AnnouncedMarkerSurvives, KillMidInsert
<1> QED
  BY <1>11, <1>12, <1>13, <1>14, <1>15, <1>16, <1>17, <1>18, <1>19, <1>20

LEMMA WriterSaysLemma ==
  ASSUME CarefulIInv, WriterSays
  PROVE  CarefulIInv'
<1> USE ConstLemma DEF CarefulIInv
<1>1. TwinOK(twin) /\ twin \in Twins /\ FlagsOK
  BY TwinLemma DEF TypeOK
<1>2. /\ wpc > 0
      /\ call = Idle
      /\ twin.writer[wpc] = "say"
      /\ acked' = TRUE
      /\ wpc' = wpc + 1
      /\ pipe' = IF twin.watch = "output" THEN Append(pipe, 0) ELSE pipe
      /\ UNCHANGED <<twin, size, pages, tip, mine, call, rows, ppc, todo, base, polls, grew,
                     bulkAtKill, killed, counts, stale, faults>>
  BY <1>1 DEF WriterSays, WriterStep, Alive, NoChild, file, parent, watch
<1>3. /\ Cut(twin) \in 2..4 /\ Len(twin.writer) = Cut(twin) + 2 /\ wpc \in Dead..6
      /\ wpc > 0 => wpc \in 1..Len(twin.writer) /\ Place(twin, wpc)
      /\ call # Idle => \E k \in 1..Len(twin.writer) : call.op = twin.writer[k] /\ Place(twin, k)
      /\ wpc > 0 /\ call # Idle => call.op = twin.writer[wpc]
  BY WriterPlace
<1>4. \A k \in 1..Len(twin.writer) : Place(twin, k)
  BY <1>1, PlaceLemma
<1>5. UNCHANGED <<grew, bulkAtKill, stale>>
  BY <1>2
<1>6. wpc = Cut(twin) + 1 /\ Len(twin.writer) = wpc + 1 /\ wpc \in 1..5
  BY <1>1, <1>2, <1>3 DEF Place, Early, Creates
<1>7. MarkerSafe' /\ wpc' # NoChild
  BY <1>2, <1>3, <1>6, SMTT(30) DEF MarkerInv, MarkerSafe, NoChild
<1>8. counts'.marker = -1
  BY <1>2 DEF WriterInv, ParentInv, Alive, NoChild
<1>9. Fresh => Fresh'
  BY <1>2 DEF Fresh, Renewed
<1>10. wpc' \in Dead..6 /\ pipe' \in Seq(0..MaxRows)
  <2>1. pipe \in Seq(0..MaxRows) /\ Append(pipe, 0) \in Seq(0..MaxRows)
    BY DEF TypeOK
  <2>2. pipe' = pipe \/ pipe' = Append(pipe, 0)
    BY <1>2
  <2>3. wpc' \in Dead..6
    BY <1>2, <1>6 DEF Dead
  <2> QED
    BY <2>1, <2>2, <2>3
<1>11. FlagsOK'
  BY <1>1, <1>2, <1>5 DEF FlagsOK
<1>12. TypeOK'
  BY <1>2, <1>11, <1>10 DEF TypeOK
<1>13. WriterInv'
  BY <1>2, <1>6 DEF WriterInv, Alive, NoChild, Idle
<1>14. MarkerInv'
  BY <1>1, <1>2, <1>6, <1>7, <1>8 DEF MarkerInv, MarkerSafe, Idle, NoChild, Dead
<1>15. AckInv'
  BY <1>7, Zenon DEF AckInv
<1>16. MineInv'
  <2>1. Place(twin, wpc') /\ wpc' = Cut(twin) + 2
    BY <1>2, <1>6, <1>3, <1>4
  <2>2. twin.writer[wpc'] = "bulk"
    BY <2>1, <1>3 DEF Place
  <2> QED
    BY <1>2, <2>2 DEF MineInv, Alive, NoChild, Early, Creates, Idle
<1>17. RowsInv'
  <2>1. pipe \in Seq(0..MaxRows) /\ rows \in Nat /\ \A i \in 1..Len(pipe) : pipe[i] <= rows
    BY DEF RowsInv, TypeOK
  <2>2. \A i \in 1..Len(Append(pipe, 0)) : Append(pipe, 0)[i] <= rows
    BY <2>1, AppendLemma
  <2> QED
    BY <1>2, <2>1, <2>2 DEF RowsInv
<1>18. SizeInv'
  BY <1>1, <1>2, <1>6, <1>7, <1>8 DEF SizeInv, Growing, Alive, Idle, NoChild, Dead
<1>19. FreshInv'
  BY <1>5, <1>9, Zenon DEF FreshInv
<1>20. AnnouncedMarkerSurvives'
  BY <1>8 DEF AnnouncedMarkerSurvives
<1>21. BaseInv' /\ ParentInv'
  BY <1>2 DEF BaseInv, ParentInv
<1>22. VerdictIsFresh' /\ KillMidInsert'
  BY <1>2, <1>5 DEF VerdictIsFresh, KillMidInsert
<1> QED
  BY <1>11, <1>12, <1>13, <1>14, <1>15, <1>16, <1>17, <1>18, <1>19, <1>20, <1>21, <1>22

LEMMA WriterFailsLemma ==
  ASSUME CarefulIInv, WriterFails
  PROVE  CarefulIInv'
<1> USE ConstLemma DEF CarefulIInv
<1>1. TwinOK(twin) /\ twin \in Twins /\ FlagsOK
  BY TwinLemma DEF TypeOK
<1>2. /\ wpc > 0
      /\ call.in = "data"
      /\ faults < MaxFaults
      /\ faults' = faults + 1
      /\ call' = Idle
      /\ wpc' = IF call.op = "drop" THEN wpc + 1 ELSE -1
      /\ UNCHANGED <<twin, size, pages, tip, mine, rows, acked, pipe, ppc, todo, base, polls,
                     grew, bulkAtKill, killed, counts, stale>>
  BY <1>1 DEF WriterFails, Doing, Alive, NoChild, Dead, file, parent, watch
<1>3. /\ Cut(twin) \in 2..4 /\ Len(twin.writer) = Cut(twin) + 2 /\ wpc \in Dead..6
      /\ wpc > 0 => wpc \in 1..Len(twin.writer) /\ Place(twin, wpc)
      /\ call # Idle => \E k \in 1..Len(twin.writer) : call.op = twin.writer[k] /\ Place(twin, k)
      /\ wpc > 0 /\ call # Idle => call.op = twin.writer[wpc]
  BY WriterPlace
<1>4. UNCHANGED <<acked, grew, bulkAtKill, stale>>
  BY <1>2
<1>5. call # Idle /\ wpc # 0 /\ Idle.op = "none" /\ Idle.in = "-"
  BY <1>2 DEF WriterInv, NoChild, Idle, Creates
<1>6. call.op = "drop" => /\ wpc \in 1..Len(twin.writer) /\ twin.writer[wpc] = call.op
                            /\ wpc < Cut(twin) /\ Cut(twin) < Len(twin.writer)
  BY <1>1, <1>2, <1>3, <1>5 DEF Place, Dead, Early, Creates
<1>7. wpc' \in Dead..6 /\ wpc' # 0 /\ wpc' <= Len(twin.writer)
      /\ (wpc' > 0 => wpc > 0 /\ (wpc' = wpc + 1 \/ (wpc' = wpc /\ call' = call)))
  BY <1>2, <1>3, <1>5, <1>6 DEF WriterInv, Dead, NoChild
<1>8. MarkerSafe => MarkerSafe'
  BY <1>1, <1>2, <1>5, <1>6, <1>7 DEF MarkerSafe, Idle, NoChild, Dead
<1>9. wpc # NoChild => wpc' # NoChild
  BY <1>7 DEF NoChild
<1>10. Fresh => Fresh'
  BY <1>2 DEF Fresh, Renewed
<1>11. wpc' \in Dead..6 /\ call' \in [op : Calls, in : {"data", "tip"}] \cup {Idle}
      /\ faults' \in 0..MaxFaults
  BY <1>2, <1>5, <1>6, <1>7 DEF TypeOK, MineInv, WriterInv, Early, Creates
<1>12. FlagsOK'
  BY <1>1, <1>2, <1>4 DEF FlagsOK
<1>13. TypeOK'
  BY <1>2, <1>12, <1>11 DEF TypeOK
<1>14. WriterInv'
  BY <1>1, <1>2, <1>5, <1>6, <1>7 DEF WriterInv, TypeOK, Alive, NoChild, Dead
<1>15. MarkerInv'
  BY <1>2, <1>3, <1>5, <1>6, <1>7 DEF MarkerInv, MarkerSafe, Early, Creates, Dead
<1>16. AckInv'
  BY <1>4, <1>8, <1>9, Zenon DEF AckInv
<1>17. MineInv'
  BY <1>1, <1>2, <1>5, <1>6, <1>7, <1>3 DEF MineInv, Alive, NoChild, Dead, Early, Creates, Place
<1>18. SizeInv'
  BY <1>1, <1>2, <1>5, <1>6, <1>7 DEF SizeInv, Growing, Alive, NoChild, Dead, TypeOK, MineInv,
     MarkerInv, MarkerSafe, WriterInv, Early, Creates
<1>19. FreshInv'
  BY <1>4, <1>10, Zenon DEF FreshInv
<1>20. RowsInv' /\ BaseInv' /\ ParentInv'
  BY <1>2 DEF RowsInv, BaseInv, ParentInv
<1>21. VerdictIsFresh' /\ AnnouncedMarkerSurvives' /\ KillMidInsert'
  BY <1>2, <1>4 DEF VerdictIsFresh, AnnouncedMarkerSurvives, KillMidInsert
<1> QED
  BY <1>12, <1>13, <1>14, <1>15, <1>16, <1>17, <1>18, <1>19, <1>20, <1>21

LEMMA EngineAttachesLemma ==
  ASSUME CarefulIInv, EngineAttaches
  PROVE  CarefulIInv'
<1> USE ConstLemma DEF CarefulIInv
<1>1. TwinOK(twin) /\ twin \in Twins /\ FlagsOK
  BY TwinLemma DEF TypeOK
<1>2. /\ call.op \in {"open", "attachOrCreate"}
      /\ call' = Idle
      /\ wpc' = IF wpc > 0 THEN wpc + 1 ELSE wpc
      /\ UNCHANGED <<twin, size, pages, tip, mine, rows, acked, pipe, ppc, todo, base, polls,
                     grew, bulkAtKill, killed, counts, stale, faults>>
  BY <1>1 DEF EngineAttaches, Returns, Doing, Alive, NoChild, file, parent, watch
<1>3. /\ Cut(twin) \in 2..4 /\ Len(twin.writer) = Cut(twin) + 2 /\ wpc \in Dead..6
      /\ wpc > 0 => wpc \in 1..Len(twin.writer) /\ Place(twin, wpc)
      /\ call # Idle => \E k \in 1..Len(twin.writer) : call.op = twin.writer[k] /\ Place(twin, k)
      /\ wpc > 0 /\ call # Idle => call.op = twin.writer[wpc]
  BY WriterPlace
<1>4. UNCHANGED <<acked, grew, bulkAtKill, stale>>
  BY <1>2
<1>5. call # Idle /\ wpc # 0 /\ Idle.op = "none" /\ Idle.in = "-"
  BY <1>2 DEF WriterInv, NoChild, Idle, Creates
<1>6. wpc > 0 => /\ wpc \in 1..Len(twin.writer) /\ twin.writer[wpc] = call.op
                 /\ wpc < Cut(twin) /\ Cut(twin) < Len(twin.writer)
  BY <1>1, <1>2, <1>3, <1>5 DEF Place, Dead, Early, Creates
<1>7. wpc' \in Dead..6 /\ wpc' # 0 /\ wpc' <= Len(twin.writer)
      /\ (wpc' > 0 => wpc > 0 /\ (wpc' = wpc + 1 \/ (wpc' = wpc /\ call' = call)))
  BY <1>2, <1>3, <1>5, <1>6, SMTT(30) DEF WriterInv, Dead, NoChild
<1>8. MarkerSafe => MarkerSafe'
  BY <1>2 DEF MarkerSafe
<1>9. wpc # NoChild => wpc' # NoChild
  BY <1>7 DEF NoChild
<1>10. Fresh => Fresh'
  BY <1>2 DEF Fresh, Renewed
<1>11. wpc' \in Dead..6 /\ call' \in [op : Calls, in : {"data", "tip"}] \cup {Idle}
  BY <1>2, <1>5, <1>6, <1>7 DEF TypeOK, MineInv, WriterInv, Early, Creates
<1>12. FlagsOK'
  BY <1>1, <1>2, <1>4 DEF FlagsOK
<1>13. TypeOK'
  BY <1>2, <1>12, <1>11 DEF TypeOK
<1>14. WriterInv'
  BY <1>1, <1>2, <1>5, <1>6, <1>7 DEF WriterInv, TypeOK, Alive, NoChild, Dead
<1>15. MarkerInv'
  BY <1>2, <1>3, <1>5, <1>6, <1>7 DEF MarkerInv, MarkerSafe, Early, Creates, Dead
<1>16. AckInv'
  BY <1>4, <1>8, <1>9, Zenon DEF AckInv
<1>17. MineInv'
  BY <1>1, <1>2, <1>5, <1>6, <1>7, <1>3 DEF MineInv, Alive, NoChild, Dead, Early, Creates, Place
<1>18. SizeInv'
  BY <1>1, <1>2, <1>5, <1>6, <1>7 DEF SizeInv, Growing, Alive, NoChild, Dead, TypeOK, MineInv,
     MarkerInv, MarkerSafe, WriterInv, Early, Creates
<1>19. FreshInv'
  BY <1>4, <1>10, Zenon DEF FreshInv
<1>20. RowsInv' /\ BaseInv' /\ ParentInv'
  BY <1>2 DEF RowsInv, BaseInv, ParentInv
<1>21. VerdictIsFresh' /\ AnnouncedMarkerSurvives' /\ KillMidInsert'
  BY <1>2, <1>4 DEF VerdictIsFresh, AnnouncedMarkerSurvives, KillMidInsert
<1> QED
  BY <1>12, <1>13, <1>14, <1>15, <1>16, <1>17, <1>18, <1>19, <1>20, <1>21

LEMMA EngineCreatesLemma ==
  ASSUME CarefulIInv, EngineCreates
  PROVE  CarefulIInv'
<1> USE ConstLemma DEF CarefulIInv
<1>1. TwinOK(twin) /\ twin \in Twins /\ FlagsOK
  BY TwinLemma DEF TypeOK
<1>2. /\ call.op \in Creates
      /\ "database" \notin pages
      /\ size' \in (size + 1)..Created
      /\ \/ /\ size' = Created /\ pages' = {"database"} /\ call' = Idle
            /\ wpc' = (IF wpc > 0 THEN wpc + 1 ELSE wpc)
         \/ pages' = pages /\ call' = call /\ wpc' = wpc
      /\ UNCHANGED <<twin, tip, mine, rows, acked, pipe, ppc, todo, base, polls, grew,
                     bulkAtKill, killed, counts, stale, faults>>
  BY <1>1 DEF EngineCreates, Returns, Doing, Alive, NoChild, file, parent, watch
<1>3. /\ Cut(twin) \in 2..4 /\ Len(twin.writer) = Cut(twin) + 2 /\ wpc \in Dead..6
      /\ wpc > 0 => wpc \in 1..Len(twin.writer) /\ Place(twin, wpc)
      /\ call # Idle => \E k \in 1..Len(twin.writer) : call.op = twin.writer[k] /\ Place(twin, k)
      /\ wpc > 0 /\ call # Idle => call.op = twin.writer[wpc]
  BY WriterPlace
<1>4. UNCHANGED <<acked, grew, bulkAtKill, stale>>
  BY <1>2
<1>5. call # Idle /\ wpc # 0 /\ Idle.op = "none" /\ Idle.in = "-"
  BY <1>2 DEF WriterInv, NoChild, Idle, Creates
<1>6. wpc > 0 => /\ wpc \in 1..Len(twin.writer) /\ twin.writer[wpc] = call.op
                 /\ wpc < Cut(twin) /\ Cut(twin) < Len(twin.writer)
  BY <1>1, <1>2, <1>3, <1>5 DEF Place, Dead, Early, Creates
<1>7. wpc' \in Dead..6 /\ wpc' # 0 /\ wpc' <= Len(twin.writer)
      /\ (wpc' > 0 => wpc > 0 /\ (wpc' = wpc + 1 \/ (wpc' = wpc /\ call' = call)))
  BY <1>2, <1>3, <1>5, <1>6, SMTT(30) DEF WriterInv, Dead, NoChild
<1>8. MarkerSafe => MarkerSafe'
  BY <1>1, <1>2, <1>3, <1>5, <1>6, <1>7 DEF MarkerSafe, WriterInv, Idle, NoChild, Dead, Early,
     Creates, Place
<1>9. wpc # NoChild => wpc' # NoChild
  BY <1>7 DEF NoChild
<1>10. Fresh => Fresh'
  BY <1>2 DEF Fresh, Renewed
<1>11. wpc' \in Dead..6 /\ call' \in [op : Calls, in : {"data", "tip"}] \cup {Idle}
      /\ size' \in 0..MaxSize
  BY <1>2, <1>5, <1>6, <1>7 DEF TypeOK, MineInv, WriterInv, Early, Creates
<1>12. FlagsOK'
  BY <1>1, <1>2, <1>4 DEF FlagsOK
<1>13. TypeOK'
  BY <1>2, <1>12, <1>11 DEF TypeOK
<1>14. WriterInv'
  BY <1>1, <1>2, <1>5, <1>6, <1>7 DEF WriterInv, TypeOK, Alive, NoChild, Dead
<1>15. MarkerInv'
  BY <1>2, <1>3, <1>5, <1>6, <1>7 DEF MarkerInv, MarkerSafe, Early, Creates, Dead
<1>16. AckInv'
  BY <1>4, <1>8, <1>9, Zenon DEF AckInv
<1>17. MineInv'
  BY <1>1, <1>2, <1>5, <1>6, <1>7, <1>3 DEF MineInv, Alive, NoChild, Dead, Early, Creates, Place
<1>18. SizeInv'
  BY <1>1, <1>2, <1>5, <1>6, <1>7 DEF SizeInv, Growing, Alive, NoChild, Dead, TypeOK, MineInv,
     MarkerInv, MarkerSafe, WriterInv, Early, Creates
<1>19. BaseInv'
  BY <1>1, <1>2, <1>5, <1>6, <1>7 DEF BaseInv, WriterInv, TypeOK
<1>20. FreshInv'
  BY <1>4, <1>10, Zenon DEF FreshInv
<1>21. RowsInv' /\ ParentInv'
  BY <1>2 DEF RowsInv, ParentInv
<1>22. VerdictIsFresh' /\ AnnouncedMarkerSurvives' /\ KillMidInsert'
  BY <1>2, <1>4 DEF VerdictIsFresh, AnnouncedMarkerSurvives, KillMidInsert
<1> QED
  BY <1>12, <1>13, <1>14, <1>15, <1>16, <1>17, <1>18, <1>19, <1>20, <1>21, <1>22

LEMMA EngineDropsLemma ==
  ASSUME CarefulIInv, EngineDrops
  PROVE  CarefulIInv'
<1> USE ConstLemma DEF CarefulIInv
<1>1. TwinOK(twin) /\ twin \in Twins /\ FlagsOK
  BY TwinLemma DEF TypeOK
<1>2. /\ call.op = "drop"
      /\ pages' = {"database"}
      /\ tip' = {}
      /\ call' = Idle
      /\ wpc' = IF wpc > 0 THEN wpc + 1 ELSE wpc
      /\ UNCHANGED <<twin, size, mine, rows, acked, pipe, ppc, todo, base, polls, grew,
                     bulkAtKill, killed, counts, stale, faults>>
  BY <1>1 DEF EngineDrops, Returns, Doing, Alive, NoChild, file, parent, watch
<1>3. /\ Cut(twin) \in 2..4 /\ Len(twin.writer) = Cut(twin) + 2 /\ wpc \in Dead..6
      /\ wpc > 0 => wpc \in 1..Len(twin.writer) /\ Place(twin, wpc)
      /\ call # Idle => \E k \in 1..Len(twin.writer) : call.op = twin.writer[k] /\ Place(twin, k)
      /\ wpc > 0 /\ call # Idle => call.op = twin.writer[wpc]
  BY WriterPlace
<1>4. UNCHANGED <<acked, grew, bulkAtKill, stale>>
  BY <1>2
<1>5. call # Idle /\ wpc # 0 /\ Idle.op = "none" /\ Idle.in = "-"
  BY <1>2 DEF WriterInv, NoChild, Idle, Creates
<1>6. wpc > 0 => /\ wpc \in 1..Len(twin.writer) /\ twin.writer[wpc] = call.op
                 /\ wpc < Cut(twin) /\ Cut(twin) < Len(twin.writer)
  BY <1>1, <1>2, <1>3, <1>5 DEF Place, Dead, Early, Creates
<1>7. wpc' \in Dead..6 /\ wpc' # 0 /\ wpc' <= Len(twin.writer)
      /\ (wpc' > 0 => wpc > 0 /\ wpc' = wpc + 1)
  <2>1. CASE wpc > 0
    BY <1>2, <2>1, <1>3, <1>6 DEF Dead
  <2>2. CASE ~(wpc > 0)
    BY <1>2, <2>2, <1>3, <1>5 DEF Dead
  <2> QED
    BY <2>1, <2>2
<1>8. MarkerSafe => MarkerSafe'
  BY <1>2 DEF MarkerSafe
<1>9. wpc # NoChild => wpc' # NoChild
  BY <1>7 DEF NoChild
<1>10. Fresh => Fresh'
  BY <1>2 DEF Fresh, Renewed
<1>11. wpc' \in Dead..6 /\ call' \in [op : Calls, in : {"data", "tip"}] \cup {Idle}
      /\ mine = {}
  BY <1>2, <1>5, <1>6, <1>7 DEF TypeOK, MineInv, WriterInv, Early, Creates
<1>12. FlagsOK'
  BY <1>1, <1>2, <1>4 DEF FlagsOK
<1>13. TypeOK'
  BY <1>2, <1>12, <1>11 DEF TypeOK
<1>14. WriterInv'
  BY <1>1, <1>2, <1>5, <1>6, <1>7 DEF WriterInv, TypeOK, Alive, NoChild, Dead
<1>15. MarkerInv'
  BY <1>2, <1>3, <1>5, <1>6, <1>7 DEF MarkerInv, MarkerSafe, Early, Creates, Dead
<1>16. AckInv'
  BY <1>4, <1>8, <1>9, Zenon DEF AckInv
<1>17. MineInv'
  BY <1>1, <1>2, <1>5, <1>6, <1>7, <1>3 DEF MineInv, Alive, NoChild, Dead, Early, Creates, Place
<1>18. SizeInv'
  BY <1>1, <1>2, <1>5, <1>6, <1>7 DEF SizeInv, Growing, Alive, NoChild, Dead, TypeOK, MineInv,
     MarkerInv, MarkerSafe, WriterInv, Early, Creates
<1>19. FreshInv'
  BY <1>4, <1>10, Zenon DEF FreshInv
<1>20. RowsInv' /\ BaseInv' /\ ParentInv'
  BY <1>2 DEF RowsInv, BaseInv, ParentInv
<1>21. VerdictIsFresh' /\ AnnouncedMarkerSurvives' /\ KillMidInsert'
  BY <1>2, <1>4 DEF VerdictIsFresh, AnnouncedMarkerSurvives, KillMidInsert
<1> QED
  BY <1>12, <1>13, <1>14, <1>15, <1>16, <1>17, <1>18, <1>19, <1>20, <1>21

LEMMA EngineRefusesLemma ==
  ASSUME CarefulIInv, EngineRefuses
  PROVE  CarefulIInv'
<1> USE ConstLemma DEF CarefulIInv
<1>1. TwinOK(twin) /\ twin \in Twins /\ FlagsOK
  BY TwinLemma DEF TypeOK
<1>2. /\ wpc > 0
      /\ call.in = "data"
      /\ \/ call.op = "drop" /\ wpc' = wpc + 1
         \/ call.op \in {"create", "table"} /\ wpc' = -1
      /\ call' = Idle
      /\ UNCHANGED <<twin, size, pages, tip, mine, rows, acked, pipe, ppc, todo, base, polls,
                     grew, bulkAtKill, killed, counts, stale, faults>>
  BY <1>1 DEF EngineRefuses, Doing, Alive, NoChild, Dead, file, parent, watch
<1>3. /\ Cut(twin) \in 2..4 /\ Len(twin.writer) = Cut(twin) + 2 /\ wpc \in Dead..6
      /\ wpc > 0 => wpc \in 1..Len(twin.writer) /\ Place(twin, wpc)
      /\ call # Idle => \E k \in 1..Len(twin.writer) : call.op = twin.writer[k] /\ Place(twin, k)
      /\ wpc > 0 /\ call # Idle => call.op = twin.writer[wpc]
  BY WriterPlace
<1>4. UNCHANGED <<acked, grew, bulkAtKill, stale>>
  BY <1>2
<1>5. call # Idle /\ wpc # 0 /\ Idle.op = "none" /\ Idle.in = "-"
  BY <1>2 DEF WriterInv, NoChild, Idle, Creates
<1>6. call.op = "drop" => /\ wpc \in 1..Len(twin.writer) /\ twin.writer[wpc] = call.op
                            /\ wpc < Cut(twin) /\ Cut(twin) < Len(twin.writer)
  BY <1>1, <1>2, <1>3, <1>5 DEF Place, Dead, Early, Creates
<1>7. wpc' \in Dead..6 /\ wpc' # 0 /\ wpc' <= Len(twin.writer)
      /\ (wpc' > 0 => wpc > 0 /\ (wpc' = wpc + 1 \/ (wpc' = wpc /\ call' = call)))
  BY <1>2, <1>3, <1>5, <1>6 DEF WriterInv, Dead, NoChild
<1>8. MarkerSafe => MarkerSafe'
  BY <1>2 DEF MarkerSafe
<1>9. wpc # NoChild => wpc' # NoChild
  BY <1>7 DEF NoChild
<1>10. Fresh => Fresh'
  BY <1>2 DEF Fresh, Renewed
<1>11. wpc' \in Dead..6 /\ call' \in [op : Calls, in : {"data", "tip"}] \cup {Idle}
  BY <1>2, <1>5, <1>6, <1>7 DEF TypeOK, MineInv, WriterInv, Early, Creates
<1>12. FlagsOK'
  BY <1>1, <1>2, <1>4 DEF FlagsOK
<1>13. TypeOK'
  BY <1>2, <1>12, <1>11 DEF TypeOK
<1>14. WriterInv'
  BY <1>1, <1>2, <1>5, <1>6, <1>7 DEF WriterInv, TypeOK, Alive, NoChild, Dead
<1>15. MarkerInv'
  BY <1>2, <1>3, <1>5, <1>6, <1>7 DEF MarkerInv, MarkerSafe, Early, Creates, Dead
<1>16. AckInv'
  BY <1>4, <1>8, <1>9, Zenon DEF AckInv
<1>17. MineInv'
  BY <1>1, <1>2, <1>5, <1>6, <1>7, <1>3 DEF MineInv, Alive, NoChild, Dead, Early, Creates, Place
<1>18. SizeInv'
  BY <1>1, <1>2, <1>5, <1>6, <1>7 DEF SizeInv, Growing, Alive, NoChild, Dead, TypeOK, MineInv,
     MarkerInv, MarkerSafe, WriterInv, Early, Creates
<1>19. FreshInv'
  BY <1>4, <1>10, Zenon DEF FreshInv
<1>20. RowsInv' /\ BaseInv' /\ ParentInv'
  BY <1>2 DEF RowsInv, BaseInv, ParentInv
<1>21. VerdictIsFresh' /\ AnnouncedMarkerSurvives' /\ KillMidInsert'
  BY <1>2, <1>4 DEF VerdictIsFresh, AnnouncedMarkerSurvives, KillMidInsert
<1> QED
  BY <1>12, <1>13, <1>14, <1>15, <1>16, <1>17, <1>18, <1>19, <1>20, <1>21

LEMMA EngineFlushesDataLemma ==
  ASSUME CarefulIInv, EngineFlushesData
  PROVE  CarefulIInv'
<1> USE ConstLemma DEF CarefulIInv
<1>1. TwinOK(twin) /\ twin \in Twins /\ FlagsOK
  BY TwinLemma DEF TypeOK
<1>2. /\ call.op \in {"table", "marker"}
      /\ call.in = "data"
      /\ pages' = pages \cup {call.op}
      /\ size' \in size..(size + Meta)
      /\ call'.op = call.op /\ call'.in = "tip" /\ call' # Idle
      /\ call' \in [op : Calls, in : {"data", "tip"}]
      /\ UNCHANGED <<twin, tip, mine, wpc, rows, acked, pipe, ppc, todo, base, polls, grew,
                     bulkAtKill, killed, counts, stale, faults>>
  <2>0. call # Idle
    BY DEF EngineFlushesData, Idle
  <2>1. call \in [op : Calls, in : {"data", "tip"}]
    BY <2>0 DEF TypeOK
  <2>2. call' = [call EXCEPT !.in = "tip"]
    BY DEF EngineFlushesData
  <2>3. call'.op = call.op /\ call'.in = "tip" /\ call' \in [op : Calls, in : {"data", "tip"}]
    BY <2>1, <2>2
  <2>4. call' # Idle
    BY <2>3 DEF Idle
  <2> QED
    BY <2>3, <2>4 DEF EngineFlushesData, file, parent, watch
<1>3. /\ Cut(twin) \in 2..4 /\ Len(twin.writer) = Cut(twin) + 2 /\ wpc \in Dead..6
      /\ wpc > 0 => wpc \in 1..Len(twin.writer) /\ Place(twin, wpc)
      /\ call # Idle => \E k \in 1..Len(twin.writer) : call.op = twin.writer[k] /\ Place(twin, k)
      /\ wpc > 0 /\ call # Idle => call.op = twin.writer[wpc]
  BY WriterPlace
<1>4. UNCHANGED <<acked, grew, bulkAtKill, stale>>
  BY <1>2
<1>5. call # Idle /\ wpc # 0 /\ Idle.op = "none" /\ Idle.in = "-"
  BY <1>2 DEF WriterInv, NoChild, Idle, Creates
<1>6. call.op = "table" => twin.before # GoBefore
  BY <1>1, <1>2, <1>3, <1>5 DEF WriterInv, Place, Early, Creates
<1>7. size \in Nat /\ rows = 0 /\ size <= Created + Meta /\ (call.op = "table" => size <= Created)
  BY <1>2, <1>5, <1>6, SMTT(30) DEF SizeInv, Growing, MineInv, MarkerInv, MarkerSafe, TypeOK
<1>8. MarkerSafe => MarkerSafe'
  BY <1>2 DEF MarkerSafe
<1>9. wpc # NoChild => wpc' # NoChild
  BY <1>2 DEF NoChild
<1>10. Fresh => Fresh'
  BY <1>2 DEF Fresh, Renewed
<1>11. size' \in 0..MaxSize
  BY <1>2, <1>7 DEF TypeOK
<1>12. FlagsOK'
  BY <1>1, <1>2, <1>4 DEF FlagsOK
<1>13. TypeOK'
  BY <1>2, <1>12, <1>11 DEF TypeOK
<1>14. WriterInv'
  BY <1>1, <1>2, <1>5, <1>6, <1>7 DEF WriterInv, Alive, Idle, NoChild, Dead
<1>15. AckInv'
  BY <1>4, <1>8, <1>9, Zenon DEF AckInv
<1>16. SizeInv'
  BY <1>2, <1>5, <1>7 DEF SizeInv, WriterInv, NoChild
<1>17. BaseInv'
  BY <1>1, <1>2, <1>5, <1>6, <1>7 DEF BaseInv, Idle, NoChild, Dead
<1>18. FreshInv'
  BY <1>4, <1>10, Zenon DEF FreshInv
<1>19. MarkerInv' /\ MineInv' /\ RowsInv' /\ ParentInv'
  BY <1>2 DEF MarkerInv, MarkerSafe, MineInv, Alive, RowsInv, ParentInv
<1>20. VerdictIsFresh' /\ AnnouncedMarkerSurvives' /\ KillMidInsert'
  BY <1>2, <1>4 DEF VerdictIsFresh, AnnouncedMarkerSurvives, KillMidInsert
<1> QED
  BY <1>12, <1>13, <1>14, <1>15, <1>16, <1>17, <1>18, <1>19, <1>20

LEMMA EngineCommitsLemma ==
  ASSUME CarefulIInv, EngineCommits
  PROVE  CarefulIInv'
<1> USE ConstLemma DEF CarefulIInv
<1>1. TwinOK(twin) /\ twin \in Twins /\ FlagsOK
  BY TwinLemma DEF TypeOK
<1>2. /\ call.in = "tip"
      /\ tip' = tip \cup {call.op}
      /\ mine' = mine \cup {call.op}
      /\ call' = Idle
      /\ wpc' = IF wpc > 0 THEN wpc + 1 ELSE wpc
      /\ UNCHANGED <<twin, size, pages, rows, acked, pipe, ppc, todo, base, polls, grew,
                     bulkAtKill, killed, counts, stale, faults>>
  BY <1>1 DEF EngineCommits, Returns, Alive, NoChild, file, parent, watch
<1>3. /\ Cut(twin) \in 2..4 /\ Len(twin.writer) = Cut(twin) + 2 /\ wpc \in Dead..6
      /\ wpc > 0 => wpc \in 1..Len(twin.writer) /\ Place(twin, wpc)
      /\ call # Idle => \E k \in 1..Len(twin.writer) : call.op = twin.writer[k] /\ Place(twin, k)
      /\ wpc > 0 /\ call # Idle => call.op = twin.writer[wpc]
  BY WriterPlace
<1>4. \A k \in 1..Len(twin.writer) : Place(twin, k)
  BY <1>1, PlaceLemma
<1>5. UNCHANGED <<acked, grew, bulkAtKill, stale>>
  BY <1>2
<1>6. call # Idle /\ wpc # 0 /\ Idle.op = "none" /\ Idle.in = "-"
  BY <1>2 DEF WriterInv, NoChild, Idle, Creates
<1>7. wpc > 0 => /\ wpc \in 1..Len(twin.writer) /\ twin.writer[wpc] = call.op
                 /\ wpc <= Cut(twin) /\ Cut(twin) < Len(twin.writer)
                 /\ (call.op = "table" => wpc + 1 = Cut(twin))
                 /\ (call.op = "marker" <=> wpc = Cut(twin))
  BY <1>2, <1>3, <1>6, SMTT(30) DEF WriterInv, Place, Dead, Early, Creates
<1>8. wpc' \in Dead..6 /\ wpc' # 0 /\ wpc' <= Len(twin.writer)
      /\ (wpc' > 0 => wpc > 0 /\ (wpc' = wpc + 1 \/ (wpc' = wpc /\ call' = call)))
  BY <1>2, <1>3, <1>6, <1>7 DEF WriterInv, Dead, NoChild
<1>9. MarkerSafe => MarkerSafe'
  BY <1>1, <1>2, <1>6, <1>7, <1>8 DEF MarkerSafe, Idle, NoChild, Dead
<1>10. wpc # NoChild => wpc' # NoChild
  BY <1>8 DEF NoChild
<1>11. Fresh => Fresh'
  BY <1>2 DEF Fresh, Renewed
<1>12. wpc' \in Dead..6 /\ call' \in [op : Calls, in : {"data", "tip"}] \cup {Idle}
      /\ tip' \subseteq {"table", "marker", "bulk"}
  BY <1>2, <1>6, <1>7, <1>8 DEF TypeOK, MineInv, WriterInv, Early, Creates
<1>13. FlagsOK'
  BY <1>1, <1>2, <1>5 DEF FlagsOK
<1>14. TypeOK'
  BY <1>2, <1>13, <1>12 DEF TypeOK
<1>15. WriterInv'
  BY <1>1, <1>2, <1>6, <1>7, <1>8 DEF WriterInv, TypeOK, Alive, NoChild, Dead
<1>16. MarkerInv'
  BY <1>2, <1>3, <1>6, <1>7, <1>8 DEF MarkerInv, MarkerSafe, Early, Creates, Dead, WriterInv
<1>17. AckInv'
  BY <1>5, <1>9, <1>10, Zenon DEF AckInv
<1>18. MineInv'
  <2>1. call.op \in {"table", "marker"}
    BY <1>2 DEF WriterInv
  <2>2. wpc' > 0 => /\ wpc' = wpc + 1 /\ wpc' \in 1..Len(twin.writer) /\ Place(twin, wpc')
                    /\ IF call.op = "table" THEN wpc' = Cut(twin) ELSE wpc' = Cut(twin) + 1
    BY <1>2, <2>1, <1>4, <1>3, <1>6, <1>7, <1>8 DEF Dead
  <2>3. wpc' > 0 => IF call.op = "table" THEN twin.writer[wpc'] = "marker"
                                         ELSE twin.writer[wpc'] = "say"
    BY <2>1, <2>2, <1>3 DEF Place
  <2> QED
    BY <1>2, <2>1, <2>2, <2>3, <1>6 DEF MineInv, Alive, NoChild, Early, Creates
<1>19. RowsInv'
  BY <1>2, <1>6, <1>7, <1>8 DEF RowsInv, WriterInv, Idle, NoChild, Dead
<1>20. SizeInv'
  BY <1>1, <1>2, <1>6, <1>7, <1>8 DEF SizeInv, Growing, Alive, NoChild, Dead, TypeOK, MineInv,
     MarkerInv, MarkerSafe, WriterInv, Early, Creates
<1>21. FreshInv'
  BY <1>5, <1>11, Zenon DEF FreshInv
<1>22. BaseInv' /\ ParentInv'
  BY <1>2 DEF BaseInv, ParentInv
<1>23. VerdictIsFresh' /\ AnnouncedMarkerSurvives' /\ KillMidInsert'
  BY <1>2, <1>5 DEF VerdictIsFresh, AnnouncedMarkerSurvives, KillMidInsert
<1> QED
  BY <1>13, <1>14, <1>15, <1>16, <1>17, <1>18, <1>19, <1>20, <1>21, <1>22, <1>23

LEMMA EngineInsertsLemma ==
  ASSUME CarefulIInv, EngineInserts
  PROVE  CarefulIInv'
<1> USE ConstLemma DEF CarefulIInv
<1>1. TwinOK(twin) /\ twin \in Twins /\ FlagsOK
  BY TwinLemma DEF TypeOK
<1>2. /\ call.op = "bulk"
      /\ rows < MaxRows
      /\ rows' = rows + 1
      /\ size' \in size..MaxSize
      /\ pages' = pages \/ pages' = pages \cup {"bulk"}
      /\ pipe' = pipe \/ pipe' = Append(pipe, rows + 1)
      /\ UNCHANGED <<twin, tip, mine, call, wpc, acked, ppc, todo, base, polls, grew, bulkAtKill,
                     killed, counts, stale, faults>>
  <2>1. call # Idle
    BY DEF EngineInserts, Idle
  <2>2. call.op = "bulk"
    BY <1>1, <2>1, PlaceLemma DEF EngineInserts, WriterInv, Place, Early, Creates
  <2>3. rows < MaxRows /\ rows' = rows + 1 /\ size' \in size..MaxSize /\ UNCHANGED tip
    BY <2>2 DEF EngineInserts, Doing
  <2>4. pages' = pages \/ pages' = pages \cup {"bulk"}
    BY DEF EngineInserts
  <2>5. pipe' = pipe \/ pipe' = Append(pipe, rows + 1)
    BY DEF EngineInserts
  <2> QED
    BY <2>2, <2>3, <2>4, <2>5 DEF EngineInserts, parent, watch
<1>3. UNCHANGED <<acked, grew, bulkAtKill, stale>>
  BY <1>2
<1>4. call # Idle /\ wpc # NoChild /\ MarkerSafe
  BY <1>2 DEF WriterInv, MarkerInv, Idle
<1>5. MarkerSafe => MarkerSafe'
  BY <1>2 DEF MarkerSafe
<1>6. wpc # NoChild => wpc' # NoChild
  BY <1>2 DEF NoChild
<1>7. Fresh => Fresh'
  BY <1>2 DEF Fresh, Renewed
<1>8. rows' \in 0..MaxRows /\ pipe' \in Seq(0..MaxRows) /\ size' \in 0..MaxSize
  <2>1. rows + 1 \in 0..MaxRows /\ pipe \in Seq(0..MaxRows) /\ size' \in 0..MaxSize
    BY <1>2 DEF TypeOK
  <2>2. Append(pipe, rows + 1) \in Seq(0..MaxRows)
    BY <2>1
  <2> QED
    BY <1>2, <2>1, <2>2
<1>9. FlagsOK'
  BY <1>1, <1>2, <1>3 DEF FlagsOK
<1>10. TypeOK'
  BY <1>2, <1>9, <1>8 DEF TypeOK
<1>11. WriterInv'
  BY <1>1, <1>2, <1>4 DEF WriterInv, Alive, Idle, NoChild, Dead
<1>12. AckInv'
  BY <1>3, <1>5, <1>6, Zenon DEF AckInv
<1>13. RowsInv'
  <2>1. pipe \in Seq(0..MaxRows) /\ rows \in Nat /\ \A i \in 1..Len(pipe) : pipe[i] <= rows
    BY DEF RowsInv, TypeOK
  <2>2. \A i \in 1..Len(Append(pipe, rows + 1)) : Append(pipe, rows + 1)[i] <= rows + 1
    BY <1>2, <2>1, AppendLemma
  <2>3. \A i \in 1..Len(pipe) : pipe[i] <= rows + 1
    <3>1. \A i \in 1..Len(pipe) : pipe[i] \in Nat
      BY <2>1
    <3> QED
      BY <2>1, <3>1
  <2>4. \A i \in 1..Len(pipe') : pipe'[i] <= rows'
    <3>1. CASE pipe' = pipe
      BY <1>2, <2>3, <3>1
    <3>2. CASE pipe' = Append(pipe, rows + 1)
      BY <1>2, <2>2, <3>2
    <3> QED
      BY <1>2, <3>1, <3>2
  <2> QED
    BY <1>2, <2>1, <2>4 DEF RowsInv
<1>14. SizeInv'
  BY <1>2, <1>4 DEF SizeInv, MarkerSafe, WriterInv, TypeOK
<1>15. BaseInv'
  BY <1>1, <1>2, <1>4 DEF BaseInv, WriterInv, TypeOK
<1>16. FreshInv'
  BY <1>3, <1>7, Zenon DEF FreshInv
<1>17. MarkerInv' /\ MineInv' /\ ParentInv'
  BY <1>2 DEF MarkerInv, MarkerSafe, MineInv, Alive, ParentInv
<1>18. VerdictIsFresh' /\ AnnouncedMarkerSurvives' /\ KillMidInsert'
  BY <1>2, <1>3 DEF VerdictIsFresh, AnnouncedMarkerSurvives, KillMidInsert
<1> QED
  BY <1>9, <1>10, <1>11, <1>12, <1>13, <1>14, <1>15, <1>16, <1>17, <1>18

LEMMA ServerCleansUpLemma ==
  ASSUME CarefulIInv, ServerCleansUp
  PROVE  CarefulIInv'
<1> USE ConstLemma DEF CarefulIInv
<1>1. TwinOK(twin) /\ twin \in Twins /\ FlagsOK
  BY TwinLemma DEF TypeOK
<1>2. /\ wpc = -1
      /\ call' = Idle
      /\ UNCHANGED <<twin, size, pages, tip, mine, wpc, rows, acked, pipe, ppc, todo, base,
                     polls, grew, bulkAtKill, killed, counts, stale, faults>>
  BY <1>1 DEF ServerCleansUp, ClientGone, Dead, file, parent, watch
<1>3. /\ Cut(twin) \in 2..4 /\ Len(twin.writer) = Cut(twin) + 2 /\ wpc \in Dead..6
      /\ wpc > 0 => wpc \in 1..Len(twin.writer) /\ Place(twin, wpc)
      /\ call # Idle => \E k \in 1..Len(twin.writer) : call.op = twin.writer[k] /\ Place(twin, k)
      /\ wpc > 0 /\ call # Idle => call.op = twin.writer[wpc]
  BY WriterPlace
<1>4. UNCHANGED <<acked, grew, bulkAtKill, stale>>
  BY <1>2
<1>5. MarkerSafe => MarkerSafe'
  BY <1>1, <1>2 DEF MarkerSafe, Idle, NoChild, Dead
<1>6. wpc # NoChild => wpc' # NoChild
  BY <1>2 DEF NoChild
<1>7. Fresh => Fresh'
  BY <1>2 DEF Fresh, Renewed
<1>8. call' \in [op : Calls, in : {"data", "tip"}] \cup {Idle}
  BY <1>2 DEF TypeOK
<1>9. FlagsOK'
  BY <1>1, <1>2, <1>4 DEF FlagsOK
<1>10. TypeOK'
  BY <1>2, <1>9, <1>8 DEF TypeOK
<1>11. WriterInv'
  BY <1>1, <1>2 DEF WriterInv, Alive, Idle, NoChild, Dead
<1>12. MarkerInv'
  BY <1>1, <1>2 DEF MarkerInv, MarkerSafe, Idle, NoChild, Dead
<1>13. AckInv'
  BY <1>4, <1>5, <1>6, Zenon DEF AckInv
<1>14. MineInv'
  BY <1>1, <1>2, <1>3 DEF MineInv, Alive, WriterInv, Idle, NoChild, Dead, Early, Creates, Place
<1>15. SizeInv'
  BY <1>2 DEF SizeInv, Growing, Alive, WriterInv, Idle, NoChild, Dead
<1>16. FreshInv'
  BY <1>4, <1>7, Zenon DEF FreshInv
<1>17. RowsInv' /\ BaseInv' /\ ParentInv'
  BY <1>2 DEF RowsInv, BaseInv, ParentInv
<1>18. VerdictIsFresh' /\ AnnouncedMarkerSurvives' /\ KillMidInsert'
  BY <1>2, <1>4 DEF VerdictIsFresh, AnnouncedMarkerSurvives, KillMidInsert
<1> QED
  BY <1>9, <1>10, <1>11, <1>12, <1>13, <1>14, <1>15, <1>16, <1>17, <1>18

LEMMA PrepareLemma ==
  ASSUME CarefulIInv, Prepare
  PROVE  CarefulIInv'
<1> USE ConstLemma DEF CarefulIInv
<1>1. TwinOK(twin) /\ twin \in Twins /\ FlagsOK
  BY TwinLemma DEF TypeOK
<1>2. /\ ppc = "prepare"
      /\ todo # <<>>
      /\ todo' = Tail(todo)
      /\ \/ Head(todo) = "unlink" /\ size' = 0 /\ pages' = {} /\ tip' = {}
         \/ Head(todo) = "recreate" /\ size' = Created /\ pages' = {"database"} /\ tip' = {}
         \/ /\ Head(todo) = "table" /\ size' \in size..(size + Meta)
            /\ pages' = pages \cup {"table"} /\ tip' = tip \cup {"table"}
      /\ UNCHANGED <<twin, mine, call, wpc, rows, acked, pipe, ppc, base, polls, grew,
                     bulkAtKill, killed, counts, stale, faults>>
  <2>0. todo \in Seq({"unlink", "recreate", "table"}) /\ todo # <<>>
    BY DEF Prepare, TypeOK
  <2>1. Head(todo) \in {"unlink", "recreate", "table"}
    BY <2>0
  <2>2. CASE Head(todo) = "unlink"
    BY <2>2 DEF Prepare, writer, watch
  <2>3. CASE Head(todo) = "recreate"
    BY <2>3 DEF Prepare, writer, watch
  <2>4. CASE Head(todo) = "table"
    BY <2>4 DEF Prepare, writer, watch
  <2> QED
    BY <2>1, <2>2, <2>3, <2>4
<1>3. /\ Cut(twin) \in 2..4 /\ Len(twin.writer) = Cut(twin) + 2 /\ wpc \in Dead..6
      /\ wpc > 0 => wpc \in 1..Len(twin.writer) /\ Place(twin, wpc)
      /\ call # Idle => \E k \in 1..Len(twin.writer) : call.op = twin.writer[k] /\ Place(twin, k)
      /\ wpc > 0 /\ call # Idle => call.op = twin.writer[wpc]
  BY WriterPlace
<1>4. UNCHANGED <<acked, grew, bulkAtKill, stale>>
  BY <1>2
<1>5. \/ /\ todo = <<"unlink">> /\ twin.before = <<"unlink">> /\ todo' = <<>> /\ size' = 0
            /\ pages' = {} /\ tip' = {}
         \/ /\ todo = GoBefore /\ twin.before = GoBefore /\ todo' = <<"table">> /\ size' = Created
            /\ pages' = {"database"} /\ tip' = {}
         \/ /\ todo = <<"table">> /\ twin.before = GoBefore /\ todo' = <<>>
            /\ size' \in size..(size + Meta)
            /\ pages' = pages \cup {"table"} /\ tip' = tip \cup {"table"}
  BY <1>1, <1>2, HeadTail DEF ParentInv, TwinOK
<1>6. wpc = 0 /\ call = Idle /\ rows = 0 /\ mine = {} /\ size \in Nat /\ size <= Created /\ ~Alive
  BY <1>2 DEF WriterInv, SizeInv, TypeOK, NoChild, Alive
<1>7. MarkerSafe => MarkerSafe'
  BY <1>6 DEF MarkerSafe
<1>8. wpc # NoChild => wpc' # NoChild
  BY <1>2 DEF NoChild
<1>9. Fresh => Fresh'
  BY <1>1, <1>2, <1>5, HeadTail DEF Fresh, Renewed, TwinOK
<1>10. size' \in 0..MaxSize /\ todo' \in Seq({"unlink", "recreate", "table"}) /\ mine = {}
  <2>1. size' \in 0..MaxSize
    BY <1>5, <1>6
  <2>2. todo' \in {<<>>, <<"table">>}
    BY <1>5
  <2> QED
    BY <2>1, <2>2, <1>6, HeadTail
<1>11. FlagsOK'
  BY <1>1, <1>2, <1>4 DEF FlagsOK
<1>12. TypeOK'
  BY <1>2, <1>11, <1>10 DEF TypeOK
<1>13. WriterInv'
  BY <1>2, <1>6 DEF WriterInv, Idle, Alive, NoChild
<1>14. MarkerInv'
  BY <1>1, <1>2, <1>6, <1>3 DEF MarkerInv, Idle, Place
<1>15. AckInv'
  BY <1>4, <1>7, <1>8, Zenon DEF AckInv
<1>16. MineInv'
  BY <1>2, <1>6 DEF MineInv, Idle, Alive, NoChild, Early, Creates
<1>17. SizeInv'
  <2>1. /\ size' <= Created + Meta /\ size' \in Nat
        /\ twin.before # GoBefore \/ todo' # <<>> => size' <= Created
    BY <1>5, <1>6, HeadTail
  <2> QED
    BY <1>2, <2>1, <1>6 DEF SizeInv
<1>18. BaseInv'
  <2>1. ASSUME twin.engine = "server", twin.watch = "size"
        PROVE  size' >= Created
    <3>1. twin.before = GoBefore
      BY <1>1, <2>1 DEF TwinOK
    <3>2. todo = <<"table">> => size >= Created
      BY <1>2, <2>1, <3>1, HeadTail DEF BaseInv
    <3> QED
      BY <3>1, <3>2, <1>5, <1>6, HeadTail
  <2> QED
    BY <1>2, <2>1 DEF BaseInv
<1>19. ParentInv'
  BY <1>1, <1>2, HeadTail, <1>5, <1>6 DEF ParentInv, Idle, NoChild, Dead
<1>20. FreshInv'
  BY <1>4, <1>9, Zenon DEF FreshInv
<1>21. RowsInv'
  BY <1>2 DEF RowsInv
<1>22. VerdictIsFresh' /\ AnnouncedMarkerSurvives' /\ KillMidInsert'
  BY <1>2, <1>4 DEF VerdictIsFresh, AnnouncedMarkerSurvives, KillMidInsert
<1> QED
  BY <1>11, <1>12, <1>13, <1>14, <1>15, <1>16, <1>17, <1>18, <1>19, <1>20, <1>21, <1>22

LEMMA UnlinkFailsLemma ==
  ASSUME CarefulIInv, UnlinkFails
  PROVE  CarefulIInv'
<1> USE ConstLemma DEF CarefulIInv
<1>1. TwinOK(twin) /\ twin \in Twins /\ FlagsOK
  BY TwinLemma DEF TypeOK
<1>2. /\ ppc = "prepare"
      /\ todo # <<>>
      /\ Head(todo) = "unlink"
      /\ faults < MaxFaults
      /\ faults' = faults + 1
      /\ \/ todo' = Tail(todo) /\ stale' = TRUE /\ ppc' = ppc
         \/ ppc' = "error" /\ todo' = todo /\ stale' = stale
      /\ UNCHANGED <<twin, size, pages, tip, mine, call, wpc, rows, acked, pipe, base, polls,
                     grew, bulkAtKill, killed, counts>>
  BY <1>1 DEF UnlinkFails, file, writer, watch
<1>3. UNCHANGED <<acked, grew, bulkAtKill>>
  BY <1>2
<1>4. twin.before = <<"unlink">> /\ todo = <<"unlink">> /\ Tail(todo) = <<>>
  BY <1>1, <1>2, HeadTail DEF ParentInv, TwinOK
<1>5. MarkerSafe => MarkerSafe'
  BY <1>2 DEF MarkerSafe
<1>6. wpc # NoChild => wpc' # NoChild
  BY <1>2 DEF NoChild
<1>7. todo' \in Seq({"unlink", "recreate", "table"}) /\ faults' \in 0..MaxFaults
  <2>1. todo' \in {<<>>, <<"unlink">>} /\ faults' \in 0..MaxFaults
    BY <1>2, <1>4 DEF TypeOK
  <2> QED
    BY <2>1, HeadTail
<1>8. FlagsOK'
  BY <1>1, <1>2, <1>3 DEF FlagsOK
<1>9. TypeOK'
  BY <1>2, <1>8, <1>7 DEF TypeOK
<1>10. AckInv'
  BY <1>3, <1>5, <1>6, Zenon DEF AckInv
<1>11. BaseInv'
  BY <1>1, <1>2, <1>4, HeadTail DEF BaseInv, TwinOK
<1>12. ParentInv'
  BY <1>1, <1>2, HeadTail, <1>4 DEF ParentInv, Idle, NoChild, Dead
<1>13. FreshInv'
  <2>1. CASE stale' = TRUE
    BY <2>1, Zenon DEF FreshInv
  <2>2. CASE ppc' = "error"
    <3>1. Fresh'
      BY <2>2 DEF Fresh, Renewed
    <3> QED
      BY <3>1, Zenon DEF FreshInv
  <2> QED
    BY <1>2, <2>1, <2>2
<1>14. WriterInv' /\ MarkerInv' /\ MineInv' /\ RowsInv' /\ SizeInv'
  BY <1>2 DEF WriterInv, Alive, MarkerInv, MarkerSafe, MineInv, RowsInv, SizeInv, Growing
<1>15. VerdictIsFresh' /\ AnnouncedMarkerSurvives' /\ KillMidInsert'
  BY <1>2, <1>3 DEF VerdictIsFresh, AnnouncedMarkerSurvives, KillMidInsert
<1> QED
  BY <1>8, <1>9, <1>10, <1>11, <1>12, <1>13, <1>14, <1>15

LEMMA SpawnLemma ==
  ASSUME CarefulIInv, Spawn
  PROVE  CarefulIInv'
<1> USE ConstLemma DEF CarefulIInv
<1>1. TwinOK(twin) /\ twin \in Twins /\ FlagsOK
  BY TwinLemma DEF TypeOK
<1>2. /\ ppc = "prepare"
      /\ todo = <<>>
      /\ wpc' = 1
      /\ ppc' = "watch"
      /\ UNCHANGED <<twin, size, pages, tip, mine, call, rows, acked, pipe, todo, base, polls,
                     grew, bulkAtKill, killed, counts, stale, faults>>
  BY <1>1 DEF Spawn, file, watch
<1>3. /\ Cut(twin) \in 2..4 /\ Len(twin.writer) = Cut(twin) + 2 /\ wpc \in Dead..6
      /\ wpc > 0 => wpc \in 1..Len(twin.writer) /\ Place(twin, wpc)
      /\ call # Idle => \E k \in 1..Len(twin.writer) : call.op = twin.writer[k] /\ Place(twin, k)
      /\ wpc > 0 /\ call # Idle => call.op = twin.writer[wpc]
  BY WriterPlace
<1>4. UNCHANGED <<acked, grew, bulkAtKill, stale>>
  BY <1>2
<1>5. MarkerSafe => MarkerSafe'
  BY <1>2 DEF MarkerSafe
<1>6. wpc # NoChild => wpc' # NoChild
  BY <1>2 DEF NoChild
<1>7. Fresh => Fresh'
  BY <1>1, <1>2, <1>3 DEF Fresh, Renewed, TwinOK, WriterInv, TypeOK
<1>8. wpc' \in Dead..6
  BY <1>1, <1>2 DEF TypeOK, Idle, NoChild, Dead
<1>9. FlagsOK'
  BY <1>1, <1>2, <1>4 DEF FlagsOK
<1>10. TypeOK'
  BY <1>2, <1>9, <1>8 DEF TypeOK
<1>11. WriterInv'
  BY <1>1, <1>2, <1>3 DEF WriterInv, Alive, Idle, NoChild, Dead, Early, Creates, Place
<1>12. MarkerInv'
  BY <1>1, <1>2, <1>3 DEF MarkerInv, WriterInv, Idle, Place, NoChild
<1>13. AckInv'
  BY <1>4, <1>5, <1>6, Zenon DEF AckInv
<1>14. MineInv'
  BY <1>2 DEF MineInv, Alive, WriterInv, Idle, NoChild, Dead
<1>15. BaseInv'
  BY <1>1, <1>2, HeadTail DEF BaseInv, TwinOK
<1>16. FreshInv'
  BY <1>4, <1>7, Zenon DEF FreshInv
<1>17. RowsInv' /\ SizeInv' /\ ParentInv'
  BY <1>2 DEF RowsInv, SizeInv, Growing, Alive, ParentInv
<1>18. VerdictIsFresh' /\ AnnouncedMarkerSurvives' /\ KillMidInsert'
  BY <1>2, <1>4 DEF VerdictIsFresh, AnnouncedMarkerSurvives, KillMidInsert
<1> QED
  BY <1>9, <1>10, <1>11, <1>12, <1>13, <1>14, <1>15, <1>16, <1>17, <1>18

LEMMA SpawnFailsLemma ==
  ASSUME CarefulIInv, SpawnFails
  PROVE  CarefulIInv'
<1> USE ConstLemma DEF CarefulIInv
<1>1. TwinOK(twin) /\ twin \in Twins /\ FlagsOK
  BY TwinLemma DEF TypeOK
<1>2. /\ ppc = "prepare"
      /\ todo = <<>>
      /\ faults < MaxFaults
      /\ faults' = faults + 1
      /\ ppc' \in {"watch", "error"}
      /\ UNCHANGED <<twin, size, pages, tip, mine, call, wpc, rows, acked, pipe, todo, base,
                     polls, grew, bulkAtKill, killed, counts, stale>>
  BY <1>1 DEF SpawnFails, file, writer, watch
<1>3. /\ Cut(twin) \in 2..4 /\ Len(twin.writer) = Cut(twin) + 2 /\ wpc \in Dead..6
      /\ wpc > 0 => wpc \in 1..Len(twin.writer) /\ Place(twin, wpc)
      /\ call # Idle => \E k \in 1..Len(twin.writer) : call.op = twin.writer[k] /\ Place(twin, k)
      /\ wpc > 0 /\ call # Idle => call.op = twin.writer[wpc]
  BY WriterPlace
<1>4. UNCHANGED <<acked, grew, bulkAtKill, stale>>
  BY <1>2
<1>5. MarkerSafe => MarkerSafe'
  BY <1>2 DEF MarkerSafe
<1>6. wpc # NoChild => wpc' # NoChild
  BY <1>2 DEF NoChild
<1>7. Fresh => Fresh'
  BY <1>1, <1>2, <1>3 DEF Fresh, Renewed, TwinOK, WriterInv, TypeOK
<1>8. faults' \in 0..MaxFaults
  BY <1>2 DEF TypeOK
<1>9. FlagsOK'
  BY <1>1, <1>2, <1>4 DEF FlagsOK
<1>10. TypeOK'
  BY <1>2, <1>9, <1>8 DEF TypeOK
<1>11. AckInv'
  BY <1>4, <1>5, <1>6, Zenon DEF AckInv
<1>12. BaseInv'
  BY <1>1, <1>2, HeadTail DEF BaseInv, TwinOK
<1>13. FreshInv'
  BY <1>4, <1>7, Zenon DEF FreshInv
<1>14. WriterInv' /\ MarkerInv' /\ MineInv' /\ RowsInv' /\ SizeInv' /\ ParentInv'
  BY <1>2 DEF WriterInv, Alive, MarkerInv, MarkerSafe, MineInv, RowsInv, SizeInv, Growing,
     ParentInv
<1>15. VerdictIsFresh' /\ AnnouncedMarkerSurvives' /\ KillMidInsert'
  BY <1>2, <1>4 DEF VerdictIsFresh, AnnouncedMarkerSurvives, KillMidInsert
<1> QED
  BY <1>9, <1>10, <1>11, <1>12, <1>13, <1>14, <1>15

LEMMA PollLemma ==
  ASSUME CarefulIInv, Poll
  PROVE  CarefulIInv'
<1> USE ConstLemma DEF CarefulIInv
<1>1. TwinOK(twin) /\ twin \in Twins /\ FlagsOK
  BY TwinLemma DEF TypeOK
<1>2. /\ ppc = "watch"
      /\ twin.watch = "size"
      /\ polls' = polls + 1
      /\ base' = IF base < 0 /\ size > 0 THEN size ELSE base
      /\ grew' \in BOOLEAN /\ bulkAtKill' \in BOOLEAN
      /\ grew' <=> (base' > 0 /\ size > base' + Growth)
      /\ bulkAtKill' <=> (grew' /\ rows > 0)
      /\ ppc' \in {"watch", "kill"}
      /\ ppc' = "watch" => polls + 1 # twin.polls
      /\ UNCHANGED <<twin, size, pages, tip, mine, call, wpc, rows, acked, pipe, todo, killed,
                     counts, stale, faults>>
  BY <1>1 DEF Poll, file, writer
<1>3. UNCHANGED <<acked, stale>>
  BY <1>2
<1>4. (base' > 0 /\ size > base' + Growth) /\ (twin.engine = "server" \/ base' >= Created)
        => rows > 0
  <2>1. size \in Nat /\ rows \in Nat /\ base \in Int /\ base >= -1
    BY DEF TypeOK
  <2>2. base' \in Int /\ (twin.engine = "server" => base' >= Created)
    BY <1>2, <2>1 DEF BaseInv
  <2>3. rows = 0 => size <= Created + 2 * Meta
    BY DEF SizeInv
  <2>4. ASSUME NEW b \in Int, b >= Created, size > b + Growth PROVE rows # 0
    BY <2>1, <2>3, <2>4
  <2>5. ASSUME base' > 0 /\ size > base' + Growth, twin.engine = "server" \/ base' >= Created
        PROVE  rows > 0
    <3>1. base' \in Int /\ base' >= Created
      BY <2>2, <2>5
    <3>2. rows # 0
      BY <2>4, <2>5, <3>1
    <3> QED
      BY <2>1, <3>2
  <2> QED
    BY <2>5
<1>5. polls \in Nat /\ twin.polls \in Nat /\ polls < twin.polls /\ twin.polls <= 2 * Polls
  BY <1>1, <1>2 DEF ParentInv, TwinOK, TypeOK
<1>6. MarkerSafe => MarkerSafe'
  BY <1>2 DEF MarkerSafe
<1>7. wpc # NoChild => wpc' # NoChild
  BY <1>2 DEF NoChild
<1>8. Fresh => Fresh'
  BY <1>2 DEF Fresh, Renewed
<1>9. polls' \in 0..(2 * Polls) /\ base' \in -1..MaxSize
  BY <1>2, <1>5 DEF TypeOK
<1>10. FlagsOK'
  BY <1>1, <1>2, <1>3 DEF FlagsOK
<1>11. TypeOK'
  BY <1>2, <1>10, <1>9 DEF TypeOK
<1>12. AckInv'
  BY <1>3, <1>6, <1>7, Zenon DEF AckInv
<1>13. ParentInv'
  BY <1>2, <1>5 DEF ParentInv
<1>14. FreshInv'
  BY <1>3, <1>8, Zenon DEF FreshInv
<1>15. KillMidInsert'
  BY <1>2, <1>4 DEF KillMidInsert
<1>16. WriterInv' /\ MarkerInv' /\ MineInv' /\ RowsInv' /\ SizeInv' /\ BaseInv'
  BY <1>2 DEF WriterInv, Alive, MarkerInv, MarkerSafe, MineInv, RowsInv, SizeInv, Growing, BaseInv
<1>17. VerdictIsFresh' /\ AnnouncedMarkerSurvives'
  BY <1>2, <1>3 DEF VerdictIsFresh, AnnouncedMarkerSurvives
<1> QED
  BY <1>10, <1>11, <1>12, <1>13, <1>14, <1>15, <1>16, <1>17

LEMMA ReadChunkLemma ==
  ASSUME CarefulIInv, ReadChunk
  PROVE  CarefulIInv'
<1> USE ConstLemma DEF CarefulIInv
<1>1. TwinOK(twin) /\ twin \in Twins /\ FlagsOK
  BY TwinLemma DEF TypeOK
<1>2. /\ ppc = "watch"
      /\ twin.watch = "output"
      /\ pipe' = <<>>
      /\ grew' \in BOOLEAN /\ bulkAtKill' \in BOOLEAN
      /\ grew' <=> (2 \in ToSet(pipe))
      /\ bulkAtKill' <=> (grew' /\ rows > 0)
      /\ ppc' \in {"watch", "kill"}
      /\ ppc' = "kill" => 2 \in ToSet(pipe)
      /\ UNCHANGED <<twin, size, pages, tip, mine, call, wpc, rows, acked, todo, base, polls,
                     killed, counts, stale, faults>>
  <2>1. /\ grew' = (2 \in ToSet(pipe)) /\ bulkAtKill' = (grew' /\ rows > 0)
        /\ ppc' = IF grew' THEN "kill" ELSE ppc
    BY DEF ReadChunk
  <2>2. grew' \in BOOLEAN /\ bulkAtKill' \in BOOLEAN
    BY <2>1
  <2>3. (grew' <=> 2 \in ToSet(pipe)) /\ (bulkAtKill' <=> grew' /\ rows > 0)
    BY <2>1, <2>2
  <2>4. ppc = "watch" /\ ppc' \in {"watch", "kill"} /\ (ppc' = "kill" => 2 \in ToSet(pipe))
    BY <2>1, <2>3 DEF ReadChunk
  <2> QED
    BY <2>2, <2>3, <2>4 DEF ReadChunk, file
<1>3. UNCHANGED <<acked, stale>>
  BY <1>2
<1>4. 2 \in ToSet(pipe) => rows > 0
  <2>1. /\ pipe \in Seq(0..MaxRows) /\ DOMAIN pipe = 1..Len(pipe) /\ rows \in Nat
        /\ \A i \in 1..Len(pipe) : pipe[i] <= rows
    BY DEF RowsInv, TypeOK
  <2>2. 2 \in ToSet(pipe) => \E i \in 1..Len(pipe) : pipe[i] = 2
    BY <2>1 DEF ToSet
  <2> QED
    BY <2>1, <2>2
<1>5. MarkerSafe => MarkerSafe'
  BY <1>2 DEF MarkerSafe
<1>6. wpc # NoChild => wpc' # NoChild
  BY <1>2 DEF NoChild
<1>7. Fresh => Fresh'
  BY <1>2 DEF Fresh, Renewed
<1>8. pipe' \in Seq(0..MaxRows)
  BY <1>2 DEF TypeOK
<1>9. FlagsOK'
  BY <1>1, <1>2, <1>3 DEF FlagsOK
<1>10. TypeOK'
  BY <1>2, <1>9, <1>8 DEF TypeOK
<1>11. AckInv'
  BY <1>3, <1>5, <1>6, Zenon DEF AckInv
<1>12. RowsInv'
  BY <1>2, <1>4 DEF RowsInv
<1>13. FreshInv'
  BY <1>3, <1>7, Zenon DEF FreshInv
<1>14. KillMidInsert'
  BY <1>2, <1>4 DEF KillMidInsert
<1>15. WriterInv' /\ MarkerInv' /\ MineInv' /\ SizeInv' /\ BaseInv' /\ ParentInv'
  BY <1>2 DEF WriterInv, Alive, MarkerInv, MarkerSafe, MineInv, SizeInv, Growing, BaseInv,
     ParentInv
<1>16. VerdictIsFresh' /\ AnnouncedMarkerSurvives'
  BY <1>2, <1>3 DEF VerdictIsFresh, AnnouncedMarkerSurvives
<1> QED
  BY <1>9, <1>10, <1>11, <1>12, <1>13, <1>14, <1>15, <1>16

LEMMA OutputEndsLemma ==
  ASSUME CarefulIInv, OutputEnds
  PROVE  CarefulIInv'
<1> USE ConstLemma DEF CarefulIInv
<1>1. TwinOK(twin) /\ twin \in Twins /\ FlagsOK
  BY TwinLemma DEF TypeOK
<1>2. /\ ppc = "watch"
      /\ twin.watch = "output"
      /\ wpc = -1
      /\ ppc' = "ok"
      /\ UNCHANGED <<twin, size, pages, tip, mine, call, wpc, rows, acked, pipe, todo, base,
                     polls, grew, bulkAtKill, killed, counts, stale, faults>>
  BY <1>1 DEF OutputEnds, Dead, file, writer, watch
<1>3. UNCHANGED <<acked, grew, bulkAtKill, stale>>
  BY <1>2
<1>4. MarkerSafe => MarkerSafe'
  BY <1>2 DEF MarkerSafe
<1>5. wpc # NoChild => wpc' # NoChild
  BY <1>2 DEF NoChild
<1>6. Fresh => Fresh'
  BY <1>2 DEF Fresh, Renewed
<1>7. FlagsOK'
  BY <1>1, <1>2, <1>3 DEF FlagsOK
<1>8. TypeOK'
  BY <1>2, <1>7 DEF TypeOK
<1>9. WriterInv'
  BY <1>1, <1>2 DEF WriterInv, Alive, Idle, NoChild, Dead
<1>10. AckInv'
  BY <1>3, <1>4, <1>5, Zenon DEF AckInv
<1>11. FreshInv'
  BY <1>3, <1>6, Zenon DEF FreshInv
<1>12. MarkerInv' /\ MineInv' /\ RowsInv' /\ SizeInv' /\ BaseInv' /\ ParentInv'
  BY <1>2 DEF MarkerInv, MarkerSafe, MineInv, Alive, RowsInv, SizeInv, Growing, BaseInv, ParentInv
<1>13. VerdictIsFresh' /\ AnnouncedMarkerSurvives' /\ KillMidInsert'
  BY <1>2, <1>3 DEF VerdictIsFresh, AnnouncedMarkerSurvives, KillMidInsert
<1> QED
  BY <1>7, <1>8, <1>9, <1>10, <1>11, <1>12, <1>13

LEMMA KillLemma ==
  ASSUME CarefulIInv, Kill
  PROVE  CarefulIInv'
<1> USE ConstLemma DEF CarefulIInv
<1>1. TwinOK(twin) /\ twin \in Twins /\ FlagsOK
  BY TwinLemma DEF TypeOK
<1>2. /\ ppc = "kill"
      /\ killed' \in {"everyone", "writer"}
      /\ wpc' = IF wpc = 0 THEN wpc ELSE -1
      /\ call' = Idle \/ call' = call
      /\ ppc' = "attach"
      /\ UNCHANGED <<twin, size, pages, tip, mine, rows, acked, pipe, todo, base, polls, grew,
                     bulkAtKill, counts, stale, faults>>
  BY <1>1 DEF Kill, NoChild, Dead, file, watch
<1>3. /\ Cut(twin) \in 2..4 /\ Len(twin.writer) = Cut(twin) + 2 /\ wpc \in Dead..6
      /\ wpc > 0 => wpc \in 1..Len(twin.writer) /\ Place(twin, wpc)
      /\ call # Idle => \E k \in 1..Len(twin.writer) : call.op = twin.writer[k] /\ Place(twin, k)
      /\ wpc > 0 /\ call # Idle => call.op = twin.writer[wpc]
  BY WriterPlace
<1>4. UNCHANGED <<acked, grew, bulkAtKill, stale>>
  BY <1>2
<1>5. wpc' <= 0 /\ Idle.op = "none"
  BY <1>2 DEF TypeOK, Idle
<1>6. MarkerSafe => MarkerSafe'
  BY <1>1, <1>2, <1>5 DEF MarkerSafe, Idle, NoChild, Dead
<1>7. wpc # NoChild => wpc' # NoChild
  BY <1>2 DEF NoChild
<1>8. Fresh => Fresh'
  BY <1>2 DEF Fresh, Renewed
<1>9. wpc' \in Dead..6 /\ call' \in [op : Calls, in : {"data", "tip"}] \cup {Idle}
  BY <1>1, <1>2, <1>5 DEF TypeOK, Idle, NoChild, Dead
<1>10. FlagsOK'
  BY <1>1, <1>2, <1>4 DEF FlagsOK
<1>11. TypeOK'
  BY <1>2, <1>10, <1>9 DEF TypeOK
<1>12. WriterInv'
  BY <1>1, <1>2, <1>5 DEF WriterInv, Alive, Idle, NoChild, Dead
<1>13. MarkerInv'
  BY <1>1, <1>2, <1>3, <1>5 DEF MarkerInv, MarkerSafe, WriterInv, Idle, NoChild, Dead, Early,
     Creates, Place
<1>14. AckInv'
  BY <1>4, <1>6, <1>7, Zenon DEF AckInv
<1>15. MineInv'
  BY <1>2, <1>5 DEF MineInv, Alive, NoChild, Early, Creates
<1>16. SizeInv'
  BY <1>1, <1>2, <1>5 DEF SizeInv, Growing, Alive, Idle, NoChild, Dead
<1>17. FreshInv'
  BY <1>4, <1>8, Zenon DEF FreshInv
<1>18. RowsInv' /\ BaseInv' /\ ParentInv'
  BY <1>2 DEF RowsInv, BaseInv, ParentInv
<1>19. VerdictIsFresh' /\ AnnouncedMarkerSurvives' /\ KillMidInsert'
  BY <1>2, <1>4 DEF VerdictIsFresh, AnnouncedMarkerSurvives, KillMidInsert
<1> QED
  BY <1>10, <1>11, <1>12, <1>13, <1>14, <1>15, <1>16, <1>17, <1>18, <1>19

LEMMA ReattachLemma ==
  ASSUME CarefulIInv, Reattach
  PROVE  CarefulIInv'
<1> USE ConstLemma DEF CarefulIInv
<1>1. TwinOK(twin) /\ twin \in Twins /\ FlagsOK
  BY TwinLemma DEF TypeOK
<1>2. /\ ppc = "attach"
      /\ ppc' \in {"marker", "error"}
      /\ UNCHANGED <<twin, size, pages, tip, mine, call, wpc, rows, acked, pipe, todo, base,
                     polls, grew, bulkAtKill, killed, counts, stale, faults>>
  BY <1>1 DEF Reattach, file, writer, watch
<1>3. UNCHANGED <<acked, grew, bulkAtKill, stale>>
  BY <1>2
<1>4. MarkerSafe => MarkerSafe'
  BY <1>2 DEF MarkerSafe
<1>5. wpc # NoChild => wpc' # NoChild
  BY <1>2 DEF NoChild
<1>6. Fresh => Fresh'
  BY <1>2 DEF Fresh, Renewed
<1>7. FlagsOK'
  BY <1>1, <1>2, <1>3 DEF FlagsOK
<1>8. TypeOK'
  BY <1>2, <1>7 DEF TypeOK
<1>9. AckInv'
  BY <1>3, <1>4, <1>5, Zenon DEF AckInv
<1>10. FreshInv'
  BY <1>3, <1>6, Zenon DEF FreshInv
<1>11. WriterInv' /\ MarkerInv' /\ MineInv' /\ RowsInv' /\ SizeInv' /\ BaseInv' /\ ParentInv'
  BY <1>2 DEF WriterInv, Alive, MarkerInv, MarkerSafe, MineInv, RowsInv, SizeInv, Growing,
     BaseInv, ParentInv
<1>12. VerdictIsFresh' /\ AnnouncedMarkerSurvives' /\ KillMidInsert'
  BY <1>2, <1>3 DEF VerdictIsFresh, AnnouncedMarkerSurvives, KillMidInsert
<1> QED
  BY <1>7, <1>8, <1>9, <1>10, <1>11, <1>12

LEMMA CountLemma ==
  ASSUME CarefulIInv, Count
  PROVE  CarefulIInv'
<1> USE ConstLemma DEF CarefulIInv
<1>1. TwinOK(twin) /\ twin \in Twins /\ FlagsOK
  BY TwinLemma DEF TypeOK
<1>2. /\ \/ /\ ppc = "marker" /\ ppc' = "bulk" /\ counts'.marker = (IF Seen("marker") THEN 1 ELSE 0)
            /\ counts'.bulk = counts.bulk
         \/ /\ ppc = "bulk" /\ ppc' = "ok" /\ counts'.marker = counts.marker
            /\ counts'.bulk = 0
         \/ ppc \in {"marker", "bulk"} /\ ppc' = "error" /\ counts' = counts
      /\ counts' \in [marker : {-1, 0, 1}, bulk : -1..MaxRows]
      /\ UNCHANGED <<twin, size, pages, tip, mine, call, wpc, rows, acked, pipe, todo, base,
                     polls, grew, bulkAtKill, killed, stale, faults>>
  BY <1>1 DEF Count, Seen, RowsInv, TypeOK, file, writer, watch
<1>3. UNCHANGED <<acked, grew, bulkAtKill, stale>>
  BY <1>2
<1>4. MarkerSafe => MarkerSafe'
  BY <1>2 DEF MarkerSafe
<1>5. wpc # NoChild => wpc' # NoChild
  BY <1>2 DEF NoChild
<1>6. Fresh => Fresh'
  BY <1>2 DEF Fresh, Renewed
<1>7. FlagsOK'
  BY <1>1, <1>2, <1>3 DEF FlagsOK
<1>8. TypeOK'
  BY <1>2, <1>7 DEF TypeOK
<1>9. AckInv'
  BY <1>3, <1>4, <1>5, Zenon DEF AckInv
<1>10. FreshInv'
  BY <1>3, <1>6, Zenon DEF FreshInv
<1>11. VerdictIsFresh'
  <2>1. Fresh /\ ppc = "marker" /\ "marker" \in tip => "marker" \in mine
    BY <1>1 DEF Fresh, Renewed, TwinOK, RowsInv, MarkerInv, MarkerSafe
  <2>2. counts'.marker = 1 => counts.marker = 1 \/ (ppc = "marker" /\ "marker" \in tip)
    BY <1>2 DEF Seen
  <2> QED
    BY <1>2, <2>1, <2>2 DEF VerdictIsFresh, FreshInv
<1>12. AnnouncedMarkerSurvives'
  <2>1. MarkerSafe => counts'.marker = 1 \/ counts'.marker = counts.marker
    BY <1>2 DEF MarkerSafe, Seen
  <2>2. acked => MarkerSafe
    BY DEF AckInv
  <2> QED
    BY <1>2, <2>1, <2>2 DEF AnnouncedMarkerSurvives
<1>13. WriterInv' /\ MarkerInv' /\ MineInv' /\ RowsInv' /\ SizeInv' /\ BaseInv' /\ ParentInv'
  BY <1>2 DEF WriterInv, Alive, MarkerInv, MarkerSafe, MineInv, RowsInv, SizeInv, Growing,
     BaseInv, ParentInv
<1>14. KillMidInsert'
  BY <1>2, <1>3 DEF KillMidInsert
<1> QED
  BY <1>7, <1>8, <1>9, <1>10, <1>11, <1>12, <1>13, <1>14

LEMMA ParentFailsLemma ==
  ASSUME CarefulIInv, ParentFails
  PROVE  CarefulIInv'
<1> USE ConstLemma DEF CarefulIInv
<1>1. TwinOK(twin) /\ twin \in Twins /\ FlagsOK
  BY TwinLemma DEF TypeOK
<1>2. /\ ppc \in {"attach", "marker", "bulk", "prepare"}
      /\ faults < MaxFaults
      /\ faults' = faults + 1
      /\ ppc' = "error"
      /\ UNCHANGED <<twin, size, pages, tip, mine, call, wpc, rows, acked, pipe, todo, base,
                     polls, grew, bulkAtKill, killed, counts, stale>>
  BY <1>1 DEF ParentFails, file, writer, watch
<1>3. UNCHANGED <<acked, grew, bulkAtKill, stale>>
  BY <1>2
<1>4. MarkerSafe => MarkerSafe'
  BY <1>2 DEF MarkerSafe
<1>5. wpc # NoChild => wpc' # NoChild
  BY <1>2 DEF NoChild
<1>6. Fresh => Fresh'
  BY <1>2 DEF Fresh, Renewed
<1>7. faults' \in 0..MaxFaults
  BY <1>2 DEF TypeOK
<1>8. FlagsOK'
  BY <1>1, <1>2, <1>3 DEF FlagsOK
<1>9. TypeOK'
  BY <1>2, <1>8, <1>7 DEF TypeOK
<1>10. AckInv'
  BY <1>3, <1>4, <1>5, Zenon DEF AckInv
<1>11. FreshInv'
  BY <1>3, <1>6, Zenon DEF FreshInv
<1>12. WriterInv' /\ MarkerInv' /\ MineInv' /\ RowsInv' /\ SizeInv' /\ BaseInv' /\ ParentInv'
  BY <1>2 DEF WriterInv, Alive, MarkerInv, MarkerSafe, MineInv, RowsInv, SizeInv, Growing,
     BaseInv, ParentInv
<1>13. VerdictIsFresh' /\ AnnouncedMarkerSurvives' /\ KillMidInsert'
  BY <1>2, <1>3 DEF VerdictIsFresh, AnnouncedMarkerSurvives, KillMidInsert
<1> QED
  BY <1>8, <1>9, <1>10, <1>11, <1>12, <1>13

LEMMA NextLemma == CarefulIInv /\ [Next]_vars => CarefulIInv'
<1> SUFFICES ASSUME CarefulIInv, [Next]_vars PROVE CarefulIInv'
  OBVIOUS
<1>1. CASE Engine \/ ServerCleansUp
  BY <1>1, EngineCreatesLemma, EngineAttachesLemma, EngineDropsLemma, EngineRefusesLemma,
     EngineFlushesDataLemma, EngineCommitsLemma, EngineInsertsLemma, ServerCleansUpLemma DEF Engine
<1>2. CASE Child \/ WriterFails
  BY <1>2, WriterCallsLemma, WriterSaysLemma, WriterFailsLemma DEF Child
<1>3. CASE Parent
  BY <1>3, PrepareLemma, SpawnLemma, PollLemma, ReadChunkLemma, OutputEndsLemma, KillLemma,
     ReattachLemma, CountLemma DEF Parent
<1>4. CASE UnlinkFails \/ SpawnFails \/ ParentFails
  BY <1>4, UnlinkFailsLemma, SpawnFailsLemma, ParentFailsLemma
<1>5. CASE UNCHANGED vars
  <2>1. UNCHANGED <<twin, size, pages, tip, mine, call, wpc, rows, acked, pipe, ppc, todo, base,
                    polls, grew, bulkAtKill, killed, counts, stale, faults>>
    BY <1>5 DEF vars, file, writer, parent, watch
  <2>2. /\ FlagsOK' /\ AckInv' /\ FreshInv' /\ VerdictIsFresh'
        /\ AnnouncedMarkerSurvives' /\ KillMidInsert'
    BY <2>1 DEF CarefulIInv, TypeOK, FlagsOK, AckInv, MarkerSafe, FreshInv, Fresh, Renewed,
       VerdictIsFresh, AnnouncedMarkerSurvives, KillMidInsert
  <2>3. TypeOK' /\ WriterInv' /\ MarkerInv' /\ MineInv'
    BY <2>1, <2>2 DEF CarefulIInv, TypeOK, WriterInv, MarkerInv, MarkerSafe, MineInv, Alive
  <2>4. RowsInv' /\ SizeInv' /\ BaseInv' /\ ParentInv'
    BY <2>1 DEF CarefulIInv, RowsInv, SizeInv, Growing, Alive, BaseInv, ParentInv
  <2> QED
    BY <2>2, <2>3, <2>4 DEF CarefulIInv
<1> QED
  BY <1>1, <1>2, <1>3, <1>4, <1>5 DEF Next, Done

LEMMA Invariant == Spec => []CarefulIInv
  BY InitLemma, NextLemma, PTL DEF Spec

(* A committed marker, once announced, is counted after the kill: the
   writer's and the engine's steps may be cut off anywhere. *)
THEOREM AnnouncedMarkerSurvivesTheorem == Spec => []AnnouncedMarkerSurvives
  BY Invariant, PTL DEF CarefulIInv

(* No row of the uncommitted transaction is counted, not even while a server
   that outlived the writer still inserts. *)
THEOREM NoGhostRowsTheorem == Spec => []NoGhostRows
<1>1. CarefulIInv => NoGhostRows
  BY DEF CarefulIInv, ParentInv, NoGhostRows
<1> QED
  BY <1>1, Invariant, PTL

(* A verdict is about this run's writer, not about an earlier run's file,
   and a size-watching parent that reports success has printed one. *)
THEOREM VerdictInvTheorem == Spec => []VerdictInv
<1>1. CarefulIInv => VerdictInv
  BY DEF CarefulIInv, ParentInv, VerdictInv, SuccessHasVerdict
<1> QED
  BY <1>1, Invariant, PTL

(* When growth from a complete database triggers the kill, it falls after
   the first uncommitted rows: two small transactions cannot look like it. *)
THEOREM KillMidInsertTheorem == Spec => []KillMidInsert
  BY Invariant, PTL DEF CarefulIInv
=============================================================================
