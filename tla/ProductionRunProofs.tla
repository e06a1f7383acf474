------------------------ MODULE ProductionRunProofs ------------------------
(***************************************************************************)
(* Proofs about production runs.  ProductionRun, for any runs, spools,     *)
(* materials and workers: the type invariant, the trail of a spool, and    *)
(* the filament that runs took from it.  RunPlates, for any number of      *)
(* plates and workers: the type invariant, the counts that settle, and     *)
(* complete plates that stay so.                                           *)
(***************************************************************************)
EXTENDS ProductionRun, RunPlates, FiniteSetTheorems, TLAPS

-----------------------------------------------------------------------------
\* Sums of usages.  A union of finitely many finite sets is finite.
LEMMA UnionFinite ==
    ASSUME NEW f, NEW S, IsFiniteSet(S), \A m \in S : IsFiniteSet(f[m])
    PROVE  IsFiniteSet(UNION {f[m] : m \in S})
<1> DEFINE T == {f[m] : m \in S}
           g == [m \in S |-> f[m]]
<1>1. g \in Surjection(S, T)
  BY DEF Surjection
<1>2. IsFiniteSet(T)
  <2> HIDE DEF g, T
  <2> QED BY <1>1, FS_Surjection
<1>3. \A U \in T : IsFiniteSet(U)
  OBVIOUS
<1> HIDE DEF T
<1>4. IsFiniteSet(UNION T)
  BY <1>2, <1>3, FS_UNION
<1> QED BY <1>4 DEF T

\* Two finite sets that share nothing have as many elements as both together.
LEMMA DisjointAdd ==
    ASSUME NEW one, NEW two, IsFiniteSet(one), IsFiniteSet(two), one \cap two = {}
    PROVE  Cardinality(one \cup two) = Cardinality(one) + Cardinality(two)
<1>1. Cardinality(one) \in Nat /\ Cardinality(two) \in Nat
  BY FS_CardinalityType
<1>2. Cardinality(one \cup two) = Cardinality(one) + Cardinality(two) - Cardinality(one \cap two)
  BY FS_Union
<1>3. Cardinality(one \cap two) = 0
  BY FS_EmptySet
<1> QED BY <1>1, <1>2, <1>3

\* Rows that record a number, or nothing.
Numbers(rows, S) == \A m \in S : rows[m].usage \in Int \/ rows[m].usage = NoUsage

\* The units that the rows of a finite set used and gave back are finite.
LEMMA UnitsFinite ==
    ASSUME NEW rows, NEW S, IsFiniteSet(S), Numbers(rows, S)
    PROVE  /\ IsFiniteSet(Units(rows, S)) /\ IsFiniteSet(UnitsBack(rows, S))
           /\ Cardinality(Units(rows, S)) \in Nat /\ Cardinality(UnitsBack(rows, S)) \in Nat
           /\ Net(rows, S) \in Int
<1> DEFINE R == Recorded(rows, S)
           used == [m \in R |-> {m} \X (1..rows[m].usage)]
           back == [m \in R |-> {m} \X (rows[m].usage..-1)]
<1>1. IsFiniteSet(R)
  <2>1. R \subseteq S
    BY DEF Recorded
  <2> QED BY <2>1, FS_Subset
<1>2. ASSUME NEW m, NEW i \in Int, NEW j \in Int PROVE IsFiniteSet({m} \X (i..j))
  <2>1. IsFiniteSet(i..j)
    BY FS_Interval
  <2>2. IsFiniteSet({m})
    BY FS_Singleton
  <2> QED BY <2>1, <2>2, FS_Product
<1>3. ASSUME NEW m \in R PROVE IsFiniteSet(used[m]) /\ IsFiniteSet(back[m])
  <2>1. rows[m].usage \in Int
    BY DEF Recorded, Numbers
  <2>2. IsFiniteSet({m} \X (1..rows[m].usage)) /\ IsFiniteSet({m} \X (rows[m].usage..-1))
    <3>1. 1 \in Int /\ -1 \in Int
      OBVIOUS
    <3> HIDE DEF R, used, back
    <3> QED BY <1>2, <2>1, <3>1
  <2> HIDE DEF R
  <2> QED BY <2>2
<1>4. Units(rows, S) = UNION {used[m] : m \in R} /\ UnitsBack(rows, S) = UNION {back[m] : m \in R}
  BY DEF Units, UnitsBack
<1> HIDE DEF R, used, back
<1>5. IsFiniteSet(Units(rows, S)) /\ IsFiniteSet(UnitsBack(rows, S))
  BY <1>1, <1>3, <1>4, UnionFinite
<1> QED BY <1>5, FS_CardinalityType DEF Net

\* Two sets of rows that share none used what each used.
LEMMA NetAdds ==
    ASSUME NEW rows, NEW S, NEW U, IsFiniteSet(S), IsFiniteSet(U), S \cap U = {},
           Numbers(rows, S), Numbers(rows, U)
    PROVE  Net(rows, S \cup U) = Net(rows, S) + Net(rows, U)
<1> DEFINE used(T) == Units(rows, T)
           back(T) == UnitsBack(rows, T)
<1>1. /\ IsFiniteSet(used(S)) /\ IsFiniteSet(used(U)) /\ IsFiniteSet(back(S)) /\ IsFiniteSet(back(U))
      /\ Cardinality(used(S)) \in Nat /\ Cardinality(used(U)) \in Nat
      /\ Cardinality(back(S)) \in Nat /\ Cardinality(back(U)) \in Nat
  BY UnitsFinite
<1>2. used(S \cup U) = used(S) \cup used(U) /\ back(S \cup U) = back(S) \cup back(U)
  BY DEF Units, UnitsBack, Recorded
<1>3. used(S) \cap used(U) = {} /\ back(S) \cap back(U) = {}
  BY DEF Units, UnitsBack, Recorded
<1>4. Cardinality(used(S) \cup used(U)) = Cardinality(used(S)) + Cardinality(used(U))
  <2> HIDE DEF used
  <2> QED BY <1>1, <1>3, DisjointAdd
<1>5. Cardinality(back(S) \cup back(U)) = Cardinality(back(S)) + Cardinality(back(U))
  <2> HIDE DEF back
  <2> QED BY <1>1, <1>3, DisjointAdd
<1>6. /\ Net(rows, S) = Cardinality(used(S)) - Cardinality(back(S))
      /\ Net(rows, U) = Cardinality(used(U)) - Cardinality(back(U))
      /\ Net(rows, S \cup U) = Cardinality(used(S) \cup used(U)) - Cardinality(back(S) \cup back(U))
  BY <1>2 DEF Net
<1> HIDE DEF used, back
<1> QED BY <1>1, <1>4, <1>5, <1>6

\* Rows that say the same used the same.
LEMMA NetAgrees ==
    ASSUME NEW rows, NEW others, NEW S, \A m \in S : rows[m] = others[m]
    PROVE  Net(rows, S) = Net(others, S)
BY DEF Net, Units, UnitsBack, Recorded

-----------------------------------------------------------------------------
LEMMA RowType ==
    ASSUME ProductionRunAssumption, NEW row \in Row
    PROVE  /\ row.usage \in Int \/ row.usage = NoUsage
           /\ row.spool \in Spools => row.run \in Runs
           /\ row.run \in Runs => row.spool \in Spools
           /\ row # NoRow => row.run \in Runs /\ row.spool \in Spools /\ row.usage \in Usages \cup {NoUsage}
<1>1. Usages \subseteq Int
  BY DEF ProductionRunAssumption
<1>2. "none" \notin Runs /\ "none" \notin Spools
  BY DEF ProductionRunAssumption
<1>3. CASE row = NoRow
  BY <1>2, <1>3 DEF NoRow
<1>4. CASE row # NoRow
  <2>1. row.run \in Runs /\ row.spool \in Spools /\ row.usage \in Usages \cup {NoUsage}
    BY <1>4 DEF Row
  <2> QED BY <1>1, <2>1
<1> QED BY <1>3, <1>4

LEMMA OnFinite ==
    ASSUME ProductionRunAssumption, NEW rows, NEW s
    PROVE  IsFiniteSet(On(rows, s)) /\ Cardinality(On(rows, s)) \in Nat
<1>1. On(rows, s) \subseteq Materials
  BY DEF On
<1> QED BY <1>1, FS_Subset, FS_CardinalityType DEF ProductionRunAssumption

LEMMA UsageType ==
    ASSUME ProductionRunAssumption, NEW rows \in [Materials -> Row], NEW s
    PROVE  UsageOf(rows, s) \in Int
<1>1. Numbers(rows, On(rows, s))
  BY RowType DEF On, Numbers
<1> QED BY <1>1, OnFinite, UnitsFinite DEF UsageOf

LEMMA UsedByType ==
    ASSUME ProductionRunAssumption, NEW st, NEW mt \in [Materials -> Row], NEW s
    PROVE  UsedBy(st, mt, s) \in Int
<1>1. CompletedOn(st, mt, s) \subseteq On(mt, s)
  BY DEF CompletedOn
<1>2. IsFiniteSet(CompletedOn(st, mt, s))
  BY <1>1, OnFinite, FS_Subset
<1>3. Numbers(mt, CompletedOn(st, mt, s))
  BY RowType DEF CompletedOn, On, Numbers
<1> QED BY <1>2, <1>3, UnitsFinite DEF UsedBy

\* Completing a run adds what its rows say to what completed runs used.
LEMMA CompletionAdds ==
    ASSUME ProductionRunAssumption, NEW mt \in [Materials -> Row], NEW s \in Spools,
           NEW r \in Runs, NEW st \in [Runs -> Closed \cup {"in_progress", "none"}],
           st[r] # "completed"
    PROVE  UsedBy([st EXCEPT ![r] = "completed"], mt, s)
               = UsedBy(st, mt, s) + UsageOf(RowsOf(mt, r), s)
<1> DEFINE old == CompletedOn(st, mt, s)
           own == On(RowsOf(mt, r), s)
           new == CompletedOn([st EXCEPT ![r] = "completed"], mt, s)
<1>1. "none" \notin Spools
  BY DEF ProductionRunAssumption
<1>2. own = {m \in Materials : mt[m].run = r /\ mt[m].spool = s}
  BY <1>1 DEF On, RowsOf, NoRow
<1>3. \A m \in Materials : mt[m].spool = s => mt[m].run \in Runs
  BY RowType
<1>4. new = old \cup own
  BY <1>2, <1>3 DEF CompletedOn, On
<1>5. old \cap own = {}
  BY <1>2 DEF CompletedOn
<1>6. IsFiniteSet(old) /\ IsFiniteSet(own)
  <2>1. old \subseteq On(mt, s)
    BY DEF CompletedOn
  <2> QED BY <2>1, OnFinite, FS_Subset
<1>7. Numbers(mt, old) /\ Numbers(mt, own)
  BY RowType DEF CompletedOn, On, Numbers
<1>8. Net(RowsOf(mt, r), own) = Net(mt, own)
  <2>1. \A m \in own : RowsOf(mt, r)[m] = mt[m]
    BY <1>2 DEF RowsOf
  <2> HIDE DEF own
  <2> QED BY <2>1, NetAgrees
<1> HIDE DEF old, own
<1>9. Net(mt, old \cup own) = Net(mt, old) + Net(mt, own)
  BY <1>5, <1>6, <1>7, NetAdds
<1> QED BY <1>4, <1>8, <1>9 DEF UsedBy, UsageOf, old, own

\* What a request takes of a spool is a number.
LEMMA TakenType ==
    ASSUME ProductionRunAssumption, NEW r \in Request, NEW s \in Spools
    PROVE  Taken(r, s) \in Int
<1>1. r.rows \in [Materials -> Row] /\ r.reported \in [Spools -> Amounts \cup {0}]
  BY DEF Request
<1>2. CASE r.op = "complete"
  BY <1>1, <1>2, UsageType DEF Taken
<1>3. CASE r.op # "complete"
  <2>1. r.reported[s] \in Nat
    <3>1. r.reported[s] \in Amounts \cup {0}
      BY <1>1
    <3>2. \A a \in Amounts \cup {0} : a \in Nat
      BY DEF ProductionRunAssumption
    <3> QED BY <3>1, <3>2
  <2>2. Cardinality(On(r.rows, s)) \in Nat
    BY OnFinite
  <2>3. \A a, b \in Nat : a * b \in Nat
    OBVIOUS
  <2> QED BY <1>3, <2>1, <2>2, <2>3 DEF Taken
<1> QED BY <1>2, <1>3

-----------------------------------------------------------------------------
\* A request in flight is for a run; one for a row names it, and what it
\* writes is a row; a status that PATCH sets is one that it may.  One that
\* completes was read of a run that was not completed, and one that is about
\* to take filament has found enough.
Stops == {"cancel", "fail"}
RowOps == {"add", "edit", "remove"}
InPlace(r) ==
    /\ r.pc # "idle" =>
         /\ r.run \in Runs
         /\ r.op \in RowOps => r.material \in Materials /\ r.row # NoRow
         /\ r.op = "patch" => r.new \in Statuses
    /\ r.pc = "load" => r.op \in Stops \cup {"complete"}
    /\ r.pc \in {"load", "commit"} => Accepts(r.op, r.seen)
    /\ (r.pc = "commit" /\ r.op \in Stops \cup {"complete"}) => Enough(r)
RequestsInPlace == \A w \in Workers : InPlace(req[w])

LEMMA IdleType ==
    ASSUME ProductionRunAssumption
    PROVE  Idle \in Request /\ InPlace(Idle)
<1>1. NoRow \in Row /\ NoRows \in [Materials -> Row]
  BY DEF Row, NoRows
<1>2. Nothing \in [Spools -> Int] /\ Nothing \in [Spools -> Amounts \cup {0}]
  BY DEF Nothing
<1>3. Idle \in Request
  BY <1>1, <1>2 DEF Idle, Request
<1>4. InPlace(Idle)
  BY DEF Idle, InPlace, Stops
<1> QED BY <1>3, <1>4

\* One request changes to something well placed.
LEMMA Replaced ==
    ASSUME TypeOK, RequestsInPlace, NEW w \in Workers, NEW r \in Request, InPlace(r),
           Becomes(w, r)
    PROVE  req' \in [Workers -> Request] /\ RequestsInPlace'
BY DEF TypeOK, RequestsInPlace, Becomes

LEMMA RowsOfType ==
    ASSUME NEW mt \in [Materials -> Row], NEW r
    PROVE  RowsOf(mt, r) \in [Materials -> Row]
BY DEF RowsOf, Row

LEMMA TypeInit == ProductionRunAssumption /\ Init => TypeOK /\ RequestsInPlace
<1> SUFFICES ASSUME ProductionRunAssumption, Init PROVE TypeOK /\ RequestsInPlace
  OBVIOUS
<1>1. NoRows \in [Materials -> Row]
  BY DEF Row, NoRows
<1>2. Opening \in [Spools -> Int] /\ Nothing \in [Spools -> Int]
  BY DEF ProductionRunAssumption, Nothing
<1> QED BY <1>1, <1>2, IdleType DEF Init, TypeOK, RequestsInPlace

\* What is stored and remembered stays, and a request moves on.
LEMMA TypeMoves ==
    ASSUME TypeOK, RequestsInPlace, NEW w \in Workers, NEW r \in Request, InPlace(r), Becomes(w, r),
           UNCHANGED <<stored, history>>
    PROVE  TypeOK' /\ RequestsInPlace'
BY Replaced DEF TypeOK, stored, history

LEMMA TypeCall ==
    ASSUME ProductionRunAssumption, TypeOK, RequestsInPlace, NEW w \in Workers, NEW r \in Runs,
           NEW new \in Statuses \cup {"none"}, NEW reported \in [Spools -> Amounts \cup {0}],
           NEW op \in {"patch", "delete", "complete", "cancel", "fail"}, Call(w, op, r, reported, new)
    PROVE  TypeOK' /\ RequestsInPlace'
<1> DEFINE q == [Idle EXCEPT !.pc = "read", !.op = op, !.run = r, !.reported = reported, !.new = new]
<1>1. q \in Request
  BY IdleType DEF Request
<1>2. /\ q.pc = "read" /\ q.op = op /\ q.run = r /\ q.new = new
  BY IdleType DEF Request
<1>3. op = "patch" => new \in Statuses
  BY DEF Call
<1>4. Becomes(w, q) /\ UNCHANGED <<stored, history>>
  BY DEF Call
<1> HIDE DEF q
<1>5. InPlace(q)
  BY <1>2, <1>3 DEF InPlace, RowOps
<1> QED BY <1>1, <1>4, <1>5, TypeMoves

LEMMA TypeCallMaterial ==
    ASSUME ProductionRunAssumption, TypeOK, RequestsInPlace, NEW w \in Workers, NEW r \in Runs,
           NEW op \in {"add", "edit", "remove"}, NEW m \in Materials,
           NEW row \in Rows(r) \cup {material[m]}, CallMaterial(w, op, m, row)
    PROVE  TypeOK' /\ RequestsInPlace'
<1> DEFINE q == [Idle EXCEPT !.pc = "read", !.op = op, !.run = row.run, !.material = m, !.row = row]
<1>1. row \in Row
  BY DEF TypeOK, Rows, Row
<1>2. row # NoRow
  BY DEF CallMaterial, NoRow
<1>3. row.run \in Runs
  BY <1>1, <1>2, RowType
<1>4. q \in Request
  BY <1>1, <1>3, IdleType DEF Request
<1>5. /\ q.pc = "read" /\ q.op = op /\ q.run = row.run /\ q.material = m /\ q.row = row
  BY IdleType DEF Request
<1>6. Becomes(w, q) /\ UNCHANGED <<stored, history>>
  BY DEF CallMaterial
<1> HIDE DEF q
<1>7. InPlace(q)
  BY <1>2, <1>3, <1>5 DEF InPlace
<1> QED BY <1>4, <1>6, <1>7, TypeMoves

LEMMA TypeRead ==
    ASSUME ProductionRunAssumption, TypeOK, RequestsInPlace, NEW w \in Workers,
           ReadRun(w) \/ Load(w) \/ Abort(w)
    PROVE  TypeOK' /\ RequestsInPlace'
<1> DEFINE r == req[w]
<1>1. r \in Request /\ InPlace(r)
  BY DEF TypeOK, RequestsInPlace
<1>2. CASE Becomes(w, Idle) /\ UNCHANGED <<stored, history>>
  BY <1>2, IdleType, TypeMoves
<1>3. CASE ReadRun(w)
  <2> DEFINE q == [r EXCEPT !.seen = status[r.run],
                    !.rows = IF r.op = "edit" THEN RowsOf(material, r.run) ELSE NoRows,
                    !.pc = IF r.op \in {"complete", "cancel", "fail"} THEN "load" ELSE "commit"]
  <2>1. r.pc = "read" /\ r.run \in Runs
    BY <1>1, <1>3 DEF ReadRun, At, InPlace
  <2>2. UNCHANGED <<stored, history>>
    BY <1>3 DEF ReadRun
  <2>3. CASE Becomes(w, q) /\ Accepts(r.op, status[r.run])
    <3>1. status[r.run] \in Closed \cup {"in_progress", "none"}
      BY <2>1 DEF TypeOK
    <3>2. (IF r.op = "edit" THEN RowsOf(material, r.run) ELSE NoRows) \in [Materials -> Row]
      BY RowsOfType DEF TypeOK, NoRows, Row
    <3>3. q \in Request
      <4>1. ASSUME NEW rows \in [Materials -> Row], NEW pc \in {"load", "commit"}
            PROVE  [r EXCEPT !.seen = status[r.run], !.rows = rows, !.pc = pc] \in Request
        BY <1>1, <3>1 DEF Request
      <4> QED BY <3>2, <4>1
    <3>4. /\ q.op = r.op /\ q.run = r.run /\ q.new = r.new /\ q.material = r.material
          /\ q.row = r.row /\ q.seen = status[r.run]
          /\ q.pc = IF r.op \in {"complete", "cancel", "fail"} THEN "load" ELSE "commit"
      BY <1>1 DEF Request
    <3>5. InPlace(q)
      <4> HIDE DEF q
      <4> QED BY <1>1, <2>1, <2>3, <3>4 DEF InPlace, Stops
    <3> HIDE DEF q
    <3> QED BY <2>2, <2>3, <3>3, <3>5, TypeMoves
  <2> QED BY <1>2, <1>3, <2>2, <2>3 DEF ReadRun
<1>4. CASE Load(w)
  <2> DEFINE q == [r EXCEPT !.rows = RowsOf(material, r.run), !.weight = weight, !.pc = "commit"]
  <2>1. r.pc = "load"
    BY <1>4 DEF Load, At
  <2>2. UNCHANGED <<stored, history>>
    BY <1>4 DEF Load
  <2>3. CASE Becomes(w, q) /\ Enough(q)
    <3>1. RowsOf(material, r.run) \in [Materials -> Row] /\ weight \in [Spools -> Int]
      BY RowsOfType DEF TypeOK
    <3>2. q \in Request
      BY <1>1, <3>1 DEF Request
    <3>3. /\ q.op = r.op /\ q.run = r.run /\ q.new = r.new /\ q.material = r.material
          /\ q.row = r.row /\ q.seen = r.seen /\ q.pc = "commit"
      BY <1>1 DEF Request
    <3>4. InPlace(q)
      <4> HIDE DEF q
      <4> QED BY <1>1, <2>1, <2>3, <3>3 DEF InPlace
    <3> HIDE DEF q
    <3> QED BY <2>2, <2>3, <3>2, <3>4, TypeMoves
  <2> QED BY <1>2, <1>4, <2>2, <2>3 DEF Load
<1>5. CASE Abort(w)
  BY <1>2, <1>5 DEF Abort, Fails
<1> QED BY <1>3, <1>4, <1>5

\* A commit ends its request; what it leaves to be excused are runs and spools.
LEMMA TypeEnds ==
    ASSUME ProductionRunAssumption, TypeOK, RequestsInPlace, NEW w \in Workers, ~At(w, "idle"), Ends(w)
    PROVE  req' \in [Workers -> Request] /\ RequestsInPlace' /\ loose' \subseteq Runs \cup Spools
<1>1. req[w].run \in Runs
  BY DEF At, RequestsInPlace, InPlace
<1>2. loose' \subseteq Runs \cup Spools
  BY <1>1 DEF Ends, Loosened, Takes, TypeOK
<1>3. Becomes(w, Idle)
  BY DEF Ends
<1> QED BY <1>2, <1>3, IdleType, Replaced

LEMMA TypeCommit ==
    ASSUME ProductionRunAssumption, TypeOK, RequestsInPlace, NEW w \in Workers,
           \/ CommitPatch(w) \/ CommitDelete(w) \/ CommitRow(w) \/ CommitComplete(w) \/ CommitStop(w)
    PROVE  TypeOK' /\ RequestsInPlace'
<1> DEFINE r == req[w]
<1>1. r \in Request /\ InPlace(r)
  BY DEF TypeOK, RequestsInPlace
<1>2. r.pc = "commit"
  BY DEF CommitPatch, CommitDelete, CommitRow, CommitComplete, CommitStop, At
<1>3. ~At(w, "idle") /\ r.run \in Runs
  BY <1>1, <1>2 DEF At, InPlace
<1>4. CASE Fails(w)
  BY <1>4, IdleType, TypeMoves DEF Fails
<1>5. \A s \in Spools : Taken(r, s) \in Int
  BY <1>1, TakenType
<1>6. CASE CommitPatch(w) /\ ~Fails(w)
  <2>1. r.new \in Closed \cup {"in_progress"}
    BY <1>1, <1>2, <1>6 DEF CommitPatch, InPlace, ProductionRunAssumption
  <2> QED BY <1>3, <1>6, <2>1, TypeEnds DEF CommitPatch, TypeOK
<1>7. CASE CommitDelete(w) /\ ~Fails(w)
  <2>1. material' \in [Materials -> Row]
    BY <1>7 DEF CommitDelete, TypeOK, Row
  <2> QED BY <1>3, <1>7, <2>1, TypeEnds DEF CommitDelete, TypeOK
<1>8. CASE CommitRow(w) /\ ~Fails(w)
  <2>1. r.op \in {"add", "edit", "remove"} /\ r.material \in Materials
        /\ (r.op # "add" => material[r.material] # NoRow)
    BY <1>1, <1>2, <1>8 DEF CommitRow, InPlace, RowOps
  <2>2. r.row \in Row /\ r.row # NoRow
    BY <1>1, <1>2, <2>1 DEF Request, InPlace, RowOps
  <2>3. Written(r, r.material) \in Row
    <3>1. CASE r.op = "add"
      BY <2>2, <3>1 DEF Written
    <3>2. CASE r.op = "remove"
      BY <3>2 DEF Written, Row
    <3>3. CASE r.op = "edit"
      <4> DEFINE now == material[r.material]
      <4>1. now \in Row /\ now # NoRow
        BY <2>1, <3>3 DEF TypeOK
      <4>2. now \in [run : Runs, spool : Spools, usage : Usages \cup {NoUsage}]
        BY <4>1 DEF Row
      <4>3. r.row \in [run : Runs, spool : Spools, usage : Usages \cup {NoUsage}]
        BY <2>2 DEF Row
      <4> QED BY <3>3, <4>2, <4>3 DEF Written, Row
    <3> QED BY <2>1, <3>1, <3>2, <3>3
  <2>4. material' \in [Materials -> Row]
    BY <1>8, <2>3 DEF CommitRow, TypeOK
  <2> QED BY <1>3, <1>8, <2>4, TypeEnds DEF CommitRow, TypeOK
<1>9. CASE CommitComplete(w) /\ ~Fails(w)
  <2>1. r.weight \in [Spools -> Int]
    BY <1>1 DEF Request
  <2>2. weight' \in [Spools -> Int]
    BY <1>5, <1>9, <2>1 DEF CommitComplete, TypeOK
  <2>3. status' \in [Runs -> Closed \cup {"in_progress", "none"}]
    BY <1>9 DEF CommitComplete, TypeOK, Closed
  <2> QED BY <1>3, <1>9, <2>2, <2>3, TypeEnds DEF CommitComplete, TypeOK
<1>10. CASE CommitStop(w) /\ ~Fails(w)
  <2>1. weight' \in [Spools -> Int] /\ trail' \in [Spools -> Int]
    BY <1>5, <1>10 DEF CommitStop, Decremented, TypeOK
  <2>2. Result[r.op] \in Closed
    BY <1>10 DEF CommitStop, Result, Closed
  <2>3. status' \in [Runs -> Closed \cup {"in_progress", "none"}]
    BY <1>10, <2>2 DEF CommitStop, TypeOK
  <2> QED BY <1>3, <1>10, <2>1, <2>3, TypeEnds DEF CommitStop, TypeOK
<1> QED BY <1>4, <1>6, <1>7, <1>8, <1>9, <1>10

LEMMA TypeOther ==
    ASSUME ProductionRunAssumption, TypeOK, RequestsInPlace,
           \/ \E r \in Runs, st \in Statuses, ms \in SUBSET Free :
                \E rows \in [ms -> Rows(r)] : Create(r, st, ms, rows)
           \/ \E s \in Spools, x \in Readings : SetWeight(s, x)
    PROVE  TypeOK' /\ RequestsInPlace'
<1>1. ASSUME NEW r \in Runs, NEW st \in Statuses, NEW ms \in SUBSET Free,
             NEW rows \in [ms -> Rows(r)], Create(r, st, ms, rows)
      PROVE  TypeOK' /\ RequestsInPlace'
  <2>1. st \in Closed \cup {"in_progress", "none"}
    BY DEF ProductionRunAssumption
  <2>2. \A m \in ms : rows[m] \in Row
    BY DEF Rows, Row
  <2>3. material' \in [Materials -> Row]
    BY <1>1, <2>2 DEF Create, TypeOK
  <2> QED BY <1>1, <2>1, <2>3 DEF Create, TypeOK, RequestsInPlace
<1>2. ASSUME NEW s \in Spools, NEW x \in Readings, SetWeight(s, x)
      PROVE  TypeOK' /\ RequestsInPlace'
  <2>1. x \in Int
    BY DEF ProductionRunAssumption
  <2> QED BY <1>2, <2>1 DEF SetWeight, TypeOK, RequestsInPlace
<1> QED BY <1>1, <1>2

LEMMA TypeNext ==
    ASSUME ProductionRunAssumption, TypeOK, RequestsInPlace, [Next]_vars
    PROVE  TypeOK' /\ RequestsInPlace'
<1>1. CASE UNCHANGED vars
  BY <1>1 DEF vars, stored, history, TypeOK, RequestsInPlace
<1>2. Free \cup {x \in Materials : material[x] # NoRow} \subseteq Materials
  BY DEF Free
<1> QED BY <1>1, <1>2, TypeCall, TypeCallMaterial, TypeRead, TypeCommit, TypeOther DEF Next

TypesHold == TypeOK /\ RequestsInPlace

\* Everything keeps its type, and requests their place, for any runs, spools,
\* materials, amounts and overlapping requests.
THEOREM TypeCorrect == Spec => []TypeOK
<1>1. Init => TypesHold
  BY TypeInit, ProductionRunAssumption DEF TypesHold
<1>2. TypesHold /\ [Next]_vars => TypesHold'
  BY TypeNext, ProductionRunAssumption DEF TypesHold
<1>3. TypesHold => TypeOK
  BY DEF TypesHold
<1> QED BY <1>1, <1>2, <1>3, PTL DEF Spec

-----------------------------------------------------------------------------
\* What a step may do to a spool that it does not set, loosen or complete on.
\* A request that commits takes what it takes, or leaves the spool alone.
LEMMA Stopped ==
    ASSUME ProductionRunAssumption, TypeOK, NEW w \in Workers, CommitStop(w), NEW s \in Spools
    PROVE  \/ weight'[s] = weight[s] /\ trail'[s] = trail[s]
           \/ /\ weight'[s] = weight[s] - Taken(req[w], s)
              /\ trail'[s] = trail[s] - Taken(req[w], s)
              /\ Ends(w) /\ req[w].pc = "commit" /\ req[w].op \in Stops
              /\ UNCHANGED recorded
BY DEF CommitStop, Fails, stored, Decremented, Result, Stops, At

\* Completing leaves the spools alone of which it takes nothing.
LEMMA Completed ==
    ASSUME ProductionRunAssumption, TypeOK, NEW w \in Workers, CommitComplete(w), NEW s \in Spools
    PROVE  /\ trail'[s] = trail[s]
           /\ recorded' \subseteq recorded
           /\ \/ weight'[s] = weight[s]
              \/ /\ s \in Takes(req[w]) /\ s \notin recorded'
                 /\ weight'[s] = req[w].weight[s] - Taken(req[w], s)
BY DEF CommitComplete, Fails, stored, history

\* Nothing else touches weights and trails but what sets a spool.
LEMMA OtherSteps ==
    ASSUME [Next]_vars
    PROVE  \/ \E w \in Workers : CommitComplete(w) \/ CommitStop(w)
           \/ \E s \in Spools, x \in Readings : SetWeight(s, x)
           \/ UNCHANGED <<weight, trail, recorded>>
<1>1. ASSUME NEW w \in Workers,
             \/ ReadRun(w) \/ Load(w) \/ Abort(w)
             \/ CommitPatch(w) \/ CommitDelete(w) \/ CommitRow(w)
      PROVE  UNCHANGED <<weight, trail, recorded>>
  BY <1>1 DEF ReadRun, Load, Abort, CommitPatch, CommitDelete, CommitRow, Fails, stored, history
<1>2. ASSUME NEW w, NEW op, NEW r, NEW reported, NEW new, Call(w, op, r, reported, new)
      PROVE  UNCHANGED <<weight, trail, recorded>>
  BY <1>2 DEF Call, stored, history
<1>3. ASSUME NEW w, NEW op, NEW m, NEW row, CallMaterial(w, op, m, row)
      PROVE  UNCHANGED <<weight, trail, recorded>>
  BY <1>3 DEF CallMaterial, stored, history
<1>4. ASSUME NEW r, NEW st, NEW ms, NEW rows, Create(r, st, ms, rows)
      PROVE  UNCHANGED <<weight, trail, recorded>>
  BY <1>4 DEF Create
<1>5. CASE UNCHANGED vars
  BY <1>5 DEF vars, stored, history
<1> QED BY <1>1, <1>2, <1>3, <1>4, <1>5 DEF Next

\* A spool whose weight changed with transactions only has the weight that it
\* had at first, plus what these record, however requests overlap: cancelling
\* and failing decrement in SQL and write the transaction with it.
THEOREM TrailComplete == Spec => []TrailAddsUp
<1> DEFINE IInv == TypesHold /\ TrailAddsUp
<1>1. Init => IInv
  <2> SUFFICES ASSUME Init PROVE IInv
    OBVIOUS
  <2>1. TypesHold
    BY TypeInit, ProductionRunAssumption DEF TypesHold
  <2>2. \A s \in Spools : weight[s] = Opening[s] + trail[s]
    BY ProductionRunAssumption DEF Init, Nothing, ProductionRunAssumption
  <2> QED BY <2>1, <2>2 DEF TrailAddsUp, Init
<1>2. IInv /\ [Next]_vars => IInv'
  <2> SUFFICES ASSUME IInv, [Next]_vars PROVE IInv'
    OBVIOUS
  <2>1. TypesHold'
    BY TypeNext, ProductionRunAssumption DEF TypesHold
  <2>2. ASSUME NEW s \in recorded' PROVE weight'[s] = Opening[s] + trail'[s]
    <3>1. ASSUME s \in recorded, weight'[s] = weight[s], trail'[s] = trail[s]
          PROVE  weight'[s] = Opening[s] + trail'[s]
      BY <3>1 DEF TrailAddsUp
    <3>2. s \in Spools
      BY <2>1, <2>2 DEF TypesHold, TypeOK
    <3>3. CASE UNCHANGED <<weight, trail, recorded>>
      BY <2>2, <3>1, <3>3
    <3>4. ASSUME NEW w \in Workers, CommitComplete(w)
          PROVE  weight'[s] = Opening[s] + trail'[s]
      BY <2>2, <3>1, <3>2, <3>4, Completed, ProductionRunAssumption DEF TypesHold
    <3>5. ASSUME NEW w \in Workers, CommitStop(w)
          PROVE  weight'[s] = Opening[s] + trail'[s]
      <4>1. s \in recorded
        BY <2>2, <3>5 DEF CommitStop, Fails, history
      <4>2. weight[s] = Opening[s] + trail[s]
        BY <4>1 DEF TrailAddsUp
      <4>3. Taken(req[w], s) \in Int
        BY <3>2, TakenType, ProductionRunAssumption DEF TypesHold, TypeOK
      <4>4. Opening[s] \in Int /\ trail[s] \in Int /\ weight[s] \in Int
        BY <3>2, ProductionRunAssumption DEF TypesHold, TypeOK, ProductionRunAssumption
      <4> QED BY <3>2, <3>5, <4>2, <4>3, <4>4, Stopped, ProductionRunAssumption DEF TypesHold
    <3>6. ASSUME NEW x \in Spools, NEW y \in Readings, SetWeight(x, y)
          PROVE  weight'[s] = Opening[s] + trail'[s]
      <4>1. s \in recorded /\ s # x
        BY <2>2, <3>6 DEF SetWeight
      <4> QED BY <3>1, <3>2, <3>6, <4>1 DEF SetWeight, TypesHold, TypeOK
    <3> QED BY <3>3, <3>4, <3>5, <3>6, OtherSteps
  <2> QED BY <2>1, <2>2 DEF TrailAddsUp
<1>3. IInv => TrailAddsUp
  OBVIOUS
<1> QED BY <1>1, <1>2, <1>3, PTL DEF Spec

-----------------------------------------------------------------------------
\* The filament that runs took.
LEMMA LooseGrows == [Next]_vars => loose \subseteq loose'
<1> SUFFICES ASSUME [Next]_vars PROVE loose \subseteq loose'
  OBVIOUS
<1>1. ASSUME NEW w \in Workers,
             \/ ReadRun(w) \/ Load(w) \/ Abort(w) \/ CommitPatch(w) \/ CommitDelete(w)
             \/ CommitRow(w) \/ CommitComplete(w) \/ CommitStop(w)
      PROVE  loose \subseteq loose'
  <2>1. Fails(w) \/ Ends(w) \/ UNCHANGED loose
    BY <1>1 DEF ReadRun, Load, Abort, CommitPatch, CommitDelete, CommitRow, CommitComplete,
                CommitStop, history
  <2> QED BY <2>1 DEF Fails, Ends, history
<1>2. ASSUME NEW w, NEW op, NEW r, NEW reported, NEW new, Call(w, op, r, reported, new)
      PROVE  loose \subseteq loose'
  BY <1>2 DEF Call, history
<1>3. ASSUME NEW w, NEW op, NEW m, NEW row, CallMaterial(w, op, m, row)
      PROVE  loose \subseteq loose'
  BY <1>3 DEF CallMaterial, history
<1> QED BY <1>1, <1>2, <1>3 DEF Next, Create, SetWeight, vars, history

\* What completed runs used of a spool that is not loose changes by a
\* completion only.
LEMMA UsedKept ==
    ASSUME [Next]_vars, NEW s \in Spools, s \notin loose',
           \A w \in Workers : ~CommitComplete(w)
    PROVE  UsedBy(status', material', s) = UsedBy(status, material, s)
<1>1. CASE UNCHANGED <<status, material>>
  BY <1>1
<1>2. ASSUME NEW w \in Workers, Ends(w), req[w].op # "complete"
      PROVE  UsedBy(status', material', s) = UsedBy(status, material, s)
  BY <1>2 DEF Ends, Loosened
<1>3. ASSUME NEW w \in Workers, CommitPatch(w) \/ CommitDelete(w) \/ CommitRow(w) \/ CommitStop(w)
      PROVE  UsedBy(status', material', s) = UsedBy(status, material, s)
  <2>1. Fails(w) \/ (Ends(w) /\ req[w].op # "complete")
    BY <1>3 DEF CommitPatch, CommitDelete, CommitRow, CommitStop, Result
  <2> QED BY <1>1, <1>2, <2>1 DEF Fails, stored
<1>4. ASSUME NEW w \in Workers, ReadRun(w) \/ Load(w) \/ Abort(w)
      PROVE  UNCHANGED <<status, material>>
  BY <1>4 DEF ReadRun, Load, Abort, Fails, stored
<1>5. ASSUME NEW w, NEW op, NEW r, NEW reported, NEW new, Call(w, op, r, reported, new)
      PROVE  UNCHANGED <<status, material>>
  BY <1>5 DEF Call, stored
<1>6. ASSUME NEW w, NEW op, NEW m, NEW row, CallMaterial(w, op, m, row)
      PROVE  UNCHANGED <<status, material>>
  BY <1>6 DEF CallMaterial, stored
<1>7. ASSUME NEW r, NEW st, NEW ms, NEW rows, Create(r, st, ms, rows)
      PROVE  UsedBy(status', material', s) = UsedBy(status, material, s)
  BY <1>7 DEF Create
<1> QED BY <1>1, <1>3, <1>4, <1>5, <1>6, <1>7 DEF Next, SetWeight, vars, stored

\* A completion that is not excused takes from a spool what it has, and what
\* the run's rows say, of a run that was not completed; so does a request that
\* stops a run, without regard to the rows.
LEMMA Unexcused ==
    ASSUME ProductionRunAssumption, TypesHold, NEW w \in Workers, req[w].pc = "commit",
           req[w].op \in Stops \cup {"complete"}, Ends(w), NEW s \in Spools, s \notin loose'
    PROVE  /\ Taken(req[w], s) \in Int
           /\ s \notin Takes(req[w]) => Taken(req[w], s) = 0
           /\ s \in Takes(req[w]) => /\ weight[s] = req[w].weight[s]
                                     /\ Taken(req[w], s) <= weight[s]
                                     /\ status[req[w].run] = req[w].seen
           /\ req[w].op = "complete" =>
                /\ Taken(req[w], s) = UsageOf(RowsOf(material, req[w].run), s)
                /\ req[w].seen # "completed"
<1> DEFINE r == req[w]
<1>1. r \in Request /\ InPlace(r)
  BY DEF TypesHold, TypeOK, RequestsInPlace
<1>2. Taken(r, s) \in Int
  BY <1>1, TakenType
<1>3. s \notin Takes(r) => Taken(r, s) = 0
  BY <1>2 DEF Takes
<1>4. s \notin Loosened(r)
  BY DEF Ends
<1>5. s \in Takes(r) => weight[s] = r.weight[s] /\ status[r.run] = r.seen
  BY <1>4 DEF Loosened
<1>6. s \in Takes(r) => Taken(r, s) <= r.weight[s]
  BY <1>1 DEF InPlace, Enough
<1>7. r.op = "complete" => Taken(r, s) = UsageOf(RowsOf(material, r.run), s)
  BY <1>4 DEF Loosened
<1>8. r.op = "complete" => r.seen # "completed"
  BY <1>1 DEF InPlace, Accepts
<1> QED BY <1>2, <1>3, <1>5, <1>6, <1>7, <1>8

\* One step of a completion, for a spool that is not loose after it.
LEMMA CompletionMatches ==
    ASSUME ProductionRunAssumption, TypesHold, NEW w \in Workers, CommitComplete(w), ~Fails(w),
           NEW s \in Spools, s \notin loose'
    PROVE  /\ weight'[s] = weight[s] - Taken(req[w], s)
           /\ UsedBy(status', material', s) = UsedBy(status, material, s) + Taken(req[w], s)
<1> DEFINE r == req[w]
<1>1. r.pc = "commit" /\ r.op = "complete" /\ Ends(w) /\ UNCHANGED material
      /\ status' = [status EXCEPT ![r.run] = "completed"]
  BY DEF CommitComplete, At
<1>2. r.run \in Runs
  BY <1>1 DEF TypesHold, RequestsInPlace, InPlace
<1>3. status \in [Runs -> Closed \cup {"in_progress", "none"}] /\ material \in [Materials -> Row]
      /\ weight[s] \in Int
  BY DEF TypesHold, TypeOK
<1>4. /\ Taken(r, s) \in Int
      /\ s \notin Takes(r) => Taken(r, s) = 0
      /\ s \in Takes(r) => weight[s] = r.weight[s] /\ status[r.run] = r.seen
      /\ Taken(r, s) = UsageOf(RowsOf(material, r.run), s)
      /\ r.seen # "completed"
  BY <1>1, Unexcused
<1>5. weight'[s] = weight[s] - Taken(r, s)
  BY <1>3, <1>4 DEF CommitComplete
<1>6. UsedBy(status, material, s) \in Int
  BY <1>3, UsedByType
<1>7. CASE status[r.run] # "completed"
  <2>1. UsedBy(status', material, s) = UsedBy(status, material, s) + UsageOf(RowsOf(material, r.run), s)
    <3>1. PICK st, mt, q : st = status /\ mt = material /\ q = r.run
      OBVIOUS
    <3>2. UsedBy([st EXCEPT ![q] = "completed"], mt, s) = UsedBy(st, mt, s) + UsageOf(RowsOf(mt, q), s)
      BY <1>2, <1>3, <1>7, <3>1, CompletionAdds
    <3> QED BY <1>1, <3>1, <3>2
  <2> QED BY <1>1, <1>4, <1>5, <2>1
<1>8. CASE status[r.run] = "completed"
  <2>1. status' = status
    BY <1>1, <1>2, <1>3, <1>8
  <2>2. Taken(r, s) = 0
    BY <1>4, <1>8
  <2> QED BY <1>1, <1>5, <1>6, <2>1, <2>2
<1> QED BY <1>7, <1>8

LEMMA MatchStep ==
    ASSUME ProductionRunAssumption, TypesHold, SpoolsMatchRuns, [Next]_vars
    PROVE  SpoolsMatchRuns'
<1> SUFFICES ASSUME NEW s \in Spools, s \notin loose'
             PROVE  weight'[s] = Opening[s] + trail'[s] - UsedBy(status', material', s)
  BY DEF SpoolsMatchRuns
<1> DEFINE used == UsedBy(status, material, s)
           then == UsedBy(status', material', s)
<1>1. weight[s] = Opening[s] + trail[s] - used
  BY LooseGrows DEF SpoolsMatchRuns
<1>2. used \in Int
  BY UsedByType DEF TypesHold, TypeOK
<1>3. weight[s] \in Int /\ trail[s] \in Int /\ Opening[s] \in Int
  BY DEF TypesHold, TypeOK, ProductionRunAssumption
<1>4. ASSUME NEW w \in Workers, CommitComplete(w)
      PROVE  weight'[s] = Opening[s] + trail'[s] - then
  <2>1. CASE Fails(w)
    BY <1>1, <2>1 DEF Fails, stored
  <2>2. CASE ~Fails(w)
    <3>1. trail'[s] = trail[s]
      BY <1>4, Completed DEF TypesHold
    <3>2. weight'[s] = weight[s] - Taken(req[w], s) /\ then = used + Taken(req[w], s)
      BY <1>4, <2>2, CompletionMatches
    <3>3. Taken(req[w], s) \in Int
      BY TakenType DEF TypesHold, TypeOK
    <3> HIDE DEF used, then
    <3> QED BY <1>1, <1>2, <1>3, <3>1, <3>2, <3>3
  <2> QED BY <2>1, <2>2
<1>5. ASSUME \A w \in Workers : ~CommitComplete(w)
      PROVE  weight'[s] = Opening[s] + trail'[s] - then
  <2>1. then = used
    BY <1>5, UsedKept
  <2>2. CASE UNCHANGED <<weight, trail, recorded>>
    BY <1>1, <2>1, <2>2
  <2>3. ASSUME NEW w \in Workers, CommitStop(w)
        PROVE  weight'[s] = Opening[s] + trail'[s] - then
    <3>1. Taken(req[w], s) \in Int
      BY TakenType DEF TypesHold, TypeOK
    <3>2. \/ weight'[s] = weight[s] /\ trail'[s] = trail[s]
          \/ /\ weight'[s] = weight[s] - Taken(req[w], s)
             /\ trail'[s] = trail[s] - Taken(req[w], s)
      BY <2>3, Stopped DEF TypesHold
    <3> HIDE DEF used, then
    <3> QED BY <1>1, <1>2, <1>3, <2>1, <3>1, <3>2
  <2>4. ASSUME NEW x \in Spools, NEW y \in Readings, SetWeight(x, y)
        PROVE  weight'[s] = Opening[s] + trail'[s] - then
    BY <1>1, <2>1, <2>4 DEF SetWeight, TypesHold, TypeOK
  <2> QED BY <1>5, <2>2, <2>3, <2>4, OtherSteps
<1> QED BY <1>4, <1>5

LEMMA NonNegativeStep ==
    ASSUME ProductionRunAssumption, TypesHold, NeverNegative, [Next]_vars
    PROVE  NeverNegative'
<1> SUFFICES ASSUME NEW s \in Spools, s \notin loose'
             PROVE  weight'[s] >= 0
  BY DEF NeverNegative
<1>1. weight[s] >= 0
  BY LooseGrows DEF NeverNegative
<1>2. weight[s] \in Int
  BY DEF TypesHold, TypeOK
<1>3. ASSUME NEW w \in Workers, req[w].pc = "commit", req[w].op \in Stops \cup {"complete"}, Ends(w),
             weight'[s] = weight[s] - Taken(req[w], s)
      PROVE  weight'[s] >= 0
  <2>1. /\ Taken(req[w], s) \in Int
        /\ Taken(req[w], s) = 0 \/ Taken(req[w], s) <= weight[s]
    BY <1>3, Unexcused
  <2> QED BY <1>1, <1>2, <1>3, <2>1
<1>4. ASSUME NEW w \in Workers, CommitComplete(w)
      PROVE  weight'[s] >= 0
  <2>1. CASE Fails(w)
    BY <1>1, <2>1 DEF Fails, stored
  <2>2. CASE ~Fails(w)
    <3>1. weight'[s] = weight[s] - Taken(req[w], s)
      BY <1>4, <2>2, CompletionMatches
    <3>2. req[w].pc = "commit" /\ req[w].op = "complete" /\ Ends(w)
      BY <1>4, <2>2 DEF CommitComplete, At
    <3> QED BY <1>3, <3>1, <3>2
  <2> QED BY <2>1, <2>2
<1>5. ASSUME NEW w \in Workers, CommitStop(w)
      PROVE  weight'[s] >= 0
  <2>1. \/ weight'[s] = weight[s]
        \/ /\ weight'[s] = weight[s] - Taken(req[w], s)
           /\ Ends(w) /\ req[w].pc = "commit" /\ req[w].op \in Stops
    BY <1>5, Stopped DEF TypesHold
  <2> QED BY <1>1, <1>3, <2>1
<1>6. ASSUME NEW x \in Spools, NEW y \in Readings, SetWeight(x, y)
      PROVE  weight'[s] >= 0
  BY <1>1, <1>6 DEF SetWeight, TypesHold, TypeOK
<1>7. CASE UNCHANGED <<weight, trail, recorded>>
  BY <1>1, <1>7
<1> QED BY <1>4, <1>5, <1>6, <1>7, OtherSteps

\* Nothing is completed or on a spool at first.
LEMMA OpeningMatches ==
    ASSUME ProductionRunAssumption, Init
    PROVE  SpoolsMatchRuns /\ NeverNegative
<1>1. ASSUME NEW s \in Spools PROVE UsedBy(status, material, s) = 0
  <2>1. On(material, s) = {}
    BY DEF Init, On, NoRows, NoRow, ProductionRunAssumption
  <2>2. /\ Units(material, CompletedOn(status, material, s)) = {}
        /\ UnitsBack(material, CompletedOn(status, material, s)) = {}
    BY <2>1 DEF CompletedOn, Recorded, Units, UnitsBack
  <2> QED BY <2>2, FS_EmptySet DEF UsedBy, Net
<1>2. \A s \in Spools : weight[s] = Opening[s] /\ trail[s] = 0 /\ Opening[s] \in Nat
  BY DEF Init, Nothing, ProductionRunAssumption
<1>3. SpoolsMatchRuns
  BY <1>1, <1>2 DEF SpoolsMatchRuns
<1> QED BY <1>2, <1>3 DEF NeverNegative

\* The filament that left a spool is what completed runs used of it and what
\* the transactions of stopped runs record, unless a request committed over
\* what it had not read: no run takes twice, and none is completed without.
THEOREM SpoolsAccounted == Spec => []SpoolsMatchRuns
<1> DEFINE IInv == TypesHold /\ SpoolsMatchRuns
<1>1. Init => IInv
  BY TypeInit, OpeningMatches, ProductionRunAssumption DEF TypesHold
<1>2. IInv /\ [Next]_vars => IInv'
  BY TypeNext, MatchStep, ProductionRunAssumption DEF TypesHold
<1> QED BY <1>1, <1>2, PTL DEF Spec

\* Nor does a request take more of a spool than it has: what is checked is the
\* sum over the rows that name the spool, and what was read is what there is.
THEOREM NoOverdraft == Spec => []NeverNegative
<1> DEFINE IInv == TypesHold /\ NeverNegative
<1>1. Init => IInv
  BY TypeInit, OpeningMatches, ProductionRunAssumption DEF TypesHold
<1>2. IInv /\ [Next]_vars => IInv'
  BY TypeNext, NonNegativeStep, ProductionRunAssumption DEF TypesHold
<1> QED BY <1>1, <1>2, PTL DEF Spec

-----------------------------------------------------------------------------
\* A request that has got past its read is for a plate; one that is about to
\* commit read a status that its endpoint goes on with.
PlateInPlace(r) ==
    /\ r.pc \in {"read", "commit"} => r.plate \in Plates /\ r.op \in DOMAIN From
    /\ r.pc = "refresh" => r.plate \in Plates
    /\ r.pc = "commit" =>
         /\ r.seen \in From[r.op]
         /\ r.op = "patch" => r.new \in PlateStatuses
         /\ r.op # "patch" => r.new = PlateResult[r.op]
PlateRequestsInPlace == \A w \in PlateWorkers : PlateInPlace(plateReq[w])

\* What an undisturbed request has counted is what there is.
CountedRight ==
    \A w \in PlateWorkers \ disturbed :
        /\ plateReq[w].pc \in {"count", "store"} => plateReq[w].total = Cardinality(Stored)
        /\ plateReq[w].pc = "store" => plateReq[w].completed = Cardinality(Complete)

PlatesInv == PlatesTypeOK /\ PlateRequestsInPlace /\ CountedRight /\ CountsSettle

-----------------------------------------------------------------------------
LEMMA PlateOps == DOMAIN From = {"start", "complete", "fail", "cancel", "patch", "delete"}
BY DEF From

LEMMA PlateIdleType == PlateIdle \in PlateRequest /\ PlateInPlace(PlateIdle)
BY DEF PlateIdle, PlateRequest, PlateInPlace

LEMMA CountsAreNumbers ==
    ASSUME RunPlatesAssumption
    PROVE  Cardinality(Stored) \in Nat /\ Cardinality(Complete) \in Nat
<1>1. Stored \subseteq Plates /\ Complete \subseteq Plates
  BY DEF Stored, Complete
<1>2. IsFiniteSet(Plates)
  BY DEF RunPlatesAssumption
<1> QED BY <1>1, <1>2, FS_Subset, FS_CardinalityType

\* The results are statuses, or that the row is gone.
LEMMA PlateResultType ==
    ASSUME NEW op \in DOMAIN From, op # "patch"
    PROVE  PlateResult[op] \in PlateStatuses \cup {"none"}
BY PlateOps DEF PlateResult, PlateStatuses

\* A complete plate is what only PATCH and DELETE go on with.
LEMMA FromComplete ==
    ASSUME NEW op \in DOMAIN From, "complete" \in From[op]
    PROVE  op \in {"patch", "delete"}
BY PlateOps DEF From, PlateStatuses

LEMMA FromStored == ASSUME NEW op \in DOMAIN From PROVE From[op] \subseteq PlateStatuses
BY PlateOps DEF From, PlateStatuses

-----------------------------------------------------------------------------
LEMMA PlatesInitInv == PlatesInit => PlatesInv
<1> SUFFICES ASSUME PlatesInit PROVE PlatesInv
  OBVIOUS
<1> USE DEF PlatesInit
<1>1. PlatesTypeOK
  BY PlateIdleType DEF PlatesTypeOK
<1>2. PlateRequestsInPlace
  BY PlateIdleType DEF PlateRequestsInPlace
<1>3. CountedRight
  BY DEF CountedRight, PlateIdle
<1>4. CountsSettle
  <2>1. Stored = {} /\ Complete = {}
    BY DEF Stored, Complete
  <2> QED BY <2>1, FS_EmptySet DEF CountsSettle
<1> QED BY <1>1, <1>2, <1>3, <1>4 DEF PlatesInv

-----------------------------------------------------------------------------
\* One request changes to something well placed.
LEMMA PlateReplaced ==
    ASSUME PlatesTypeOK, PlateRequestsInPlace, NEW w \in PlateWorkers, NEW r \in PlateRequest,
           PlateInPlace(r), PlateBecomes(w, r)
    PROVE  plateReq' \in [PlateWorkers -> PlateRequest] /\ PlateRequestsInPlace'
BY DEF PlatesTypeOK, PlateRequestsInPlace, PlateBecomes

LEMMA PlateTypes ==
    ASSUME RunPlatesAssumption, PlatesTypeOK, PlateRequestsInPlace,
           [PlatesNext]_plateVars
    PROVE  PlatesTypeOK' /\ PlateRequestsInPlace'
<1>1. ASSUME UNCHANGED plateVars PROVE PlatesTypeOK' /\ PlateRequestsInPlace'
  BY <1>1 DEF plateVars, counts, PlatesTypeOK, PlateRequestsInPlace, PlateInPlace
<1>2. ASSUME NEW w \in PlateWorkers, NEW op \in DOMAIN From, NEW q \in Plates, CallPlate(w, op, q)
      PROVE  PlatesTypeOK' /\ PlateRequestsInPlace'
  <2> DEFINE r == [PlateIdle EXCEPT !.pc = "read", !.op = op, !.plate = q]
  <2>1. r \in PlateRequest /\ PlateInPlace(r)
    BY DEF PlateIdle, PlateRequest, PlateInPlace
  <2>2. plateReq' \in [PlateWorkers -> PlateRequest] /\ PlateRequestsInPlace'
    <3> HIDE DEF r
    <3>1. PlateBecomes(w, r)
      BY <1>2 DEF CallPlate, r
    <3> QED BY <2>1, <3>1, PlateReplaced
  <2> QED BY <1>2, <2>2 DEF CallPlate, PlatesTypeOK, counts
<1>3. ASSUME NEW w \in PlateWorkers, NEW q \in Plates, NEW st \in Created, CreatePlate(w, q, st)
      PROVE  PlatesTypeOK' /\ PlateRequestsInPlace'
  <2> DEFINE r == [PlateIdle EXCEPT !.pc = "refresh", !.op = "create", !.plate = q]
  <2>1. r \in PlateRequest /\ PlateInPlace(r)
    BY DEF PlateIdle, PlateRequest, PlateInPlace
  <2>2. plateReq' \in [PlateWorkers -> PlateRequest] /\ PlateRequestsInPlace'
    <3> HIDE DEF r
    <3>1. PlateBecomes(w, r)
      BY <1>3 DEF CreatePlate, r
    <3> QED BY <2>1, <3>1, PlateReplaced
  <2>3. plate' \in [Plates -> PlateStatuses \cup {"none"}] /\ disturbed' \subseteq PlateWorkers
    BY <1>3 DEF RunPlatesAssumption, CreatePlate, Changes, Counting, PlatesTypeOK
  <2> QED BY <1>3, <2>2, <2>3 DEF CreatePlate, PlatesTypeOK, counts
<1>4. ASSUME NEW w \in PlateWorkers, Read(w) PROVE PlatesTypeOK' /\ PlateRequestsInPlace'
  <2>1. plateReq[w] \in PlateRequest /\ PlateInPlace(plateReq[w]) /\ plateReq[w].pc = "read"
    BY <1>4 DEF Read, PlateAt, PlatesTypeOK, PlateRequestsInPlace
  <2>2. \E r \in PlateRequest : PlateInPlace(r) /\ PlateBecomes(w, r)
    <3>1. CASE plate[plateReq[w].plate] \in From[plateReq[w].op]
      <4>1. PICK new \in (IF plateReq[w].op = "patch" THEN PlateStatuses
                           ELSE {PlateResult[plateReq[w].op]}) :
                PlateBecomes(w, [plateReq[w] EXCEPT !.seen = plate[plateReq[w].plate],
                                                    !.new = new, !.pc = "commit"])
        BY <1>4, <3>1 DEF Read
      <4> DEFINE r == [plateReq[w] EXCEPT !.seen = plate[plateReq[w].plate], !.new = new,
                                      !.pc = "commit"]
      <4>2. new \in PlateStatuses \cup {"none"}
        BY <2>1, PlateResultType DEF PlateInPlace
      <4>3. plate[plateReq[w].plate] \in PlateStatuses
        BY <2>1, <3>1, FromStored DEF PlateInPlace
      <4>4. r \in PlateRequest
        BY <2>1, <4>2, <4>3 DEF PlateRequest
      <4>5. PlateInPlace(r)
        BY <2>1, <3>1 DEF PlateInPlace, PlateRequest
      <4> QED BY <4>1, <4>4, <4>5
    <3>2. CASE plate[plateReq[w].plate] \notin From[plateReq[w].op]
      BY <1>4, <3>2, PlateIdleType DEF Read
    <3> QED BY <3>1, <3>2
  <2>3. plateReq' \in [PlateWorkers -> PlateRequest] /\ PlateRequestsInPlace'
    BY <2>2, PlateReplaced
  <2> QED BY <1>4, <2>3 DEF Read, PlatesTypeOK, counts
<1>5. ASSUME NEW w \in PlateWorkers, Commit(w) PROVE PlatesTypeOK' /\ PlateRequestsInPlace'
  <2>1. plateReq[w] \in PlateRequest /\ PlateInPlace(plateReq[w]) /\ plateReq[w].pc = "commit"
    BY <1>5 DEF Commit, PlateAt, PlatesTypeOK, PlateRequestsInPlace
  <2>2. plateReq[w].new \in PlateStatuses \cup {"none"}
    BY <2>1 DEF PlateRequest
  <2> DEFINE onward == [plateReq[w] EXCEPT !.pc = "refresh", !.new = "none"]
             counting == [PlateIdle EXCEPT !.pc = "total"]
  <2>3. onward \in PlateRequest /\ PlateInPlace(onward) /\ counting \in PlateRequest /\ PlateInPlace(counting)
    BY <2>1 DEF PlateRequest, PlateInPlace, PlateIdle
  <2>4. \E r \in PlateRequest : PlateInPlace(r) /\ PlateBecomes(w, r)
    <3> HIDE DEF onward, counting
    <3>1. PlateBecomes(w, onward) \/ PlateBecomes(w, counting) \/ PlateBecomes(w, PlateIdle)
      BY <1>5 DEF Commit, GoesOn, GoesCounting, onward, counting
    <3> QED BY <2>3, <3>1, PlateIdleType
  <2>5. plateReq' \in [PlateWorkers -> PlateRequest] /\ PlateRequestsInPlace'
    BY <2>4, PlateReplaced
  <2>6. plate' \in [Plates -> PlateStatuses \cup {"none"}] /\ disturbed' \subseteq PlateWorkers /\ torn' \in BOOLEAN
    BY <1>5, <2>2 DEF Commit, Changes, Counting, PlatesTypeOK
  <2> QED BY <1>5, <2>5, <2>6 DEF Commit, PlatesTypeOK, counts
<1>6. ASSUME NEW w \in PlateWorkers, Refresh(w) PROVE PlatesTypeOK' /\ PlateRequestsInPlace'
  <2> DEFINE counting == [PlateIdle EXCEPT !.pc = "total"]
  <2>1. counting \in PlateRequest /\ PlateInPlace(counting)
    BY DEF PlateRequest, PlateInPlace, PlateIdle
  <2>2. \E r \in PlateRequest : PlateInPlace(r) /\ PlateBecomes(w, r)
    <3> HIDE DEF counting
    <3>1. PlateBecomes(w, counting) \/ PlateBecomes(w, PlateIdle)
      BY <1>6 DEF Refresh, GoesCounting, counting
    <3> QED BY <2>1, <3>1, PlateIdleType
  <2>3. plateReq' \in [PlateWorkers -> PlateRequest] /\ PlateRequestsInPlace'
    BY <2>2, PlateReplaced
  <2>4. torn' \in BOOLEAN
    BY <1>6 DEF Refresh, PlatesTypeOK
  <2> QED BY <1>6, <2>3, <2>4 DEF Refresh, PlatesTypeOK, counts
<1>7. ASSUME NEW w \in PlateWorkers, CountTotal(w) PROVE PlatesTypeOK' /\ PlateRequestsInPlace'
  <2> DEFINE r == [plateReq[w] EXCEPT !.total = Cardinality(Stored), !.pc = "count"]
  <2>1. r \in PlateRequest /\ PlateInPlace(r)
    BY CountsAreNumbers DEF PlatesTypeOK, PlateRequest, PlateInPlace
  <2>2. plateReq' \in [PlateWorkers -> PlateRequest] /\ PlateRequestsInPlace'
    <3> HIDE DEF r
    <3>1. PlateBecomes(w, r)
      BY <1>7 DEF CountTotal, r
    <3> QED BY <2>1, <3>1, PlateReplaced
  <2> QED BY <1>7, <2>2 DEF CountTotal, PlatesTypeOK, counts
<1>8. ASSUME NEW w \in PlateWorkers, CountCompleted(w) PROVE PlatesTypeOK' /\ PlateRequestsInPlace'
  <2> DEFINE r == [plateReq[w] EXCEPT !.completed = CountsComplete, !.pc = "store"]
  <2>1. r \in PlateRequest /\ PlateInPlace(r)
    BY CountsAreNumbers DEF PlatesTypeOK, PlateRequest, PlateInPlace, CountsComplete
  <2>2. plateReq' \in [PlateWorkers -> PlateRequest] /\ PlateRequestsInPlace'
    <3> HIDE DEF r
    <3>1. PlateBecomes(w, r)
      BY <1>8 DEF CountCompleted, r
    <3> QED BY <2>1, <3>1, PlateReplaced
  <2> QED BY <1>8, <2>2 DEF CountCompleted, PlatesTypeOK, counts
<1>9. ASSUME NEW w \in PlateWorkers, Store(w) PROVE PlatesTypeOK' /\ PlateRequestsInPlace'
  <2>1. plateReq' \in [PlateWorkers -> PlateRequest] /\ PlateRequestsInPlace'
    BY <1>9, PlateIdleType, PlateReplaced DEF Store
  <2>2. plateReq[w] \in PlateRequest
    BY DEF PlatesTypeOK
  <2>3. total' \in Nat /\ completed' \in Nat /\ torn' \in BOOLEAN
    BY <1>9, <2>2 DEF Store, PlateRequest
  <2> QED BY <1>9, <2>1, <2>3 DEF Store, PlatesTypeOK
<1>10. ASSUME NEW w \in PlateWorkers, AbortPlate(w) PROVE PlatesTypeOK' /\ PlateRequestsInPlace'
  <2>1. plateReq' \in [PlateWorkers -> PlateRequest] /\ PlateRequestsInPlace'
    BY <1>10, PlateIdleType, PlateReplaced DEF AbortPlate
  <2> QED BY <1>10, <2>1 DEF AbortPlate, PlatesTypeOK, counts
<1> QED
  BY <1>1, <1>2, <1>3, <1>4, <1>5, <1>6, <1>7, <1>8, <1>9, <1>10 DEF PlatesNext

-----------------------------------------------------------------------------
LEMMA SamePlates == plate' = plate => Stored' = Stored /\ Complete' = Complete
BY DEF Stored, Complete

\* A step that changes a plate makes every count in progress a disturbed one;
\* any other leaves the counts in progress right.
LEMMA CountedStep ==
    PlatesTypeOK /\ PlateRequestsInPlace /\ CountedRight /\ [PlatesNext]_plateVars => CountedRight'
<1> SUFFICES ASSUME PlatesTypeOK, PlateRequestsInPlace, CountedRight, [PlatesNext]_plateVars,
                    NEW v \in PlateWorkers, v \notin disturbed'
             PROVE  /\ plateReq'[v].pc \in {"count", "store"} => plateReq'[v].total = Cardinality(Stored')
                    /\ plateReq'[v].pc = "store" => plateReq'[v].completed = Cardinality(Complete')
  BY DEF CountedRight
<1> DEFINE Right == /\ plateReq'[v].pc \in {"count", "store"} => plateReq'[v].total = Cardinality(Stored')
                    /\ plateReq'[v].pc = "store" => plateReq'[v].completed = Cardinality(Complete')
           \* v goes on as it was, or is not counting.
           Kept == plateReq'[v] = plateReq[v] \/ plateReq'[v].pc \notin {"count", "store"}
<1>a. ASSUME plate' = plate, Kept, v \notin disturbed PROVE Right
  BY <1>a, SamePlates DEF CountedRight
<1>b. ASSUME disturbed' = disturbed \cup Counting, Kept PROVE Right
  BY <1>b DEF Counting
<1>1. CASE UNCHANGED plateVars
  BY <1>1, <1>a DEF plateVars
<1>2. ASSUME NEW w \in PlateWorkers, NEW op \in DOMAIN From, NEW q \in Plates,
             CallPlate(w, op, q)
      PROVE  Right
  BY <1>2, <1>a DEF CallPlate, PlateBecomes, PlateIdle, PlatesTypeOK
<1>3. ASSUME NEW w \in PlateWorkers, NEW q \in Plates, NEW st \in Created,
             CreatePlate(w, q, st)
      PROVE  Right
  BY <1>3, <1>b DEF CreatePlate, Changes, PlateBecomes, PlateIdle, PlatesTypeOK
<1>4. ASSUME NEW w \in PlateWorkers, Read(w) PROVE Right
  <2>1. \E r : r.pc \in {"commit", "idle"} /\ PlateBecomes(w, r)
    <3>1. plateReq[w] \in PlateRequest
      BY DEF PlatesTypeOK
    <3>2. CASE plate[plateReq[w].plate] \in From[plateReq[w].op]
      <4>1. PICK new \in (IF plateReq[w].op = "patch" THEN PlateStatuses
                           ELSE {PlateResult[plateReq[w].op]}) :
                PlateBecomes(w, [plateReq[w] EXCEPT !.seen = plate[plateReq[w].plate],
                                                    !.new = new, !.pc = "commit"])
        BY <1>4, <3>2 DEF Read
      <4> DEFINE r == [plateReq[w] EXCEPT !.seen = plate[plateReq[w].plate], !.new = new,
                                      !.pc = "commit"]
      <4>2. r.pc = "commit"
        BY <3>1 DEF PlateRequest
      <4> HIDE DEF r
      <4>3. PlateBecomes(w, r)
        BY <4>1 DEF r
      <4> QED BY <4>2, <4>3
    <3>3. CASE plate[plateReq[w].plate] \notin From[plateReq[w].op]
      BY <1>4, <3>3 DEF Read, PlateIdle
    <3> QED BY <3>2, <3>3
  <2>2. Kept
    BY <2>1 DEF PlateBecomes, PlatesTypeOK
  <2> QED BY <1>4, <2>2, <1>a DEF Read
<1>5. ASSUME NEW w \in PlateWorkers, Commit(w) PROVE Right
  <2>1. Kept
    <3>1. plateReq[w] \in PlateRequest
      BY DEF PlatesTypeOK
    <3>2. \E r : r.pc \in {"refresh", "total", "idle"} /\ PlateBecomes(w, r)
      <4>1. GoesOn(w) \/ GoesCounting(w) \/ PlateBecomes(w, PlateIdle)
        BY <1>5 DEF Commit
      <4> DEFINE onward == [plateReq[w] EXCEPT !.pc = "refresh", !.new = "none"]
                 counting == [PlateIdle EXCEPT !.pc = "total"]
      <4>2. onward.pc = "refresh" /\ counting.pc = "total" /\ PlateIdle.pc = "idle"
        BY <3>1 DEF PlateRequest, PlateIdle
      <4> HIDE DEF onward, counting
      <4>3. PlateBecomes(w, onward) \/ PlateBecomes(w, counting) \/ PlateBecomes(w, PlateIdle)
        BY <4>1 DEF GoesOn, GoesCounting, onward, counting
      <4> QED BY <4>2, <4>3
    <3> QED BY <3>2 DEF PlateBecomes, PlatesTypeOK
  <2>2. \/ disturbed' = disturbed \cup Counting
        \/ plate' = plate /\ disturbed' = disturbed
    BY <1>5 DEF Commit, Changes
  <2> QED BY <2>1, <2>2, <1>a, <1>b
<1>6. ASSUME NEW w \in PlateWorkers, Refresh(w) PROVE Right
  BY <1>6, <1>a DEF Refresh, GoesCounting, PlateBecomes, PlateIdle, PlatesTypeOK
<1>7. ASSUME NEW w \in PlateWorkers, CountTotal(w) PROVE Right
  <2>1. CASE v = w
    BY <1>7, <2>1, SamePlates DEF CountTotal, PlateBecomes, PlatesTypeOK, PlateRequest
  <2>2. CASE v # w
    BY <1>7, <2>2, <1>a DEF CountTotal, PlateBecomes, PlatesTypeOK
  <2> QED BY <2>1, <2>2
<1>8. ASSUME NEW w \in PlateWorkers, CountCompleted(w) PROVE Right
  <2>1. CASE v = w
    BY <1>8, <2>1, SamePlates
       DEF CountCompleted, CountsComplete, PlateAt, PlateBecomes, PlatesTypeOK,
           PlateRequest, CountedRight
  <2>2. CASE v # w
    BY <1>8, <2>2, <1>a DEF CountCompleted, PlateBecomes, PlatesTypeOK
  <2> QED BY <2>1, <2>2
<1>9. ASSUME NEW w \in PlateWorkers, Store(w) PROVE Right
  BY <1>9, <1>a DEF Store, PlateBecomes, PlateIdle, PlatesTypeOK
<1>10. ASSUME NEW w \in PlateWorkers, AbortPlate(w) PROVE Right
  BY <1>10, <1>a DEF AbortPlate, PlateBecomes, PlateIdle, PlatesTypeOK
<1> QED
  BY <1>1, <1>2, <1>3, <1>4, <1>5, <1>6, <1>7, <1>8, <1>9, <1>10 DEF PlatesNext

-----------------------------------------------------------------------------
Settled == ~torn /\ \A w \in PlateWorkers : ~Owes(plateReq[w])

\* When plates stay as they are and one request changes, the others owe what
\* they owed.
LEMMA OthersOwe ==
    ASSUME PlatesTypeOK, NEW w \in PlateWorkers, NEW r, PlateBecomes(w, r), plate' = plate,
           Settled', torn => torn', ~Owes(plateReq[w])
    PROVE  Settled
<1>1. ASSUME NEW v \in PlateWorkers, v # w PROVE ~Owes(plateReq[v])
  <2>1. plateReq'[v] = plateReq[v]
    BY <1>1 DEF PlateBecomes, PlatesTypeOK
  <2>2. ~(Owes(plateReq[v]))'
    BY DEF Settled
  <2> QED BY <2>1, <2>2 DEF Settled, Owes, MustCount
<1> QED BY <1>1 DEF Settled

LEMMA SettledStep == PlatesInv /\ CountedRight' /\ [PlatesNext]_plateVars => CountsSettle'
<1> SUFFICES ASSUME PlatesInv, [PlatesNext]_plateVars, Settled'
             PROVE  total' = Cardinality(Stored') /\ completed' = Cardinality(Complete')
  BY DEF CountsSettle, Settled
<1> USE DEF PlatesInv
<1> DEFINE Right == total' = Cardinality(Stored') /\ completed' = Cardinality(Complete')
\* A step of w that changes neither plates nor counts, when w owed nothing.
<1>a. ASSUME NEW w \in PlateWorkers, NEW r, PlateBecomes(w, r), plate' = plate, UNCHANGED counts,
             torn => torn', ~Owes(plateReq[w])
      PROVE  Right
  <2>1. Settled
    BY <1>a, OthersOwe
  <2> QED BY <2>1, <1>a, SamePlates DEF CountsSettle, Settled, counts
<1>b. ASSUME NEW w \in PlateWorkers, (Owes(plateReq[w]))' PROVE FALSE
  BY <1>b DEF Settled
<1>1. CASE UNCHANGED plateVars
  BY <1>1, SamePlates
  DEF plateVars, counts, CountsSettle, Settled, Owes, MustCount
<1>2. ASSUME NEW w \in PlateWorkers, NEW op \in DOMAIN From, NEW q \in Plates,
             CallPlate(w, op, q)
      PROVE  Right
  <2>1. ~Owes(plateReq[w])
    BY <1>2 DEF CallPlate, PlateAt, Owes
  <2> DEFINE r == [PlateIdle EXCEPT !.pc = "read", !.op = op, !.plate = q]
  <2> HIDE DEF r
  <2>2. PlateBecomes(w, r)
    BY <1>2 DEF CallPlate, r
  <2> QED BY <1>2, <2>1, <2>2, <1>a DEF CallPlate
<1>3. ASSUME NEW w \in PlateWorkers, NEW q \in Plates, NEW st \in Created,
             CreatePlate(w, q, st)
      PROVE  Right
  <2>1. plateReq'[w].pc = "refresh" /\ plateReq'[w].op = "create"
    BY <1>3 DEF CreatePlate, PlateBecomes, PlatesTypeOK, PlateIdle
  <2> QED BY <2>1, <1>b DEF Owes, MustCount, AlwaysCounts
<1>4. ASSUME NEW w \in PlateWorkers, Read(w) PROVE Right
  <2>1. ~Owes(plateReq[w])
    BY <1>4 DEF Read, PlateAt, Owes
  <2>2. \E r : PlateBecomes(w, r)
    BY <1>4 DEF Read
  <2> QED BY <1>4, <2>1, <2>2, <1>a DEF Read
<1>5. ASSUME NEW w \in PlateWorkers, Commit(w) PROVE Right
  <2> DEFINE q == plateReq[w].plate
             onward == [plateReq[w] EXCEPT !.pc = "refresh", !.new = "none"]
  <2>1. plateReq[w] \in PlateRequest /\ PlateInPlace(plateReq[w]) /\ plateReq[w].pc = "commit" /\ q \in Plates
    BY <1>5 DEF Commit, PlateAt, PlatesTypeOK, PlateRequestsInPlace, PlateInPlace
  <2>2. ~Owes(plateReq[w])
    BY <2>1 DEF Owes
  <2>3. CASE plateReq[w].op = "delete"
    <3>1. plateReq'[w].pc = "total"
      BY <1>5, <2>3 DEF Commit, GoesCounting, PlateBecomes, PlateIdle, PlatesTypeOK
    <3> QED BY <3>1, <1>b DEF Owes
  <2>4. CASE plateReq[w].op # "delete" /\ plate[q] = "none"
    <3>1. PlateBecomes(w, PlateIdle) /\ plate' = plate /\ torn' = torn
      BY <1>5, <2>4 DEF Commit
    <3> QED BY <1>5, <2>2, <3>1, <1>a DEF Commit
  <2>5. CASE plateReq[w].op # "delete" /\ plate[q] # "none" /\ plateReq[w].new = plateReq[w].seen
    <3>1. GoesOn(w) /\ plate' = plate /\ torn' = torn
      BY <1>5, <2>5 DEF Commit
    <3>2. PlateBecomes(w, onward)
      BY <3>1 DEF GoesOn
    <3> HIDE DEF onward
    <3> QED BY <1>5, <2>2, <3>1, <3>2, <1>a DEF Commit
  <2>6. CASE plateReq[w].op # "delete" /\ plate[q] # "none" /\ plateReq[w].new # plateReq[w].seen
    <3>1. /\ plate' = [plate EXCEPT ![q] = plateReq[w].new]
          /\ torn' = (torn \/ plate[q] # plateReq[w].seen)
          /\ GoesOn(w)
      BY <1>5, <2>6 DEF Commit, Changes
    <3>2. ~torn /\ plate[q] = plateReq[w].seen /\ plate'[q] = plateReq[w].new
      BY <2>1, <3>1 DEF Settled, PlatesTypeOK
    <3>3. plateReq'[w] = onward
      BY <3>1 DEF GoesOn, PlateBecomes, PlatesTypeOK
    <3>4. onward.pc = "refresh" /\ onward.op = plateReq[w].op /\ onward.plate = q /\ onward.seen = plateReq[w].seen
      BY <2>1 DEF PlateRequest
    <3>5. ~(MustCount(plateReq[w]))'
      BY <3>3, <3>4, <1>b DEF Owes
    <3>6. /\ plateReq[w].op \in {"start", "fail", "patch"}
          /\ plateReq[w].op = "patch" => (plate'[q] = "complete" <=> plate[q] = "complete")
      BY <2>1, <2>6, <3>2, <3>3, <3>4, <3>5, PlateOps DEF MustCount, AlwaysCounts, PlateInPlace
    <3>7. (plate'[q] = "complete" <=> plate[q] = "complete") /\ plate'[q] # "none"
      <4>1. CASE plateReq[w].op = "patch"
        BY <2>1, <3>2, <3>6, <4>1 DEF PlateInPlace, PlateStatuses
      <4>2. CASE plateReq[w].op \in {"start", "fail"}
        BY <2>1, <3>2, <4>2 DEF PlateInPlace, From, PlateResult, PlateStatuses
      <4> QED BY <3>6, <4>1, <4>2
    <3>8. \A p \in Plates : /\ plate'[p] = "complete" <=> plate[p] = "complete"
                            /\ plate'[p] = "none" <=> plate[p] = "none"
      BY <2>6, <3>1, <3>7 DEF PlatesTypeOK
    <3>9. Stored' = Stored /\ Complete' = Complete
      BY <3>8 DEF Stored, Complete
    <3>10. ASSUME NEW v \in PlateWorkers, Owes(plateReq[v]) PROVE FALSE
      <4>1. v # w
        BY <3>10, <2>2
      <4>2. plateReq'[v] = plateReq[v]
        BY <3>1, <4>1 DEF GoesOn, PlateBecomes, PlatesTypeOK
      <4>3. plateReq[v].pc = "refresh" => plateReq[v].plate \in Plates
        BY DEF PlateRequestsInPlace, PlateInPlace
      <4>4. (Owes(plateReq[v]))'
        BY <3>10, <3>8, <4>2, <4>3 DEF Owes, MustCount
      <4> QED BY <4>4, <1>b
    <3> QED BY <1>5, <3>2, <3>9, <3>10 DEF Commit, CountsSettle, counts
  <2> QED BY <2>3, <2>4, <2>5, <2>6
<1>6. ASSUME NEW w \in PlateWorkers, Refresh(w) PROVE Right
  <2>1. plateReq[w] \in PlateRequest /\ plateReq[w].pc = "refresh"
    BY <1>6 DEF Refresh, PlateAt, PlatesTypeOK
  <2>2. CASE plate[plateReq[w].plate] # "none" /\ MustCount(plateReq[w])
    <3>1. plateReq'[w].pc = "total"
      BY <1>6, <2>2 DEF Refresh, GoesCounting, PlateBecomes, PlateIdle, PlatesTypeOK
    <3> QED BY <3>1, <1>b DEF Owes
  <2>3. CASE ~MustCount(plateReq[w])
    <3>1. ~Owes(plateReq[w])
      BY <2>1, <2>3 DEF Owes
    <3>2. PlateBecomes(w, PlateIdle)
      BY <1>6, <2>3 DEF Refresh
    <3> QED BY <1>6, <3>1, <3>2, <1>a DEF Refresh
  <2>4. CASE plate[plateReq[w].plate] = "none" /\ MustCount(plateReq[w])
    BY <1>6, <2>4 DEF Refresh, Settled
  <2> QED BY <2>2, <2>3, <2>4
<1>7. ASSUME NEW w \in PlateWorkers, CountTotal(w) PROVE Right
  <2>1. plateReq'[w].pc = "count"
    BY <1>7 DEF CountTotal, PlateBecomes, PlatesTypeOK, PlateRequest
  <2> QED BY <2>1, <1>b DEF Owes
<1>8. ASSUME NEW w \in PlateWorkers, CountCompleted(w) PROVE Right
  <2>1. plateReq'[w].pc = "store"
    BY <1>8 DEF CountCompleted, PlateBecomes, PlatesTypeOK, PlateRequest
  <2> QED BY <2>1, <1>b DEF Owes
<1>9. ASSUME NEW w \in PlateWorkers, Store(w) PROVE Right
  <2>1. w \notin disturbed
    BY <1>9 DEF Store, Settled
  <2> QED BY <1>9, <2>1, SamePlates DEF Store, PlateAt, CountedRight
<1>10. ASSUME NEW w \in PlateWorkers, AbortPlate(w) PROVE Right
  <2>1. ~Owes(plateReq[w])
    BY <1>10 DEF AbortPlate, Settled
  <2> QED BY <1>10, <2>1, <1>a DEF AbortPlate
<1> QED
  BY <1>1, <1>2, <1>3, <1>4, <1>5, <1>6, <1>7, <1>8, <1>9, <1>10 DEF PlatesNext

LEMMA PlatesStep ==
    RunPlatesAssumption /\ PlatesInv /\ [PlatesNext]_plateVars => PlatesInv'
BY PlateTypes, CountedStep, SettledStep DEF PlatesInv

-----------------------------------------------------------------------------
LEMMA PlatesInductive == PlatesSpec => []PlatesInv
<1>1. PlatesInv /\ [PlatesNext]_plateVars => PlatesInv'
  BY PlatesStep, RunPlatesAssumption
<1> QED BY PlatesInitInv, <1>1, PTL DEF PlatesSpec

\* Every status, count and request stays of its type (the whole of
\* production_run_plate_service.py, and the endpoints' statuses).
THEOREM PlatesTypeCorrect == PlatesSpec => []PlatesTypeOK
<1>1. PlatesInv => PlatesTypeOK
  BY DEF PlatesInv
<1> QED BY <1>1, PlatesInductive, PTL

\* When no request is about to store the counts of a run, they are those of
\* its plates, unless a request was cut short, overtaken or counted while
\* plates changed (_update_run_plate_counts and those who call it).
THEOREM CountsSettled == PlatesSpec => []CountsSettle
<1>1. PlatesInv => CountsSettle
  BY DEF PlatesInv
<1> QED BY <1>1, PlatesInductive, PTL

\* A complete plate gets no other status but by PATCH, or by a request that had
\* read it before it was complete.
THEOREM CompletePlatesStay == PlatesSpec => CompleteStays
<1> DEFINE Kept == \A q \in Plates :
         (plate[q] = "complete" /\ plate'[q] \notin {"complete", "none"})
             => \E w \in PlateWorkers : /\ plateReq[w].pc = "commit" /\ plateReq[w].plate = q
                                        /\ plateReq[w].op = "patch" \/ plateReq[w].seen # "complete"
<1>1. PlatesInv /\ [PlatesNext]_plateVars => [Kept]_plateVars
  <2> SUFFICES ASSUME PlatesInv, [PlatesNext]_plateVars, NEW q \in Plates,
                      plate[q] = "complete", plate'[q] \notin {"complete", "none"}
               PROVE  \E w \in PlateWorkers : /\ plateReq[w].pc = "commit" /\ plateReq[w].plate = q
                                              /\ plateReq[w].op = "patch" \/ plateReq[w].seen # "complete"
    OBVIOUS
  <2> USE DEF PlatesInv
  <2>1. PICK w \in PlateWorkers : Commit(w) \/ \E p \in Plates, st \in Created : CreatePlate(w, p, st)
    BY DEF PlatesNext, plateVars, CallPlate, Read, Refresh, CountTotal,
           CountCompleted, Store, AbortPlate
  <2>2. Commit(w)
    BY <2>1 DEF CreatePlate, Changes, PlatesTypeOK
  <2>3. plateReq[w] \in PlateRequest /\ PlateInPlace(plateReq[w]) /\ plateReq[w].pc = "commit"
    BY <2>2 DEF Commit, PlateAt, PlatesTypeOK, PlateRequestsInPlace
  <2>4. plateReq[w].plate = q /\ plateReq[w].op # "delete"
    BY <2>2, <2>3 DEF Commit, Changes, PlatesTypeOK, PlateInPlace
  <2>5. plateReq[w].op = "patch" \/ plateReq[w].seen # "complete"
    BY <2>3, <2>4, FromComplete DEF PlateInPlace
  <2> QED BY <2>3, <2>4, <2>5
<1> QED BY <1>1, PlatesInductive, PTL DEF PlatesSpec, CompleteStays
============================================================================
