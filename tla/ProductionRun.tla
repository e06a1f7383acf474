----------------------------- MODULE ProductionRun -----------------------------
(***************************************************************************)
(* Production runs and the filament they take from spools:                 *)
(* backend/app/api/v1/production_runs.py and the cancel and fail methods   *)
(* of backend/app/services/production_run.py.  A request reads the run,    *)
(* then its materials with their spools, and commits later, without a      *)
(* lock.  Cancelling and failing decrement the weight in SQL and leave an  *)
(* inventory transaction; completing writes the weight it computed from    *)
(* what it read and leaves none.  AMS synchronisation and the edit of a    *)
(* spool set the weight.                                                   *)
(***************************************************************************)
EXTENDS Integers, FiniteSets

CONSTANTS
    Runs, Spools, Workers,
    Materials,       \* the rows that production_run_materials may hold
    Opening,         \* Opening[s]: the weight of spool s at the beginning
    Usages,          \* the usages that rows may record; a spool that weighs
                     \* more afterwards than before was used less than nothing
    NoUsage,         \* a row with none recorded
    Amounts,         \* the weights that are reported as used or wasted
    Readings,        \* the weights that AMS or an edit sets
    Statuses         \* the statuses that POST and PATCH set

Closed == {"completed", "failed", "cancelled"}

ASSUME ProductionRunAssumption ==
    /\ IsFiniteSet(Materials)
    /\ Opening \in [Spools -> Nat]
    /\ Usages \subseteq Int /\ NoUsage \notin Usages
    /\ Amounts \subseteq Nat /\ Readings \subseteq Nat
    /\ Statuses \subseteq Closed \cup {"in_progress"}
    /\ Runs \cap Spools = {}
    /\ "none" \notin Runs \cup Spools \cup Materials

VARIABLES
    status,    \* production_runs.status; "none" for a run that is not stored
    material,  \* production_run_materials: the run, the spool, the actual usage
    weight,    \* spools.current_weight
    trail,     \* trail[s]: the sum of weight_change of the transactions of s
    req,       \* the request each worker runs
    recorded,  \* the spools whose weight changed with a transaction only
    loose      \* the runs and spools that a request changed although what it
               \* had read was no longer so, and the spools that were set, or
               \* whose use by completed runs was edited

stored == <<status, material, weight, trail>>
history == <<recorded, loose>>
vars == <<stored, req, history>>

NoRow == [run |-> "none", spool |-> "none", usage |-> NoUsage]
NoRows == [m \in Materials |-> NoRow]
Nothing == [s \in Spools |-> 0]
Idle == [pc |-> "idle", op |-> "none", run |-> "none", seen |-> "none", new |-> "none",
         material |-> "none", row |-> NoRow, rows |-> NoRows, weight |-> Nothing,
         reported |-> Nothing]

Becomes(w, r) == req' = [req EXCEPT ![w] = r]
At(w, pc) == req[w].pc = pc

\* The materials of run r, and those on a spool.
RowsOf(mt, r) == [m \in Materials |-> IF mt[m].run = r THEN mt[m] ELSE NoRow]
On(rows, s) == {m \in Materials : rows[m].spool = s}

\* The sum of what a set of rows used: a usage of n > 0 is the pairs <<m, 1>>
\* .. <<m, n>>, one of n < 0 gives back <<m, n>> .. <<m, -1>>.  What the rows
\* used of a spool, and those of completed runs.
Recorded(rows, S) == {m \in S : rows[m].usage # NoUsage}
Units(rows, S) == UNION {{m} \X (1..rows[m].usage) : m \in Recorded(rows, S)}
UnitsBack(rows, S) == UNION {{m} \X (rows[m].usage..-1) : m \in Recorded(rows, S)}
Net(rows, S) == Cardinality(Units(rows, S)) - Cardinality(UnitsBack(rows, S))
UsageOf(rows, s) == Net(rows, On(rows, s))
CompletedOn(st, mt, s) == {m \in On(mt, s) : st[mt[m].run] = "completed"}
UsedBy(st, mt, s) == Net(mt, CompletedOn(st, mt, s))

Init ==
    /\ status = [r \in Runs |-> "none"]
    /\ material = NoRows
    /\ weight = Opening
    /\ trail = Nothing
    /\ req = [w \in Workers |-> Idle]
    /\ recorded = Spools
    /\ loose = {}

-----------------------------------------------------------------------------
\* A request for a run; what is reported is per spool, as in MaterialUsageEntry.
\* A PATCH that keeps a run in progress writes no status.
Call(w, op, r, reported, new) ==
    /\ At(w, "idle")
    /\ op \notin {"cancel", "fail"} => reported = Nothing
    /\ IF op = "patch" THEN new \in Statuses \cap Closed ELSE new = "none"
    /\ Becomes(w, [Idle EXCEPT !.pc = "read", !.op = op, !.run = r, !.reported = reported, !.new = new])
    /\ UNCHANGED <<stored, history>>

\* A request for a row of a run: add, edit (spool or usage), remove.
CallMaterial(w, op, m, row) ==
    /\ At(w, "idle")
    /\ row.run # "none"
    /\ IF op = "add" THEN material[m] = NoRow ELSE material[m].run = row.run
    /\ op = "remove" => row = material[m]
    /\ Becomes(w, [Idle EXCEPT !.pc = "read", !.op = op, !.run = row.run, !.material = m, !.row = row])
    /\ UNCHANGED <<stored, history>>

\* The statuses of a run with which each endpoint goes on.
CompletesAgain(op, st) ==
    CASE op \in {"patch", "edit"}  -> st \notin Closed
      [] op = "delete"             -> st # "completed"
      [] op \in {"cancel", "fail"} -> st = "in_progress"
      [] OTHER -> TRUE
Accepts(op, st) ==
    CASE op \in {"patch", "edit"}      -> st \notin Closed
      [] op \in {"delete", "complete"} -> st # "completed"
      [] op \in {"cancel", "fail"}     -> st = "in_progress"
      [] OTHER -> TRUE

\* The run, in one query with the row where one is named.  A row that is added
\* needs some of its spool left.
ReadRun(w) ==
    LET r == req[w]
        exists == status[r.run] # "none" /\ (r.op \in {"edit", "remove"} => material[r.material].run = r.run)
        enough == r.op = "add" => weight[r.row.spool] > 0
    IN  /\ At(w, "read")
        /\ IF exists /\ enough /\ Accepts(r.op, status[r.run])
           THEN Becomes(w, [r EXCEPT !.seen = status[r.run],
                    !.rows = IF r.op = "edit" THEN RowsOf(material, r.run) ELSE NoRows,
                    !.pc = IF r.op \in {"complete", "cancel", "fail"} THEN "load" ELSE "commit"])
           ELSE Becomes(w, Idle)
        /\ UNCHANGED <<stored, history>>

\* What a request takes of a spool: completing what its rows say, cancelling
\* and failing what was reported, once for each row that names the spool.
Taken(r, s) ==
    IF r.op = "complete" THEN UsageOf(r.rows, s)
    ELSE r.reported[s] * Cardinality(On(r.rows, s))
Takes(r) == {s \in Spools : Taken(r, s) # 0}

\* No more is taken of a spool than it has, whatever rows name it.  Each row is
\* checked against what those before it left, in an order that is open: when
\* those that take leave enough by themselves, none is refused.
EnoughPerRow(r) ==
    \A m \in Materials : r.rows[m].spool \in Takes(r) =>
        (IF r.op = "complete" THEN r.rows[m].usage ELSE r.reported[r.rows[m].spool]) <= r.weight[r.rows[m].spool]
Enough(r) == \A s \in Takes(r) : Taken(r, s) <= r.weight[s]
InAnyOrder(r) ==
    \A s \in Spools : On(r.rows, s) # {} => Cardinality(Units(r.rows, On(r.rows, s))) <= r.weight[s]

\* The materials and their spools.  Refused when a row has no usage recorded,
\* or a spool has less left than is taken of it.
Load(w) ==
    LET r == [req[w] EXCEPT !.rows = RowsOf(material, req[w].run), !.weight = weight, !.pc = "commit"]
        weighed == r.op = "complete" => \A m \in Materials : r.rows[m] # NoRow => r.rows[m].usage # NoUsage
    IN  /\ At(w, "load")
        /\ \/ weighed /\ Enough(r) /\ Becomes(w, r)
           \/ /\ weighed /\ Enough(r) => r.op = "complete" /\ ~InAnyOrder(r)
              /\ Becomes(w, Idle)
        /\ UNCHANGED <<stored, history>>

-----------------------------------------------------------------------------
\* What a commit leaves to be excused: the run and its spools when the status
\* is no longer what was read, the spools whose weight is not, those of which a
\* completion takes what its rows no longer say, and those whose use by
\* completed runs another request changes.
Loosened(r) ==
    (IF status[r.run] = r.seen THEN {} ELSE {r.run} \cup Takes(r))
    \cup {s \in Takes(r) : weight[s] # r.weight[s]}
    \cup {s \in Spools : IF r.op = "complete" THEN UsageOf(RowsOf(material, r.run), s) # Taken(r, s)
                         ELSE UsedBy(status', material', s) # UsedBy(status, material, s)}
Ends(w) ==
    /\ loose' = loose \cup Loosened(req[w])
    /\ Becomes(w, Idle)

\* A row that is gone when it is written ends the request in an error.
Fails(w) ==
    /\ Becomes(w, Idle)
    /\ UNCHANGED <<stored, history>>

\* POST: the run with its materials.  Rows have fresh identities.
Named(m) == \E w \in Workers : req[w].material = m \/ req[w].rows[m] # NoRow
Free == {m \in Materials : material[m] = NoRow /\ ~Named(m)}
Rows(r) == [run : {r}, spool : {s \in Spools : weight[s] > 0}, usage : Usages \cup {NoUsage}]
Create(r, st, ms, rows) ==
    /\ status[r] = "none" /\ \A w \in Workers : req[w].run # r
    /\ status' = [status EXCEPT ![r] = st]
    /\ material' = [m \in Materials |-> IF m \in ms THEN rows[m] ELSE material[m]]
    /\ UNCHANGED <<weight, trail, req, recorded>>
    /\ loose' = loose \cup {s \in Spools : UsedBy(status', material', s) # UsedBy(status, material, s)}

\* PATCH of a run that was read in progress.
CommitPatch(w) ==
    LET r == req[w]
    IN  /\ At(w, "commit") /\ r.op = "patch"
        /\ IF status[r.run] = "none" THEN Fails(w)
           ELSE /\ status' = [status EXCEPT ![r.run] = r.new]
                /\ UNCHANGED <<material, weight, trail, recorded>>
                /\ Ends(w)

\* DELETE, with the rows; transactions stay.
CommitDelete(w) ==
    LET r == req[w]
    IN  /\ At(w, "commit") /\ r.op = "delete"
        /\ status' = [status EXCEPT ![r.run] = "none"]
        /\ material' = [m \in Materials |-> IF material[m].run = r.run THEN NoRow ELSE material[m]]
        /\ UNCHANGED <<weight, trail, recorded>>
        /\ Ends(w)

\* The materials' endpoints.  An edit writes what differs from what was read.
Written(r, m) ==
    LET now == material[m]
    IN  CASE r.op = "add"    -> r.row
          [] r.op = "remove" -> NoRow
          [] r.op = "edit"   ->
               [now EXCEPT !.spool = IF r.row.spool = r.rows[m].spool THEN @ ELSE r.row.spool,
                           !.usage = IF r.row.usage = r.rows[m].usage THEN @ ELSE r.row.usage]
CommitRow(w) ==
    LET r == req[w]
    IN  /\ At(w, "commit") /\ r.op \in {"add", "edit", "remove"}
        /\ IF status[r.run] = "none" \/ (r.op # "add" /\ material[r.material] = NoRow)
           THEN Fails(w)
           ELSE /\ material' = [material EXCEPT ![r.material] = Written(r, r.material)]
                /\ UNCHANGED <<status, weight, trail, recorded>>
                /\ Ends(w)

\* Complete: the weights that were read, less what is taken; no transaction.
CommitComplete(w) ==
    LET r == req[w]
    IN  /\ At(w, "commit") /\ r.op = "complete"
        /\ IF status[r.run] = "none" THEN Fails(w)
           ELSE /\ status' = [status EXCEPT ![r.run] = "completed"]
                /\ weight' = [s \in Spools |-> IF s \in Takes(r) THEN r.weight[s] - Taken(r, s) ELSE weight[s]]
                /\ recorded' = recorded \ Takes(r)
                /\ UNCHANGED <<material, trail>>
                /\ Ends(w)

\* Cancel (record_partial with what was reported, full_reversal with nothing)
\* and fail: UPDATE ... SET current_weight = current_weight - x, and a
\* transaction that refers to the row it is for.
ResultMisspelt == [cancel |-> "canceled", fail |-> "failed"]
Result == [cancel |-> "cancelled", fail |-> "failed"]
FromWhatWasRead(r, s) == r.weight[s] - Taken(r, s)
Decremented(r, s) == weight[s] - Taken(r, s)
CommitStop(w) ==
    LET r == req[w]
        for == {m \in Materials : r.rows[m].spool \in Takes(r)}
    IN  /\ At(w, "commit") /\ r.op \in DOMAIN Result
        /\ IF status[r.run] = "none" \/ \E m \in for : material[m] = NoRow THEN Fails(w)
           ELSE /\ status' = [status EXCEPT ![r.run] = Result[r.op]]
                /\ weight' = [s \in Spools |-> Decremented(r, s)]
                /\ trail' = [s \in Spools |-> trail[s] - Taken(r, s)]
                /\ UNCHANGED <<material, recorded>>
                /\ Ends(w)

\* The process dies, or an exception rolls the transaction back.
Abort(w) == ~At(w, "idle") /\ Fails(w)

\* AMS synchronisation, or the edit of a spool.
SetWeight(s, x) ==
    /\ weight' = [weight EXCEPT ![s] = x]
    /\ recorded' = recorded \ {s}
    /\ loose' = loose \cup {s}
    /\ UNCHANGED <<status, material, trail, req>>

Next ==
    \/ \E w \in Workers :
         \/ \E r \in Runs, new \in Statuses \cup {"none"}, reported \in [Spools -> Amounts \cup {0}],
               op \in {"patch", "delete", "complete", "cancel", "fail"} : Call(w, op, r, reported, new)
         \/ \E op \in {"add", "edit", "remove"}, m \in Free \cup {x \in Materials : material[x] # NoRow},
               r \in Runs : \E row \in Rows(r) \cup {material[m]} : CallMaterial(w, op, m, row)
         \/ ReadRun(w) \/ Load(w) \/ Abort(w)
         \/ CommitPatch(w) \/ CommitDelete(w) \/ CommitRow(w) \/ CommitComplete(w) \/ CommitStop(w)
    \/ \E r \in Runs, st \in Statuses, ms \in SUBSET Free : \E rows \in [ms -> Rows(r)] : Create(r, st, ms, rows)
    \/ \E s \in Spools, x \in Readings : SetWeight(s, x)

Spec == Init /\ [][Next]_vars

-----------------------------------------------------------------------------
Row == [run : Runs, spool : Spools, usage : Usages \cup {NoUsage}] \cup {NoRow}
Request == [pc : {"idle", "read", "load", "commit"},
            op : {"none", "patch", "delete", "complete", "cancel", "fail", "add", "edit", "remove"},
            run : Runs \cup {"none"}, seen : Closed \cup {"in_progress", "none"},
            new : Statuses \cup {"none"}, material : Materials \cup {"none"}, row : Row,
            rows : [Materials -> Row], weight : [Spools -> Int], reported : [Spools -> Amounts \cup {0}]]

TypeOK ==
    /\ status \in [Runs -> Closed \cup {"in_progress", "none"}]
    /\ material \in [Materials -> Row]
    /\ weight \in [Spools -> Int]
    /\ trail \in [Spools -> Int]
    /\ req \in [Workers -> Request]
    /\ recorded \subseteq Spools
    /\ loose \subseteq Runs \cup Spools

\* However requests overlap, a spool that no request set has the weight it had,
\* plus the changes that its inventory transactions record: two runs that are
\* stopped at once both take their filament, each with its transaction.
TrailAddsUp == \A s \in recorded : weight[s] = Opening[s] + trail[s]

\* Unless a request committed on what was no longer so, the filament that left
\* a spool is what completed runs used of it and what the transactions of
\* cancelled and failed runs record: no run takes twice, none is completed
\* without taking.
SpoolsMatchRuns ==
    \A s \in Spools \ loose : weight[s] = Opening[s] + trail[s] - UsedBy(status, material, s)

\* Nor is more taken of a spool than it has.
NeverNegative == \A s \in Spools \ loose : weight[s] >= 0
=============================================================================
