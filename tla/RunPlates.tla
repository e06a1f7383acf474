------------------------------- MODULE RunPlates -------------------------------
(***************************************************************************)
(* The plates of a production run:                                         *)
(* backend/app/services/production_run_plate_service.py behind the plate   *)
(* endpoints of backend/app/api/v1/production_runs.py.  A request reads    *)
(* the plate, commits its change, refreshes the plate, and then counts the *)
(* plates anew and stores the two counts in the run, in a transaction of   *)
(* its own.  What ProductionRun has under the same name is named after the *)
(* plates here, so that both modules can be extended by one.               *)
(***************************************************************************)
EXTENDS Naturals, FiniteSets

CONSTANTS
    Plates,      \* the rows that production_run_plates may hold for the run
    PlateWorkers,
    Created      \* the statuses with which plates are created

PlateStatuses == {"pending", "printing", "complete", "failed", "cancelled"}

ASSUME RunPlatesAssumption ==
    /\ IsFiniteSet(Plates)
    /\ Created \subseteq PlateStatuses

VARIABLES
    plate,      \* production_run_plates.status; "none" for a row that is not stored
    total,      \* production_runs.total_plates
    completed,  \* production_runs.completed_plates
    plateReq,   \* the request each worker runs
    disturbed,  \* the workers that count while a plate was changed
    torn        \* a request ended without counting what it changed, or counted
                \* while plates changed, or committed on what was no longer so;
                \* until a count that nothing disturbed

counts == <<total, completed>>
plateVars == <<plate, counts, plateReq, disturbed, torn>>

Stored == {q \in Plates : plate[q] # "none"}
Complete == {q \in Plates : plate[q] = "complete"}

PlateIdle == [pc |-> "idle", op |-> "none", plate |-> "none", seen |-> "none", new |-> "none",
              total |-> 0, completed |-> 0]
PlateAt(w, pc) == plateReq[w].pc = pc
PlateBecomes(w, r) == plateReq' = [plateReq EXCEPT ![w] = r]
\* What a request needs no longer is forgotten.
GoesOn(w) == PlateBecomes(w, [plateReq[w] EXCEPT !.pc = "refresh", !.new = "none"])
GoesCounting(w) == PlateBecomes(w, [PlateIdle EXCEPT !.pc = "total"])

PlatesInit ==
    /\ plate = [q \in Plates |-> "none"]
    /\ total = 0
    /\ completed = 0
    /\ plateReq = [w \in PlateWorkers |-> PlateIdle]
    /\ disturbed = {}
    /\ torn = FALSE

-----------------------------------------------------------------------------
\* The statuses in which each endpoint finds a plate to go on with, and the
\* one it leaves.
CancelsAny == [start |-> {"pending"}, complete |-> {"pending", "printing"},
    fail |-> PlateStatuses \ {"complete"}, cancel |-> PlateStatuses,
    patch |-> PlateStatuses, delete |-> PlateStatuses]
From == [start |-> {"pending"}, complete |-> {"pending", "printing"},
    fail |-> PlateStatuses \ {"complete"}, cancel |-> PlateStatuses \ {"complete"},
    patch |-> PlateStatuses, delete |-> PlateStatuses]
PlateResultMisspelt == [start |-> "printing", complete |-> "completed", fail |-> "failed",
                        cancel |-> "cancelled", delete |-> "none"]
PlateResult == [start |-> "printing", complete |-> "complete", fail |-> "failed",
                cancel |-> "cancelled", delete |-> "none"]

\* The requests that count: all but start and fail; PATCH when it finds that
\* the plate has become complete, or is no longer so.
AlwaysCounts == {"create", "complete", "cancel"}

CallPlate(w, op, q) ==
    /\ PlateAt(w, "idle")
    /\ PlateBecomes(w, [PlateIdle EXCEPT !.pc = "read", !.op = op, !.plate = q])
    /\ UNCHANGED <<plate, counts, disturbed, torn>>

\* get_plate, for the endpoint and again for the service, which finds the
\* object that the session holds.  PATCH may leave the status as it is.
Read(w) ==
    LET r == plateReq[w]
        now == plate[r.plate]
    IN  /\ PlateAt(w, "read")
        /\ IF now \in From[r.op]
           THEN \E new \in IF r.op = "patch" THEN PlateStatuses ELSE {PlateResult[r.op]} :
                  PlateBecomes(w, [r EXCEPT !.seen = now, !.new = new, !.pc = "commit"])
           ELSE PlateBecomes(w, PlateIdle)
        /\ UNCHANGED <<plate, counts, disturbed, torn>>

\* Whoever is counting counts something else than what there will be.
Counting == {w \in PlateWorkers : plateReq[w].pc \in {"count", "store"}}
Changes(q, st) ==
    /\ plate' = [plate EXCEPT ![q] = st]
    /\ disturbed' = disturbed \cup Counting

CreatePlate(w, q, st) ==
    /\ PlateAt(w, "idle")
    /\ plate[q] = "none" /\ \A v \in PlateWorkers : plateReq[v].plate # q
    /\ Changes(q, st)
    /\ PlateBecomes(w, [PlateIdle EXCEPT !.pc = "refresh", !.op = "create", !.plate = q])
    /\ UNCHANGED <<counts, torn>>

\* A deletion counts, also when the row is gone already; any other request
\* then ends in an error.  A status is written when it differs from what was
\* read.
Commit(w) ==
    LET r == plateReq[w]
        now == plate[r.plate]
    IN  /\ PlateAt(w, "commit")
        /\ \/ /\ r.op = "delete"
              /\ Changes(r.plate, "none")
              /\ torn' = torn
              /\ GoesCounting(w)
           \/ /\ r.op # "delete" /\ now = "none"
              /\ PlateBecomes(w, PlateIdle)
              /\ UNCHANGED <<plate, disturbed, torn>>
           \/ /\ r.op # "delete" /\ now # "none"
              /\ IF r.new = r.seen THEN UNCHANGED <<plate, disturbed, torn>>
                 ELSE /\ Changes(r.plate, r.new)
                      /\ torn' = (torn \/ now # r.seen)
              /\ GoesOn(w)
        /\ UNCHANGED counts

\* Whether the request owes a count.
MustCount(r) ==
    r.op \in AlwaysCounts \/ (r.op = "patch" /\ (plate[r.plate] = "complete") # (r.seen = "complete"))

\* refresh raises when the row is gone.
Refresh(w) ==
    LET r == plateReq[w]
    IN  /\ PlateAt(w, "refresh")
        /\ IF plate[r.plate] # "none" /\ MustCount(r) THEN GoesCounting(w) ELSE PlateBecomes(w, PlateIdle)
        /\ torn' = (torn \/ (plate[r.plate] = "none" /\ MustCount(r)))
        /\ UNCHANGED <<plate, counts, disturbed>>

\* _update_run_plate_counts: two counts, an update and a commit.
CountTotal(w) ==
    /\ PlateAt(w, "total")
    /\ PlateBecomes(w, [plateReq[w] EXCEPT !.total = Cardinality(Stored), !.pc = "count"])
    /\ disturbed' = disturbed \ {w}
    /\ UNCHANGED <<plate, counts, torn>>

CountsEnded == Cardinality({q \in Plates : plate[q] \in {"complete", "failed"}})
CountsComplete == Cardinality(Complete)
CountCompleted(w) ==
    /\ PlateAt(w, "count")
    /\ PlateBecomes(w, [plateReq[w] EXCEPT !.completed = CountsComplete, !.pc = "store"])
    /\ UNCHANGED <<plate, counts, disturbed, torn>>

Store(w) ==
    /\ PlateAt(w, "store")
    /\ total' = plateReq[w].total
    /\ completed' = plateReq[w].completed
    /\ torn' = (w \in disturbed)
    /\ disturbed' = disturbed \ {w}
    /\ PlateBecomes(w, PlateIdle)
    /\ UNCHANGED plate

\* The request has changed what the counts are of, and has yet to store them.
Owes(r) == r.pc \in {"total", "count", "store"} \/ (r.pc = "refresh" /\ MustCount(r))

\* The process dies, or an exception ends the request.
AbortPlate(w) ==
    /\ ~PlateAt(w, "idle")
    /\ PlateBecomes(w, PlateIdle)
    /\ torn' = (torn \/ Owes(plateReq[w]))
    /\ disturbed' = disturbed \ {w}
    /\ UNCHANGED <<plate, counts>>

PlatesNext == \E w \in PlateWorkers :
    \/ \E op \in DOMAIN From, q \in Plates : CallPlate(w, op, q)
    \/ \E q \in Plates, st \in Created : CreatePlate(w, q, st)
    \/ Read(w) \/ Commit(w) \/ Refresh(w)
    \/ CountTotal(w) \/ CountCompleted(w) \/ Store(w) \/ AbortPlate(w)

PlatesSpec == PlatesInit /\ [][PlatesNext]_plateVars

-----------------------------------------------------------------------------
PlateRequest == [pc : {"idle", "read", "commit", "refresh", "total", "count", "store"},
                 op : DOMAIN From \cup {"none", "create"}, plate : Plates \cup {"none"},
                 seen : PlateStatuses \cup {"none"}, new : PlateStatuses \cup {"none"},
                 total : Nat, completed : Nat]

PlatesTypeOK ==
    /\ plate \in [Plates -> PlateStatuses \cup {"none"}]
    /\ total \in Nat
    /\ completed \in Nat
    /\ plateReq \in [PlateWorkers -> PlateRequest]
    /\ disturbed \subseteq PlateWorkers
    /\ torn \in BOOLEAN

\* The counts are stored in a transaction of their own.  When no request is
\* about to store them they are those of the plates, unless one ended before
\* it stored them, stored what it had counted while plates changed, or wrote a
\* status over one it had not read; and the next count that nothing disturbs
\* makes up for all of these.
CountsSettle ==
    (~torn /\ \A w \in PlateWorkers : ~Owes(plateReq[w]))
        => total = Cardinality(Stored) /\ completed = Cardinality(Complete)

\* "Cannot fail a completed plate", "Cannot cancel a completed plate", and no
\* other endpoint but PATCH gives it another status: a complete plate stays so
\* or is deleted, unless a request that had read it before it was complete
\* overtakes the completion.
CompleteStays ==
    [][\A q \in Plates :
         (plate[q] = "complete" /\ plate'[q] \notin {"complete", "none"})
             => \E w \in PlateWorkers : /\ plateReq[w].pc = "commit" /\ plateReq[w].plate = q
                                        /\ plateReq[w].op = "patch" \/ plateReq[w].seen # "complete"]_plateVars
=============================================================================
