------------------------------ MODULE PrintQueue ------------------------------
(***************************************************************************)
(* Print jobs and the printers they are assigned to:                       *)
(* backend/app/services/print_queue_service.py behind                      *)
(* backend/app/api/v1/print_queue.py, with the printers of                 *)
(* backend/app/services/printer_service.py.  A request reads the job with  *)
(* its printer and commits what it changed of both, without a lock: a      *)
(* column is written only when it differs from what was read.  Priorities  *)
(* and queue positions are left out: they order what is listed, and no     *)
(* assignment depends on them.                                             *)
(***************************************************************************)
EXTENDS FiniteSets, Naturals

CONSTANTS
    Jobs, Printers, Workers,
    Matches         \* Matches[j]: the printers that auto-assign finds compatible

Active == {"pending", "queued", "printing"}
Finished == {"completed", "failed", "cancelled"}

ASSUME PrintQueueAssumption ==
    /\ Matches \in [Jobs -> SUBSET Printers]
    /\ "none" \notin Jobs \cup Printers

VARIABLES
    job,      \* print_jobs: status and assigned_printer_id
    printer,  \* printers: current_status, current_job_id and is_active
    req,      \* the request each worker runs
    loose     \* the printers of which the two records may disagree: a request
              \* committed on what was no longer so, or was made that the
              \* service does not refuse: see Careless

vars == <<job, printer, req, loose>>

NoJob == [status |-> "none", printer |-> "none"]
NoPrinter == [status |-> "none", current |-> "none", active |-> FALSE]
Idle == [pc |-> "idle", op |-> "none", job |-> "none", to |-> "none", seen |-> NoJob,
         at |-> NoPrinter, found |-> {}, idle |-> {}]
At(w, pc) == req[w].pc = pc
Becomes(w, r) == req' = [req EXCEPT ![w] = r]
PrinterOf(p) == IF p = "none" THEN NoPrinter ELSE printer[p]

Init ==
    /\ job = [j \in Jobs |-> NoJob]
    /\ printer = [p \in Printers |-> [status |-> "offline", current |-> "none", active |-> TRUE]]
    /\ req = [w \in Workers |-> Idle]
    /\ loose = {}

-----------------------------------------------------------------------------
\* The statuses of a job with which each endpoint goes on, and the one it
\* leaves.  assign_to_printer asks for none.
RestartsFailed == [assign |-> Active \cup Finished, cancel |-> {"pending", "queued"},
    delete |-> Finished, start |-> {"queued", "failed"}, complete |-> {"printing"},
    fail |-> {"queued", "printing"}]
From == [assign |-> Active \cup Finished, cancel |-> {"pending", "queued"},
    delete |-> Finished, start |-> {"queued"}, complete |-> {"printing"},
    fail |-> {"queued", "printing"}]
ResultMisspelt == [assign |-> "queued", cancel |-> "canceled", start |-> "printing",
           complete |-> "completed", fail |-> "failed"]
Result == [assign |-> "queued", cancel |-> "cancelled", start |-> "printing",
           complete |-> "completed", fail |-> "failed"]

\* What starting, completing and failing make of the job's printer.
KeptOnComplete(r) ==
    CASE r.op = "start"    -> [r.at EXCEPT !.status = "printing", !.current = r.job]
      [] r.op = "complete" -> [r.at EXCEPT !.status = "idle"]
      [] r.op = "fail"     -> [r.at EXCEPT !.status = "error", !.current = "none"]
      [] OTHER -> r.at
PrinterAfter(r) ==
    CASE r.op = "start"    -> [r.at EXCEPT !.status = "printing", !.current = r.job]
      [] r.op = "complete" -> [r.at EXCEPT !.status = "idle", !.current = "none"]
      [] r.op = "fail"     -> [r.at EXCEPT !.status = "error", !.current = "none"]
      [] OTHER -> r.at

Add(j) ==
    /\ job[j] = NoJob /\ \A w \in Workers : req[w].job # j /\ j \notin req[w].found
    /\ job' = [job EXCEPT ![j] = [status |-> "pending", printer |-> "none"]]
    /\ UNCHANGED <<printer, req, loose>>

Call(w, op, j, p) ==
    /\ At(w, "idle")
    /\ IF op = "assign" THEN p \in Printers ELSE p = "none"
    /\ Becomes(w, [Idle EXCEPT !.pc = "read", !.op = op, !.job = j, !.to = p])
    /\ UNCHANGED <<job, printer, loose>>

\* get_job.
ReadJob(w) ==
    LET r == req[w]
    IN  /\ At(w, "read")
        /\ IF job[r.job].status \in From[r.op]
           THEN Becomes(w, [r EXCEPT !.seen = job[r.job], !.pc = "printer"])
           ELSE Becomes(w, Idle)
        /\ UNCHANGED <<job, printer, loose>>

\* The job's printer, loaded with it; assign_to_printer asks for an active one.
ReadPrinter(w) ==
    LET r == req[w]
    IN  /\ At(w, "printer")
        /\ IF r.op = "assign" /\ ~printer[r.to].active THEN Becomes(w, Idle)
           ELSE Becomes(w, [r EXCEPT !.pc = "commit",
                    !.at = IF r.op \in {"start", "complete", "fail"} THEN PrinterOf(r.seen.printer) ELSE NoPrinter])
        /\ UNCHANGED <<job, printer, loose>>

\* A column keeps what it holds now when the request left it as it was read.
Written(now, seen, new) ==
    [f \in DOMAIN now |-> IF new[f] = seen[f] THEN now[f] ELSE new[f]]

JobAfter(r) ==
    [status |-> Result[r.op], printer |-> IF r.op = "assign" THEN r.to ELSE r.seen.printer]

\* What the service lets an administrator do, after which a printer no longer
\* shows the job that it prints: assign a job that is printing to a printer,
\* start a job on a printer that shows another, fail a queued job of one that
\* shows another.
Careless(r) ==
    \/ r.op = "assign" /\ r.seen.status = "printing"
    \/ r.op \in {"start", "fail"} /\ r.at.current \notin {"none", r.job}
Overtaken(r) ==
    \/ job[r.job] # r.seen
    \/ r.op \in {"start", "complete", "fail"} /\ PrinterOf(r.seen.printer) # r.at
Loosened(r) ==
    IF Careless(r) \/ Overtaken(r)
    THEN {job[r.job].printer, r.seen.printer, r.to} \ {"none"} ELSE {}

\* An update of a job that was deleted meanwhile ends in an error.
Commit(w) ==
    LET r == req[w]
        p == r.seen.printer
    IN  /\ At(w, "commit") /\ r.op # "delete"
        /\ IF job[r.job] = NoJob THEN UNCHANGED <<job, printer, loose>>
           ELSE /\ job' = [job EXCEPT ![r.job] = Written(@, r.seen, JobAfter(r))]
                /\ printer' = IF r.at = NoPrinter THEN printer
                              ELSE [printer EXCEPT ![p] = Written(@, r.at, PrinterAfter(r))]
                /\ loose' = loose \cup Loosened(r)
        /\ Becomes(w, Idle)

\* The foreign key of printers.current_job_id is ON DELETE SET NULL.
CommitDelete(w) ==
    LET r == req[w]
    IN  /\ At(w, "commit") /\ r.op = "delete"
        /\ job' = [job EXCEPT ![r.job] = NoJob]
        /\ printer' = [p \in Printers |->
               [printer[p] EXCEPT !.current = IF @ = r.job THEN "none" ELSE @]]
        /\ loose' = loose \cup Loosened(r)
        /\ Becomes(w, Idle)

-----------------------------------------------------------------------------
\* auto_assign_jobs: the pending jobs, then the idle printers that are active.
\* A printer stays available to the jobs that follow, for nothing here makes
\* it busy; which of several compatible ones comes first is left open.
CallAuto(w) ==
    /\ At(w, "idle")
    /\ Becomes(w, [Idle EXCEPT !.pc = "printers", !.op = "auto",
                               !.found = {j \in Jobs : job[j].status = "pending"}])
    /\ UNCHANGED <<job, printer, loose>>

ReadPrinters(w) ==
    /\ At(w, "printers")
    /\ Becomes(w, [req[w] EXCEPT !.pc = "assign",
           !.idle = {p \in Printers : printer[p].active /\ printer[p].status = "idle"}])
    /\ UNCHANGED <<job, printer, loose>>

CommitAuto(w) ==
    LET r == req[w]
        assigned == {j \in r.found : Matches[j] \cap r.idle # {}}
    IN  /\ At(w, "assign")
        /\ \/ /\ \E j \in assigned : job[j] = NoJob
              /\ UNCHANGED <<job, loose>>
           \/ /\ \A j \in assigned : job[j] # NoJob
              /\ \E to \in [assigned -> r.idle] :
                   /\ \A j \in assigned : to[j] \in Matches[j]
                   /\ job' = [j \in Jobs |-> IF j \in assigned THEN [status |-> "queued", printer |-> to[j]]
                                             ELSE job[j]]
              /\ loose' = loose \cup ({job[j].printer : j \in {x \in assigned : job[x].status # "pending"}} \ {"none"})
        /\ Becomes(w, Idle)
        /\ UNCHANGED printer

\* The process dies, or an exception ends the request.
Abort(w) ==
    /\ ~At(w, "idle")
    /\ Becomes(w, Idle)
    /\ UNCHANGED <<job, printer, loose>>

\* update_printer and delete_printer set is_active, whatever the printer does.
SetActive(p, active) ==
    /\ printer[p].active # active
    /\ printer' = [printer EXCEPT ![p].active = active]
    /\ UNCHANGED <<job, req, loose>>

Next ==
    \/ \E j \in Jobs : Add(j)
    \/ \E w \in Workers :
         \/ \E op \in DOMAIN From, j \in Jobs, p \in Printers \cup {"none"} : Call(w, op, j, p)
         \/ ReadJob(w) \/ ReadPrinter(w) \/ Commit(w) \/ CommitDelete(w)
         \/ CallAuto(w) \/ ReadPrinters(w) \/ CommitAuto(w) \/ Abort(w)
    \/ \E p \in Printers, active \in BOOLEAN : SetActive(p, active)

Spec == Init /\ [][Next]_vars

-----------------------------------------------------------------------------
Job == [status : Active \cup Finished \cup {"none"}, printer : Printers \cup {"none"}]
Printer == [status : {"offline", "idle", "printing", "error"}, current : Jobs \cup {"none"},
            active : BOOLEAN]
Request == [pc : {"idle", "read", "printer", "commit", "printers", "assign"},
            op : DOMAIN From \cup {"none", "auto"}, job : Jobs \cup {"none"},
            to : Printers \cup {"none"}, seen : Job, at : Printer \cup {NoPrinter},
            found : SUBSET Jobs, idle : SUBSET Printers]

TypeOK ==
    /\ job \in [Jobs -> Job]
    /\ printer \in [Printers -> Printer]
    /\ req \in [Workers -> Request]
    /\ loose \subseteq Printers

\* models/printer.py: current_job_id is the "Currently printing job (if any)".
\* A printer's record and the jobs' records agree: it is printing when it shows
\* a job, and that job and no other is printing on it; unless requests for the
\* printer overlapped or were made carelessly.
PrintingOn(p) == {j \in Jobs : job[j].status = "printing" /\ job[j].printer = p}
Shown(p) == {printer[p].current} \ {"none"}
PrintersShowTheirJob ==
    \A p \in Printers \ loose :
        /\ PrintingOn(p) = Shown(p)
        /\ printer[p].status = "printing" <=> Shown(p) # {}

\* A job that ended is not taken up again except by assign_to_printer, which
\* asks for no status, or by a request that had read it before it ended.
FinishedStays ==
    [][\A j \in Jobs :
         (job[j].status \in Finished /\ job'[j].status \notin {job[j].status, "none"})
             => \E w \in Workers :
                  \/ /\ req[w].pc = "commit" /\ req[w].job = j
                     /\ req[w].op = "assign" \/ req[w].seen.status \notin Finished
                  \/ req[w].pc = "assign" /\ j \in req[w].found]_vars
=============================================================================
