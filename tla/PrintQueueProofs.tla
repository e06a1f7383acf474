---------------------------- MODULE PrintQueueProofs ----------------------------
(***************************************************************************)
(* Proofs about PrintQueue, for any jobs, printers and overlapping         *)
(* requests: the types, that a printer shows the job that it prints, and   *)
(* that a finished job is only taken up again in the ways the service      *)
(* leaves open.                                                            *)
(***************************************************************************)
EXTENDS PrintQueue, TLAPS

\* The operations that also read the job's printer.
OnPrinter == {"start", "complete", "fail"}

\* What a request has established when it reaches each of its steps.
InPlace(r) ==
    /\ r.pc \in {"read", "printer", "commit"} =>
         /\ r.op \in DOMAIN From /\ r.job \in Jobs
         /\ IF r.op = "assign" THEN r.to \in Printers ELSE r.to = "none"
    /\ r.pc \in {"printer", "commit"} => r.seen.status \in From[r.op]
    /\ r.pc = "commit" =>
         IF r.op \in OnPrinter /\ r.seen.printer # "none" THEN r.at \in Printer ELSE r.at = NoPrinter

RequestsInPlace == \A w \in Workers : InPlace(req[w])

TInv == TypeOK /\ RequestsInPlace
IInv == TInv /\ PrintersShowTheirJob

-----------------------------------------------------------------------------
LEMMA Operations ==
    /\ DOMAIN From = {"assign", "cancel", "delete", "start", "complete", "fail"}
    /\ From["assign"] = Active \cup Finished /\ From["cancel"] = {"pending", "queued"}
    /\ From["delete"] = Finished /\ From["start"] = {"queued"}
    /\ From["complete"] = {"printing"} /\ From["fail"] = {"queued", "printing"}
BY DEF From

LEMMA Results ==
    /\ Result["assign"] = "queued" /\ Result["cancel"] = "cancelled" /\ Result["start"] = "printing"
    /\ Result["complete"] = "completed" /\ Result["fail"] = "failed"
BY DEF Result

LEMMA NothingType == NoJob \in Job /\ NoPrinter \notin Printer /\ Idle \in Request /\ InPlace(Idle)
<1>1. NoJob \in Job
  BY DEF NoJob, Job
<1>2. NoPrinter \notin Printer
  BY DEF NoPrinter, Printer
<1> QED
  BY <1>1, <1>2 DEF Idle, Request, InPlace

\* A column of a row that a request writes is what it holds now or what the
\* request makes of it; where nothing changed since it was read, the latter.
LEMMA WrittenJob ==
    ASSUME NEW now \in Job, NEW seen \in Job, NEW new \in Job
    PROVE  LET row == Written(now, seen, new)
           IN  /\ row \in Job
               /\ row.status = IF new.status = seen.status THEN now.status ELSE new.status
               /\ row.printer = IF new.printer = seen.printer THEN now.printer ELSE new.printer
               /\ now = seen => row.status = new.status /\ row.printer = new.printer
<1> DEFINE row == Written(now, seen, new)
<1>1. row = [status |-> IF new.status = seen.status THEN now.status ELSE new.status,
             printer |-> IF new.printer = seen.printer THEN now.printer ELSE new.printer]
  BY DEF Job, Written
<1> QED
  BY <1>1 DEF Job

LEMMA WrittenPrinter ==
    ASSUME NEW now \in Printer, NEW seen \in Printer, NEW new \in Printer
    PROVE  LET row == Written(now, seen, new)
           IN  /\ row \in Printer
               /\ now = seen => row.status = new.status /\ row.current = new.current
<1> DEFINE row == Written(now, seen, new)
<1>1. row = [status |-> IF new.status = seen.status THEN now.status ELSE new.status,
             current |-> IF new.current = seen.current THEN now.current ELSE new.current,
             active |-> IF new.active = seen.active THEN now.active ELSE new.active]
  BY DEF Printer, Written
<1> QED
  BY <1>1 DEF Printer

\* What requests leave of a job and of its printer.
LEMMA AfterType ==
    ASSUME NEW r \in Request, InPlace(r), r.pc = "commit", r.op # "delete"
    PROVE  /\ JobAfter(r) \in Job
           /\ r.at \in Printer => PrinterAfter(r) \in Printer
<1>1. /\ r.op \in {"assign", "cancel", "start", "complete", "fail"} /\ r.job \in Jobs
      /\ r.op = "assign" => r.to \in Printers
      /\ r.seen \in Job
  BY Operations DEF InPlace, Request
<1>2. JobAfter(r) \in Job
  BY <1>1, Results DEF JobAfter, Job, Active, Finished
<1>3. ASSUME r.at \in Printer PROVE PrinterAfter(r) \in Printer
  BY <1>1, <1>3 DEF PrinterAfter, Printer
<1> QED
  BY <1>2, <1>3

LEMMA InitIInv == Init => IInv
<1> SUFFICES ASSUME Init PROVE IInv
  OBVIOUS
<1>1. TypeOK
  BY NothingType DEF Init, TypeOK, Printer
<1>2. RequestsInPlace
  BY NothingType DEF Init, RequestsInPlace
<1>3. PrintersShowTheirJob
  BY DEF Init, PrintersShowTheirJob, PrintingOn, Shown, NoJob
<1> QED
  BY <1>1, <1>2, <1>3 DEF IInv, TInv

\* One worker goes on to a request that is in place.
LEMMA Replaced ==
    ASSUME TInv, NEW w \in Workers, NEW r \in Request, Becomes(w, r), InPlace(r)
    PROVE  req' \in [Workers -> Request] /\ RequestsInPlace'
<1>1. req' \in [Workers -> Request] /\ req'[w] = r /\ \A v \in Workers \ {w} : req'[v] = req[v]
  BY DEF TInv, TypeOK, Becomes
<1>2. \A v \in Workers : InPlace(req'[v])
  BY <1>1 DEF TInv, RequestsInPlace
<1> QED
  BY <1>1, <1>2 DEF RequestsInPlace, InPlace

LEMMA QuietStep ==
    ASSUME IInv, NEW w \in Workers, NEW r \in Request, Becomes(w, r), InPlace(r),
           UNCHANGED <<job, printer, loose>>
    PROVE  IInv'
<1>1. req' \in [Workers -> Request] /\ RequestsInPlace'
  BY Replaced DEF IInv
<1> QED
  BY <1>1 DEF IInv, TInv, TypeOK, PrintersShowTheirJob, PrintingOn, Shown

LEMMA IInvReads ==
    ASSUME IInv, NEW w \in Workers,
           \/ \E op \in DOMAIN From, j \in Jobs, p \in Printers \cup {"none"} : Call(w, op, j, p)
           \/ ReadJob(w) \/ ReadPrinter(w) \/ CallAuto(w) \/ ReadPrinters(w) \/ Abort(w)
    PROVE  IInv'
<1> USE DEF IInv, TInv
<1>1. req[w] \in Request /\ InPlace(req[w])
  BY DEF TypeOK, RequestsInPlace
<1>2. ASSUME Becomes(w, Idle), UNCHANGED <<job, printer, loose>> PROVE IInv'
  BY <1>2, NothingType, QuietStep
<1>3. ASSUME NEW op \in DOMAIN From, NEW j \in Jobs, NEW p \in Printers \cup {"none"}, Call(w, op, j, p)
      PROVE  IInv'
  <2> DEFINE r == [Idle EXCEPT !.pc = "read", !.op = op, !.job = j, !.to = p]
  <2>1. r \in Request /\ r.pc = "read" /\ r.op = op /\ r.job = j /\ r.to = p
    BY NothingType DEF Request
  <2>2. Becomes(w, r) /\ UNCHANGED <<job, printer, loose>>
    BY <1>3 DEF Call
  <2>3. IF op = "assign" THEN p \in Printers ELSE p = "none"
    BY <1>3 DEF Call
  <2> HIDE DEF r
  <2>4. InPlace(r)
    BY <2>1, <2>3 DEF InPlace
  <2> QED
    BY <2>1, <2>2, <2>4, QuietStep
<1>4. CASE ReadJob(w)
  <2> DEFINE now == job[req[w].job]
             r == [req[w] EXCEPT !.seen = now, !.pc = "printer"]
  <2>1. CASE now.status \in From[req[w].op]
    <3>1. Becomes(w, r) /\ UNCHANGED <<job, printer, loose>> /\ req[w].pc = "read"
      BY <1>4, <2>1 DEF ReadJob, At
    <3>2. now \in Job
      BY <1>1, <3>1 DEF InPlace, TypeOK
    <3>3. /\ r \in Request /\ r.pc = "printer" /\ r.op = req[w].op /\ r.job = req[w].job
          /\ r.to = req[w].to /\ r.seen = now
      BY <1>1, <3>2 DEF Request
    <3> HIDE DEF r
    <3>4. InPlace(r)
      BY <1>1, <2>1, <3>1, <3>3 DEF InPlace
    <3> QED
      BY <3>1, <3>3, <3>4, QuietStep
  <2>2. CASE now.status \notin From[req[w].op]
    BY <1>2, <1>4, <2>2 DEF ReadJob
  <2> QED
    BY <2>1, <2>2
<1>5. CASE ReadPrinter(w)
  <2> DEFINE at == IF req[w].op \in {"start", "complete", "fail"} THEN PrinterOf(req[w].seen.printer) ELSE NoPrinter
             r == [req[w] EXCEPT !.pc = "commit", !.at = at]
  <2>1. CASE req[w].op = "assign" /\ ~printer[req[w].to].active
    BY <1>2, <1>5, <2>1 DEF ReadPrinter
  <2>2. CASE ~(req[w].op = "assign" /\ ~printer[req[w].to].active)
    <3>1. Becomes(w, r) /\ UNCHANGED <<job, printer, loose>> /\ req[w].pc = "printer"
      BY <1>5, <2>2 DEF ReadPrinter, At
    <3>2. IF req[w].op \in OnPrinter /\ req[w].seen.printer # "none" THEN at \in Printer ELSE at = NoPrinter
      <4>1. req[w].seen.printer \in Printers \cup {"none"}
        BY <1>1 DEF Request, Job
      <4> QED
        BY <4>1 DEF OnPrinter, PrinterOf, TypeOK
    <3>3. at \in Printer \cup {NoPrinter}
      BY <3>2
    <3> HIDE DEF at
    <3>4. /\ r \in Request /\ r.pc = "commit" /\ r.op = req[w].op /\ r.job = req[w].job
          /\ r.to = req[w].to /\ r.seen = req[w].seen /\ r.at = at
      BY <1>1, <3>3 DEF Request
    <3> HIDE DEF r
    <3>5. InPlace(r)
      BY <1>1, <3>1, <3>2, <3>4 DEF InPlace
    <3> QED
      BY <3>1, <3>4, <3>5, QuietStep DEF at, r
  <2> QED
    BY <2>1, <2>2
<1>6. CASE CallAuto(w)
  <2> DEFINE r == [Idle EXCEPT !.pc = "printers", !.op = "auto", !.found = {j \in Jobs : job[j].status = "pending"}]
  <2>1. r \in Request /\ r.pc = "printers"
    BY NothingType DEF Request
  <2>2. Becomes(w, r) /\ UNCHANGED <<job, printer, loose>>
    BY <1>6 DEF CallAuto
  <2> HIDE DEF r
  <2> QED
    BY <2>1, <2>2, QuietStep DEF InPlace
<1>7. CASE ReadPrinters(w)
  <2> DEFINE r == [req[w] EXCEPT !.pc = "assign", !.idle = {p \in Printers : printer[p].active /\ printer[p].status = "idle"}]
  <2>1. r \in Request /\ r.pc = "assign"
    BY <1>1 DEF Request
  <2>2. Becomes(w, r) /\ UNCHANGED <<job, printer, loose>>
    BY <1>7 DEF ReadPrinters
  <2> HIDE DEF r
  <2> QED
    BY <2>1, <2>2, QuietStep DEF InPlace
<1>8. CASE Abort(w)
  BY <1>2, <1>8 DEF Abort
<1> QED
  BY <1>3, <1>4, <1>5, <1>6, <1>7, <1>8

-----------------------------------------------------------------------------
\* A printer that no write touches keeps its record and its jobs.
Untouched(p) ==
    /\ printer'[p].status = printer[p].status /\ printer'[p].current = printer[p].current
    /\ \A j \in Jobs :
         (job'[j].status = "printing" /\ job'[j].printer = p)
            <=> (job[j].status = "printing" /\ job[j].printer = p)

LEMMA ShownStays ==
    ASSUME PrintersShowTheirJob, NEW p \in Printers \ loose, Untouched(p)
    PROVE  PrintingOn(p)' = Shown(p)' /\ (printer'[p].status = "printing" <=> Shown(p)' # {})
<1>1. PrintingOn(p)' = PrintingOn(p) /\ Shown(p)' = Shown(p)
  BY DEF Untouched, PrintingOn, Shown
<1> QED
  BY <1>1 DEF Untouched, PrintersShowTheirJob

LEMMA IInvAdd == ASSUME IInv, NEW j \in Jobs, Add(j) PROVE IInv'
<1> DEFINE row == [status |-> "pending", printer |-> "none"]
<1>1. /\ job[j] = NoJob /\ job' = [job EXCEPT ![j] = row]
      /\ printer' = printer /\ req' = req /\ loose' = loose
  BY DEF Add
<1>2. row \in Job /\ row.status = "pending"
  BY DEF Job, Active
<1> HIDE DEF row
<1>3. TypeOK' /\ job'[j] = row /\ \A i \in Jobs \ {j} : job'[i] = job[i]
  BY <1>1, <1>2 DEF IInv, TInv, TypeOK
<1>4. RequestsInPlace'
  BY <1>1 DEF IInv, TInv, RequestsInPlace, InPlace
<1>5. \A p \in Printers \ loose : Untouched(p)
  BY <1>1, <1>2, <1>3 DEF Untouched, NoJob
<1>6. PrintersShowTheirJob'
  BY <1>1, <1>5, ShownStays DEF IInv, PrintersShowTheirJob
<1> QED
  BY <1>3, <1>4, <1>6 DEF IInv, TInv

\* The rows that a commit leaves.
LEMMA CommitRows ==
    ASSUME TInv, NEW w \in Workers, Commit(w), job[req[w].job] # NoJob
    PROVE  LET r == req[w]
               p == r.seen.printer
           IN  /\ r \in Request /\ InPlace(r) /\ r.pc = "commit" /\ r.job \in Jobs
               /\ r.op \in {"assign", "cancel", "start", "complete", "fail"}
               /\ job' \in [Jobs -> Job] /\ printer' \in [Printers -> Printer]
               /\ \A j \in Jobs \ {r.job} : job'[j] = job[j]
               /\ job'[r.job].printer \in {job[r.job].printer, p, r.to}
               /\ job[r.job] = r.seen =>
                    /\ job'[r.job].status = Result[r.op]
                    /\ job'[r.job].printer = IF r.op = "assign" THEN r.to ELSE p
               /\ \A q \in Printers \ {p} : printer'[q] = printer[q]
               /\ r.at = NoPrinter => printer' = printer
               /\ r.at # NoPrinter =>
                    /\ p \in Printers /\ r.at \in Printer
                    /\ printer[p] = r.at =>
                         /\ printer'[p].status = PrinterAfter(r).status
                         /\ printer'[p].current = PrinterAfter(r).current
<1> DEFINE r == req[w]
           p == r.seen.printer
           row == Written(job[r.job], r.seen, JobAfter(r))
           record == Written(printer[p], r.at, PrinterAfter(r))
<1>1. /\ r \in Request /\ InPlace(r) /\ r.pc = "commit" /\ r.op # "delete"
      /\ job' = [job EXCEPT ![r.job] = row]
      /\ printer' = IF r.at = NoPrinter THEN printer ELSE [printer EXCEPT ![p] = record]
  BY DEF TInv, TypeOK, RequestsInPlace, Commit, At
<1>2. r.op \in {"assign", "cancel", "start", "complete", "fail"} /\ r.job \in Jobs
  BY <1>1, Operations DEF InPlace
<1>3. job[r.job] \in Job /\ r.seen \in Job /\ JobAfter(r) \in Job
  BY <1>1, <1>2, AfterType DEF TInv, TypeOK, Request
<1>4. /\ row \in Job
      /\ row.printer = IF JobAfter(r).printer = r.seen.printer THEN job[r.job].printer ELSE JobAfter(r).printer
      /\ job[r.job] = r.seen => row.status = JobAfter(r).status /\ row.printer = JobAfter(r).printer
  BY <1>3, WrittenJob
<1>5. JobAfter(r).status = Result[r.op] /\ JobAfter(r).printer = IF r.op = "assign" THEN r.to ELSE p
  BY DEF JobAfter
<1>6. ASSUME r.at # NoPrinter
      PROVE  /\ p \in Printers /\ r.at \in Printer /\ record \in Printer
             /\ printer[p] = r.at => record.status = PrinterAfter(r).status /\ record.current = PrinterAfter(r).current
  <2>1. r.at \in Printer /\ p # "none"
    BY <1>1, <1>6 DEF InPlace
  <2>2. p \in Printers /\ printer[p] \in Printer
    BY <1>3, <2>1 DEF Job, TInv, TypeOK
  <2>3. PrinterAfter(r) \in Printer
    BY <1>1, <2>1, AfterType
  <2> QED
    BY <2>1, <2>2, <2>3, WrittenPrinter
<1> HIDE DEF row, record
<1>7. job' \in [Jobs -> Job] /\ job'[r.job] = row /\ \A j \in Jobs \ {r.job} : job'[j] = job[j]
  BY <1>1, <1>2, <1>4 DEF TInv, TypeOK
<1>8. /\ printer' \in [Printers -> Printer]
      /\ \A q \in Printers \ {p} : printer'[q] = printer[q]
      /\ r.at # NoPrinter => printer'[p] = record
  BY <1>1, <1>6 DEF TInv, TypeOK
<1> QED
  BY <1>1, <1>2, <1>4, <1>5, <1>6, <1>7, <1>8

LEMMA IInvCommit == ASSUME IInv, NEW w \in Workers, Commit(w) PROVE IInv'
<1> DEFINE r == req[w]
           p == r.seen.printer
           j == r.job
<1>1. TInv /\ PrintersShowTheirJob /\ Becomes(w, Idle)
  BY DEF IInv, Commit
<1>2. CASE job[j] = NoJob
  <2>1. UNCHANGED <<job, printer, loose>>
    BY <1>2 DEF Commit
  <2> QED
    BY <1>1, <2>1, NothingType, QuietStep
<1>3. CASE job[j] # NoJob
  <2>1. /\ r \in Request /\ InPlace(r) /\ r.pc = "commit" /\ j \in Jobs
        /\ r.op \in {"assign", "cancel", "start", "complete", "fail"}
        /\ job' \in [Jobs -> Job] /\ printer' \in [Printers -> Printer]
        /\ \A i \in Jobs \ {j} : job'[i] = job[i]
        /\ job'[j].printer \in {job[j].printer, p, r.to}
        /\ job[j] = r.seen =>
             job'[j].status = Result[r.op] /\ job'[j].printer = IF r.op = "assign" THEN r.to ELSE p
        /\ \A q \in Printers \ {p} : printer'[q] = printer[q]
        /\ r.at = NoPrinter => printer' = printer
        /\ r.at # NoPrinter =>
             /\ p \in Printers /\ r.at \in Printer
             /\ printer[p] = r.at =>
                  printer'[p].status = PrinterAfter(r).status /\ printer'[p].current = PrinterAfter(r).current
    BY <1>1, <1>3, CommitRows
  <2>2. loose' = loose \cup Loosened(r)
    BY <1>3 DEF Commit
  <2>3. req' \in [Workers -> Request] /\ RequestsInPlace'
    BY <1>1, NothingType, Replaced
  <2>4. job[j].printer \in Printers \cup {"none"} /\ p \in Printers \cup {"none"} /\ r.to \in Printers \cup {"none"}
    BY <1>1, <2>1 DEF TInv, TypeOK, Job, Request
  <2>5. TypeOK'
    <3>1. Loosened(r) \subseteq Printers
      BY <2>4 DEF Loosened
    <3> QED
      BY <1>1, <2>1, <2>2, <2>3, <3>1 DEF TInv, TypeOK
  <2>6. ASSUME NEW q \in Printers \ loose'
        PROVE  PrintingOn(q)' = Shown(q)' /\ (printer'[q].status = "printing" <=> Shown(q)' # {})
    <3>1. q # "none" /\ q \notin loose
      BY <2>2, PrintQueueAssumption
    <3>2. CASE q \notin {job[j].printer, p, r.to}
      <4>1. Untouched(q)
        BY <2>1, <3>2 DEF Untouched
      <4> QED
        BY <1>1, <3>1, <4>1, ShownStays
    <3>3. CASE q \in {job[j].printer, p, r.to}
      <4>1. ~Careless(r) /\ job[j] = r.seen /\ (r.op \in {"start", "complete", "fail"} => PrinterOf(p) = r.at)
        BY <2>2, <3>1, <3>3 DEF Loosened, Overtaken
      <4>2. job'[j].status = Result[r.op] /\ job'[j].printer = IF r.op = "assign" THEN r.to ELSE p
        BY <2>1, <4>1
      <4>3. CASE r.op \in {"assign", "cancel"}
        <5>1. printer' = printer
          BY <2>1, <4>3 DEF InPlace, OnPrinter
        <5>2. job[j].status # "printing"
          BY <2>1, <4>1, <4>3, Operations DEF InPlace, Careless
        <5>3. job'[j].status # "printing"
          BY <4>2, <4>3, Results
        <5>4. Untouched(q)
          BY <2>1, <5>1, <5>2, <5>3 DEF Untouched
        <5> QED
          BY <1>1, <3>1, <5>4, ShownStays
      <4>4. CASE r.op \in {"start", "complete", "fail"} /\ q # p
        <5>1. job[j].printer = p /\ job'[j].printer = p
          BY <4>1, <4>2, <4>4
        <5>2. Untouched(q)
          BY <2>1, <4>4, <5>1 DEF Untouched
        <5> QED
          BY <1>1, <3>1, <5>2, ShownStays
      <4>5. CASE r.op \in {"start", "complete", "fail"} /\ q = p
        <5>1. /\ r.at = printer[q] /\ r.at \in Printer
              /\ printer'[q].status = PrinterAfter(r).status /\ printer'[q].current = PrinterAfter(r).current
          <6>1. r.at \in Printer
            BY <2>1, <3>1, <4>5 DEF InPlace, OnPrinter
          <6> QED
            BY <2>1, <3>1, <4>1, <4>5, <6>1, NothingType DEF PrinterOf
        <5>2. PrintingOn(q) = Shown(q)
          BY <1>1, <3>1 DEF PrintersShowTheirJob
        <5>3. job[j].printer = q /\ job'[j].printer = q /\ j # "none"
          BY <2>1, <4>1, <4>2, <4>5, PrintQueueAssumption
        <5>4. PrintingOn(q)' = IF job'[j].status = "printing" THEN PrintingOn(q) \cup {j} ELSE PrintingOn(q) \ {j}
          BY <2>1, <5>3 DEF PrintingOn
        <5>5. CASE r.op = "start"
          <6>1. printer'[q].status = "printing" /\ printer'[q].current = j /\ printer[q].current \in {"none", j}
            BY <4>1, <5>1, <5>5 DEF PrinterAfter, Careless, Printer
          <6>2. Shown(q) \subseteq {j} /\ Shown(q)' = {j}
            BY <5>3, <6>1 DEF Shown
          <6>3. job'[j].status = "printing"
            BY <4>2, <5>5, Results
          <6> QED
            BY <5>2, <5>4, <6>1, <6>2, <6>3
        <5>6. CASE r.op = "complete"
          <6>1. printer'[q].status = "idle" /\ printer'[q].current = "none"
            BY <5>1, <5>6 DEF PrinterAfter, Printer
          <6>2. job[j].status = "printing" /\ job'[j].status = "completed"
            BY <2>1, <4>1, <4>2, <5>6, Operations, Results DEF InPlace
          <6>3. j \in PrintingOn(q)
            BY <2>1, <5>3, <6>2 DEF PrintingOn
          <6>4. PrintingOn(q) = {j}
            BY <5>2, <6>3 DEF Shown
          <6>5. Shown(q)' = {}
            BY <6>1 DEF Shown
          <6> QED
            BY <5>4, <6>1, <6>2, <6>4, <6>5
        <5>7. CASE r.op = "fail"
          <6>1. printer'[q].status = "error" /\ printer'[q].current = "none" /\ printer[q].current \in {"none", j}
            BY <4>1, <5>1, <5>7 DEF PrinterAfter, Careless, Printer
          <6>2. PrintingOn(q) \subseteq {j} /\ Shown(q)' = {}
            BY <5>2, <6>1 DEF Shown
          <6>3. job'[j].status = "failed"
            BY <4>2, <5>7, Results
          <6> QED
            BY <5>4, <6>1, <6>2, <6>3
        <5> QED
          BY <4>5, <5>5, <5>6, <5>7
      <4> QED
        BY <2>1, <4>3, <4>4, <4>5
    <3> QED
      BY <3>2, <3>3
  <2> QED
    BY <2>3, <2>5, <2>6 DEF IInv, TInv, PrintersShowTheirJob
<1> QED
  BY <1>2, <1>3

\* A job that ended prints nowhere, and only such a job is deleted.
LEMMA IInvCommitDelete == ASSUME IInv, NEW w \in Workers, CommitDelete(w) PROVE IInv'
<1> DEFINE r == req[w]
           j == r.job
<1>1. /\ r \in Request /\ InPlace(r) /\ r.pc = "commit" /\ r.op = "delete" /\ Becomes(w, Idle)
      /\ job' = [job EXCEPT ![j] = NoJob]
      /\ printer' = [p \in Printers |-> [printer[p] EXCEPT !.current = IF @ = j THEN "none" ELSE @]]
      /\ loose' = loose \cup Loosened(r)
      /\ TInv /\ PrintersShowTheirJob
  BY DEF IInv, TInv, TypeOK, RequestsInPlace, CommitDelete, At
<1>2. j \in Jobs /\ r.to = "none" /\ r.seen.status \in Finished
  BY <1>1, Operations DEF InPlace
<1>3. job \in [Jobs -> Job] /\ printer \in [Printers -> Printer] /\ r.seen \in Job
  BY <1>1 DEF TInv, TypeOK, Request
<1>4. /\ job' \in [Jobs -> Job] /\ job'[j] = NoJob /\ \A i \in Jobs \ {j} : job'[i] = job[i]
  BY <1>1, <1>2, <1>3, NothingType
<1>5. \A p \in Printers :
        /\ printer'[p] \in Printer /\ printer'[p].status = printer[p].status
        /\ printer'[p].current = IF printer[p].current = j THEN "none" ELSE printer[p].current
  BY <1>1, <1>3 DEF Printer
<1>6. printer' \in [Printers -> Printer]
  BY <1>1, <1>5
<1>7. TypeOK'
  <2>1. Loosened(r) \subseteq Printers
    BY <1>2, <1>3 DEF Loosened, Job
  <2> QED
    BY <1>1, <1>4, <1>6, <2>1, NothingType, Replaced DEF TInv, TypeOK
<1>8. RequestsInPlace'
  BY <1>1, NothingType, Replaced
<1>9. ASSUME NEW p \in Printers \ loose'
      PROVE  PrintingOn(p)' = Shown(p)' /\ (printer'[p].status = "printing" <=> Shown(p)' # {})
  <2>1. p \notin loose /\ p # "none" /\ j # "none"
    BY <1>1, <1>2, PrintQueueAssumption
  <2>2. ~(job[j].status = "printing" /\ job[j].printer = p)
    <3>1. CASE Overtaken(r)
      BY <1>1, <2>1, <3>1 DEF Loosened
    <3>2. CASE ~Overtaken(r)
      BY <1>2, <3>2 DEF Overtaken, Finished
    <3> QED
      BY <3>1, <3>2
  <2>3. printer[p].current # j
    BY <1>1, <1>2, <2>1, <2>2 DEF PrintersShowTheirJob, PrintingOn, Shown
  <2>4. Untouched(p)
    BY <1>4, <1>5, <2>2, <2>3 DEF Untouched, NoJob
  <2> QED
    BY <1>1, <2>1, <2>4, ShownStays
<1> QED
  BY <1>7, <1>8, <1>9 DEF IInv, TInv, PrintersShowTheirJob

\* auto_assign_jobs takes jobs that it read as pending.
LEMMA IInvCommitAuto == ASSUME IInv, NEW w \in Workers, CommitAuto(w) PROVE IInv'
<1> DEFINE r == req[w]
           assigned == {j \in r.found : Matches[j] \cap r.idle # {}}
<1>1. /\ r \in Request /\ Becomes(w, Idle) /\ printer' = printer /\ TInv /\ PrintersShowTheirJob
  BY DEF IInv, TInv, TypeOK, CommitAuto
<1>2. CASE UNCHANGED <<job, loose>>
  BY <1>1, <1>2, NothingType, QuietStep
<1>3. CASE ~UNCHANGED <<job, loose>>
  <2>1. PICK to \in [assigned -> r.idle] :
          job' = [j \in Jobs |-> IF j \in assigned THEN [status |-> "queued", printer |-> to[j]] ELSE job[j]]
    BY <1>3 DEF CommitAuto
  <2>2. loose' = loose \cup ({job[j].printer : j \in {x \in assigned : job[x].status # "pending"}} \ {"none"})
    BY <1>3 DEF CommitAuto
  <2>3. assigned \subseteq Jobs /\ r.idle \subseteq Printers
    BY <1>1 DEF Request
  <2> HIDE DEF assigned
  <2>4. job \in [Jobs -> Job]
    BY <1>1 DEF TInv, TypeOK
  <2>5. \A j \in assigned : [status |-> "queued", printer |-> to[j]] \in Job
    BY <2>1, <2>3 DEF Job, Active
  <2>6. /\ job' \in [Jobs -> Job]
        /\ \A j \in assigned : job'[j].status = "queued"
        /\ \A j \in Jobs \ assigned : job'[j] = job[j]
    BY <2>1, <2>3, <2>4, <2>5
  <2>7. loose' \subseteq Printers
    BY <1>1, <2>2, <2>3, <2>4 DEF TInv, TypeOK, Job
  <2>8. TypeOK' /\ RequestsInPlace'
    BY <1>1, <2>6, <2>7, NothingType, Replaced DEF TInv, TypeOK
  <2>9. ASSUME NEW p \in Printers \ loose'
        PROVE  PrintingOn(p)' = Shown(p)' /\ (printer'[p].status = "printing" <=> Shown(p)' # {})
    <3>1. p \notin loose /\ p # "none"
      BY <2>2, PrintQueueAssumption
    <3>2. \A j \in assigned : ~(job[j].status = "printing" /\ job[j].printer = p)
      BY <2>2, <3>1
    <3>3. Untouched(p)
      BY <1>1, <2>6, <3>2 DEF Untouched
    <3> QED
      BY <1>1, <3>1, <3>3, ShownStays
  <2> QED
    BY <2>8, <2>9 DEF IInv, TInv, PrintersShowTheirJob
<1> QED
  BY <1>2, <1>3

LEMMA IInvSetActive ==
    ASSUME IInv, NEW p \in Printers, NEW active \in BOOLEAN, SetActive(p, active) PROVE IInv'
<1>1. printer' = [printer EXCEPT ![p].active = active] /\ job' = job /\ req' = req /\ loose' = loose
  BY DEF SetActive
<1>2. printer \in [Printers -> Printer]
  BY DEF IInv, TInv, TypeOK
<1>3. /\ printer' \in [Printers -> Printer]
      /\ \A q \in Printers : printer'[q].status = printer[q].status /\ printer'[q].current = printer[q].current
  BY <1>1, <1>2 DEF Printer
<1>4. \A q \in Printers \ loose : Untouched(q)
  BY <1>1, <1>3 DEF Untouched
<1>5. PrintersShowTheirJob'
  BY <1>1, <1>4, ShownStays DEF IInv, PrintersShowTheirJob
<1> QED
  BY <1>1, <1>3, <1>5 DEF IInv, TInv, TypeOK, RequestsInPlace, InPlace

LEMMA IInvNext == IInv /\ [Next]_vars => IInv'
<1> SUFFICES ASSUME IInv, [Next]_vars PROVE IInv'
  OBVIOUS
<1>1. CASE UNCHANGED vars
  BY <1>1 DEF vars, IInv, TInv, TypeOK, RequestsInPlace, InPlace, PrintersShowTheirJob, PrintingOn, Shown
<1>2. ASSUME NEW w \in Workers,
             \/ \E op \in DOMAIN From, j \in Jobs, p \in Printers \cup {"none"} : Call(w, op, j, p)
             \/ ReadJob(w) \/ ReadPrinter(w) \/ CallAuto(w) \/ ReadPrinters(w) \/ Abort(w)
             \/ Commit(w) \/ CommitDelete(w) \/ CommitAuto(w)
      PROVE  IInv'
  BY <1>2, IInvReads, IInvCommit, IInvCommitDelete, IInvCommitAuto
<1>3. ASSUME NEW j \in Jobs, Add(j) PROVE IInv'
  BY <1>3, IInvAdd
<1>4. ASSUME NEW p \in Printers, NEW active \in BOOLEAN, SetActive(p, active) PROVE IInv'
  BY <1>4, IInvSetActive
<1> QED
  BY <1>1, <1>2, <1>3, <1>4 DEF Next

LEMMA AlwaysIInv == Spec => []IInv
BY InitIInv, IInvNext, PTL DEF Spec

\* Jobs, printers and requests keep their types, whatever requests overlap.
THEOREM TypeCorrect == Spec => []TypeOK
<1>1. IInv => TypeOK
  BY DEF IInv, TInv
<1> QED
  BY <1>1, AlwaysIInv, PTL

\* start, complete, fail and delete keep printers.current_job_id and the status
\* of the jobs in agreement, for every printer that no overlapping or careless
\* request concerned.
THEOREM PrintersAgree == Spec => []PrintersShowTheirJob
<1>1. IInv => PrintersShowTheirJob
  BY DEF IInv
<1> QED
  BY <1>1, AlwaysIInv, PTL

\* The endpoints ask for the status of a job before they change it: one that
\* ended is taken up again only by an assignment, which asks for none, or by a
\* request that had read it before it ended.
THEOREM FinishedJobsStay == Spec => FinishedStays
<1> DEFINE Takes(j) ==
        \E w \in Workers :
            \/ /\ req[w].pc = "commit" /\ req[w].job = j
               /\ req[w].op = "assign" \/ req[w].seen.status \notin Finished
            \/ req[w].pc = "assign" /\ j \in req[w].found
<1>1. ASSUME TInv, Next, NEW j \in Jobs,
             job[j].status \in Finished, job'[j].status \notin {job[j].status, "none"}
      PROVE  Takes(j)
  <2>1. job \in [Jobs -> Job] /\ job'[j] # job[j] /\ job[j] # NoJob
    BY <1>1 DEF TInv, TypeOK, NoJob, Finished
  <2>2. CASE \E i \in Jobs : Add(i)
    BY <1>1, <2>1, <2>2 DEF Add
  <2>3. ASSUME NEW w \in Workers, Commit(w) PROVE Takes(j)
    <3>1. req[w].job = j
      BY <2>1, <2>3 DEF Commit
    <3>2. /\ req[w].pc = "commit" /\ req[w].op \in {"assign", "cancel", "start", "complete", "fail"}
          /\ req[w].seen.status \in From[req[w].op]
      BY <1>1, <2>3, Operations DEF Commit, At, TInv, RequestsInPlace, InPlace
    <3>3. req[w].op = "assign" \/ req[w].seen.status \notin Finished
      BY <3>2, Operations DEF Finished
    <3> QED
      BY <3>1, <3>2, <3>3
  <2>4. ASSUME NEW w \in Workers, CommitDelete(w) PROVE FALSE
    <3>1. job' = [job EXCEPT ![req[w].job] = NoJob]
      BY <2>4 DEF CommitDelete
    <3> QED
      BY <1>1, <2>1, <3>1 DEF NoJob
  <2>5. ASSUME NEW w \in Workers, CommitAuto(w) PROVE Takes(j)
    <3>1. req[w].pc = "assign"
      BY <2>5 DEF CommitAuto, At
    <3>2. j \in req[w].found
      BY <2>1, <2>5 DEF CommitAuto
    <3> QED
      BY <3>1, <3>2
  <2>6. ASSUME NEW w \in Workers,
               \/ \E op \in DOMAIN From, i \in Jobs, p \in Printers \cup {"none"} : Call(w, op, i, p)
               \/ ReadJob(w) \/ ReadPrinter(w) \/ CallAuto(w) \/ ReadPrinters(w) \/ Abort(w)
        PROVE  FALSE
    BY <2>1, <2>6 DEF Call, ReadJob, ReadPrinter, CallAuto, ReadPrinters, Abort
  <2>7. ASSUME NEW p \in Printers, NEW active \in BOOLEAN, SetActive(p, active) PROVE FALSE
    BY <2>1, <2>7 DEF SetActive
  <2> HIDE DEF Takes
  <2> QED
    BY <1>1, <2>2, <2>3, <2>4, <2>5, <2>6, <2>7 DEF Next
<1>2. TInv /\ [Next]_vars =>
        [\A j \in Jobs : (job[j].status \in Finished /\ job'[j].status \notin {job[j].status, "none"})
             => Takes(j)]_vars
  <2> HIDE DEF Takes
  <2> QED
    BY <1>1
<1>3. IInv => TInv
  BY DEF IInv
<1> QED
  BY <1>2, <1>3, AlwaysIInv, PTL DEF Spec, FinishedStays
=============================================================================
