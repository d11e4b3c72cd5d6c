---------------------------- MODULE CobieQcJobs ----------------------------
(***************************************************************************)
(* The COBieQC jobs: the endpoint that takes a workbook, the background     *)
(* task that runs the checker, the record of a job on disk (job.json), the  *)
(* page that polls it, and the one permit for heavy work, which they share   *)
(* with the scans of IFC models for Excel.                                 *)
(***************************************************************************)
EXTENDS Naturals, FiniteSets

CONSTANTS
  Jobs,        \* requests to check a workbook, each creates at most one job
  Scans,       \* requests to scan a model for Excel
  MaxFaults,   \* bound: writes of a record or a log that raise
  MaxRestarts  \* bound: restarts of the server

ASSUME SetAssumption == IsFiniteSet(Jobs) /\ IsFiniteSet(Scans)

ASSUME BoundAssumption == MaxFaults \in Nat /\ MaxRestarts \in Nat

VARIABLES
  permits,  \* HEAVY_JOB_SEMAPHORE
  pc,       \* where a request, and then its background task, is
  status,   \* status in job.json
  torn,     \* job.json is truncated or half written
  result,   \* what the checker returned to the task
  report,   \* the report file: none, a part, all of it
  page,     \* the page that sent the request
  scanning, \* scans that hold a permit
  faults, restarts

record == <<status, torn>>
vars == <<permits, pc, record, result, report, page, scanning, faults, restarts>>

Init ==
  /\ permits = 1
  /\ pc = [j \in Jobs |-> "idle"]
  /\ status = [j \in Jobs |-> "none"]
  /\ torn = [j \in Jobs |-> FALSE]
  /\ result = [j \in Jobs |-> "none"]
  /\ report = [j \in Jobs |-> "none"]
  /\ page = [j \in Jobs |-> "none"]
  /\ scanning = {}
  /\ faults = 0 /\ restarts = 0

Request == {"probe", "check", "creating", "upload"}
Task == {"waiting", "begin", "beginning", "running", "reporting", "end", "ending",
         "except", "excepting"}
Holding == {"probe", "begin", "beginning", "running", "reporting"}
Holders == {j \in Jobs : pc[j] \in Holding}
Active == {"queued", "running"}

Goto(j, l) == pc' = [pc EXCEPT ![j] = l]

(* Leaving the with block returns the permit, also by an exception.         *)
Release(j) == permits' = IF pc[j] \in Holding THEN permits + 1 ELSE permits

(* write_text: the file is truncated, and then written.                     *)
Truncate(j) == torn' = [torn EXCEPT ![j] = TRUE] /\ UNCHANGED status
WriteStatus(j, s) ==
  /\ status' = [status EXCEPT ![j] = s]
  /\ torn' = [torn EXCEPT ![j] = FALSE]

-----------------------------------------------------------------------------
(***************************************************************************)
(* The request.                                                            *)
(***************************************************************************)

(* assert_heavy_capacity takes a permit and gives it back.                  *)
Probe(j) ==
  /\ pc[j] = "idle"
  /\ IF permits > 0
       THEN Goto(j, "probe") /\ permits' = permits - 1
       ELSE Goto(j, "refused") /\ UNCHANGED permits
  /\ UNCHANGED <<record, result, report, page, scanning, faults, restarts>>

Probed(j) ==
  /\ pc[j] = "probe"
  /\ Release(j)
  /\ Goto(j, "check")
  /\ UNCHANGED <<record, result, report, page, scanning, faults, restarts>>

(* The checker is not installed, the stage is not one, the upload is too     *)
(* large or not a workbook. A record that was created stays as it is.       *)
Reject(j) ==
  /\ pc[j] \in {"check", "upload"}
  /\ Goto(j, "refused")
  /\ UNCHANGED <<permits, record, result, report, page, scanning, faults, restarts>>

Create(j) ==
  /\ pc[j] = "check"
  /\ Truncate(j)
  /\ Goto(j, "creating")
  /\ UNCHANGED <<permits, result, report, page, scanning, faults, restarts>>

Created(j) ==
  /\ pc[j] = "creating"
  /\ WriteStatus(j, "queued")
  /\ Goto(j, "upload")
  /\ UNCHANGED <<permits, result, report, page, scanning, faults, restarts>>

(* The workbook is stored; the page is answered and begins to poll.         *)
Accept(j) ==
  /\ pc[j] = "upload"
  /\ Goto(j, "waiting")
  /\ page' = [page EXCEPT ![j] = "polling"]
  /\ UNCHANGED <<permits, record, result, report, scanning, faults, restarts>>

-----------------------------------------------------------------------------
(***************************************************************************)
(* The background task: _run_cobieqc_job.                                  *)
(***************************************************************************)

(* Variant: a refused task gives back a permit it does not have.            *)
Acquire_Returns(j) ==
  /\ pc[j] = "waiting"
  /\ IF permits > 0
       THEN Goto(j, "begin") /\ permits' = permits - 1
       ELSE Goto(j, "except") /\ permits' = permits + 1
  /\ UNCHANGED <<record, result, report, page, scanning, faults, restarts>>

(* Variant: a refused task ends without a word.                             *)
Acquire_Silent(j) ==
  /\ pc[j] = "waiting"
  /\ IF permits > 0
       THEN Goto(j, "begin") /\ permits' = permits - 1
       ELSE Goto(j, "over") /\ UNCHANGED permits
  /\ UNCHANGED <<record, result, report, page, scanning, faults, restarts>>

(* It does not wait for the permit: if there is none it ends as an error.   *)
Acquire(j) ==
  /\ pc[j] = "waiting"
  /\ IF permits > 0
       THEN Goto(j, "begin") /\ permits' = permits - 1
       ELSE Goto(j, "except") /\ UNCHANGED permits
  /\ UNCHANGED <<record, result, report, page, scanning, faults, restarts>>

Begin(j) ==
  /\ pc[j] = "begin"
  /\ Truncate(j)
  /\ Goto(j, "beginning")
  /\ UNCHANGED <<permits, result, report, page, scanning, faults, restarts>>

Begun(j) ==
  /\ pc[j] = "beginning"
  /\ WriteStatus(j, "running")
  /\ Goto(j, "running")
  /\ UNCHANGED <<permits, result, report, page, scanning, faults, restarts>>

(* The checker begins its report.                                          *)
Render(j) ==
  /\ pc[j] = "running"
  /\ report' = [report EXCEPT ![j] = "part"]
  /\ Goto(j, "reporting")
  /\ UNCHANGED <<permits, record, result, page, scanning, faults, restarts>>

(* Variant: the checker is taken to have succeeded once a report is begun.  *)
Rendered_Early(j) ==
  /\ pc[j] = "reporting"
  /\ result' = [result EXCEPT ![j] = "ok"]
  /\ Release(j)
  /\ Goto(j, "end")
  /\ UNCHANGED <<record, report, page, scanning, faults, restarts>>

Rendered(j) ==
  /\ pc[j] = "reporting"
  /\ report' = [report EXCEPT ![j] = "all"]
  /\ result' = [result EXCEPT ![j] = "ok"]
  /\ Release(j)
  /\ Goto(j, "end")
  /\ UNCHANGED <<record, page, scanning, faults, restarts>>

(* The workbook cannot be checked, the checker exceeds its time.            *)
CheckerFails(j) ==
  /\ pc[j] \in {"running", "reporting"}
  /\ result' = [result EXCEPT ![j] = "failed"]
  /\ Release(j)
  /\ Goto(j, "end")
  /\ UNCHANGED <<record, report, page, scanning, faults, restarts>>

EndWrite(j) ==
  /\ pc[j] = "end"
  /\ Truncate(j)
  /\ Goto(j, "ending")
  /\ UNCHANGED <<permits, result, report, page, scanning, faults, restarts>>

(* Variant: what follows the update raises, inside the same try.            *)
Ended_ThenRaises(j) ==
  /\ pc[j] = "ending"
  /\ WriteStatus(j, IF result[j] = "ok" THEN "done" ELSE "error")
  /\ Goto(j, "except")
  /\ UNCHANGED <<permits, result, report, page, scanning, faults, restarts>>

Ended(j) ==
  /\ pc[j] = "ending"
  /\ WriteStatus(j, IF result[j] = "ok" THEN "done" ELSE "error")
  /\ result' = [result EXCEPT ![j] = "none"]
  /\ Goto(j, "over")
  /\ UNCHANGED <<permits, report, page, scanning, faults, restarts>>

(* The handler of exceptions.                                              *)
ExceptWrite(j) ==
  /\ pc[j] = "except"
  /\ Truncate(j)
  /\ Goto(j, "excepting")
  /\ UNCHANGED <<permits, result, report, page, scanning, faults, restarts>>

Excepted(j) ==
  /\ pc[j] = "excepting"
  /\ WriteStatus(j, "error")
  /\ result' = [result EXCEPT ![j] = "none"]
  /\ Goto(j, "over")
  /\ UNCHANGED <<permits, report, page, scanning, faults, restarts>>

(* Variant: the handler writes an error without reading a torn record.       *)
Raise_Overwrites(j) ==
  /\ faults < MaxFaults /\ faults' = faults + 1
  /\ pc[j] \in {"begin", "beginning", "end", "ending", "except", "excepting"}
  /\ Release(j)
  /\ Goto(j, "except")
  /\ result' = [result EXCEPT ![j] = "none"]
  /\ UNCHANGED <<record, report, page, scanning, restarts>>

(* A log or a record cannot be written. The handler writes an error, unless   *)
(* it is the handler that raises, or the record is torn: it reads it first.  *)
Raise(j) ==
  /\ faults < MaxFaults /\ faults' = faults + 1
  /\ pc[j] \in {"begin", "beginning", "end", "ending", "except", "excepting"}
  /\ Release(j)
  /\ Goto(j, IF pc[j] \in {"begin", "end"} THEN "except" ELSE "dead")
  /\ result' = [result EXCEPT ![j] = "none"]
  /\ UNCHANGED <<record, report, page, scanning, restarts>>

(* The same in the request, which is answered with an error.                *)
CreateRaises(j) ==
  /\ faults < MaxFaults /\ faults' = faults + 1
  /\ pc[j] = "creating"
  /\ Goto(j, "refused")
  /\ UNCHANGED <<permits, record, result, report, page, scanning, restarts>>

-----------------------------------------------------------------------------
(***************************************************************************)
(* Scans, the page, and the server.                                        *)
(***************************************************************************)

(* A scan that finds no permit is refused, and nothing changes.             *)
ScanStart(s) ==
  /\ s \notin scanning /\ permits > 0
  /\ permits' = permits - 1
  /\ scanning' = scanning \cup {s}
  /\ UNCHANGED <<pc, record, result, report, page, faults, restarts>>

ScanEnd(s) ==
  /\ s \in scanning
  /\ permits' = permits + 1
  /\ scanning' = scanning \ {s}
  /\ UNCHANGED <<pc, record, result, report, page, faults, restarts>>

Readable(j) == status[j] # "none" /\ ~torn[j]

(* The page asks for the status until the job is over; one answer that is    *)
(* not ok, and it gives up.                                                *)
Poll(j) ==
  /\ page[j] = "polling"
  /\ ~Readable(j) \/ status[j] \notin Active
  /\ page' = [page EXCEPT ![j] = CASE ~Readable(j) -> "failed"
                                  [] Readable(j) /\ status[j] = "done" -> "fetching"
                                  [] OTHER -> "told"]
  /\ UNCHANGED <<permits, pc, record, result, report, scanning, faults, restarts>>

FetchResult(j) ==
  /\ page[j] = "fetching"
  /\ page' = [page EXCEPT ![j] = IF Readable(j) /\ status[j] = "done" THEN "shown" ELSE "failed"]
  /\ UNCHANGED <<permits, pc, record, result, report, scanning, faults, restarts>>

(* Requests, tasks and scans are lost; records that have become old are      *)
(* removed when the server starts.                                         *)
Restart(old) ==
  /\ restarts < MaxRestarts /\ restarts' = restarts + 1
  /\ pc' = [j \in Jobs |-> IF pc[j] \in Request \cup Task THEN "lost" ELSE pc[j]]
  /\ result' = [j \in Jobs |-> "none"]
  /\ permits' = 1 /\ scanning' = {}
  /\ status' = [j \in Jobs |-> IF j \in old THEN "none" ELSE status[j]]
  /\ torn' = [j \in Jobs |-> j \notin old /\ torn[j]]
  /\ report' = [j \in Jobs |-> IF j \in old THEN "none" ELSE report[j]]
  /\ UNCHANGED <<page, faults>>

TaskStep(j) ==
  \/ Acquire(j) \/ Begin(j) \/ Begun(j)
  \/ Render(j) \/ Rendered(j) \/ CheckerFails(j)
  \/ EndWrite(j) \/ Ended(j) \/ ExceptWrite(j) \/ Excepted(j)
  \/ Raise(j)

PageStep(j) == Poll(j) \/ FetchResult(j)

Next ==
  \/ \E j \in Jobs :
       \/ Probe(j) \/ Probed(j) \/ Reject(j) \/ Create(j) \/ Created(j) \/ Accept(j)
       \/ CreateRaises(j) \/ TaskStep(j) \/ PageStep(j)
  \/ \E s \in Scans : ScanStart(s) \/ ScanEnd(s)
  \/ \E old \in SUBSET Jobs : Restart(old)

(* A task that was started runs on, and an open page goes on asking.         *)
Fairness == \A j \in Jobs : WF_vars(TaskStep(j)) /\ WF_vars(PageStep(j))

Spec == Init /\ [][Next]_vars
FairSpec == Spec /\ Fairness

-----------------------------------------------------------------------------
(***************************************************************************)
(* Properties.                                                             *)
(***************************************************************************)

PC == {"idle", "refused", "over", "dead", "lost"} \cup Request \cup Task

(* The types of the variables; a record is torn only where one is written,   *)
(* or where a writer failed or was lost.                                   *)
TypeOK ==
  /\ permits \in Nat
  /\ pc \in [Jobs -> PC]
  /\ status \in [Jobs -> {"none", "done", "error"} \cup Active]
  /\ torn \in [Jobs -> BOOLEAN]
  /\ \A j \in Jobs : torn[j] => pc[j] \in {"creating", "beginning", "ending", "excepting",
                                           "refused", "dead", "lost"}
  /\ result \in [Jobs -> {"none", "ok", "failed"}]
  /\ report \in [Jobs -> {"none", "part", "all"}]
  /\ page \in [Jobs -> {"none", "polling", "fetching", "shown", "told", "failed"}]
  /\ scanning \subseteq Scans
  /\ faults \in 0..MaxFaults /\ restarts \in 0..MaxRestarts

(* At most one request probes, checks or scans at a time, and the permit is   *)
(* back when none does, whatever raised: single_flight_heavy_job.           *)
PermitConserved == permits + Cardinality(Holders) + Cardinality(scanning) = 1

(* A job that is done has its whole report.                                *)
DoneMeansReport == \A j \in Jobs : status[j] = "done" => report[j] = "all"

(* What a page was told of a job stays true, as long as there is a record.   *)
ToldIsTrue ==
  \A j \in Jobs :
    /\ page[j] = "shown" => status[j] \in {"done", "none"}
    /\ page[j] = "told" => status[j] \in {"error", "none"}

(* A page that polls is told an outcome, unless a writer failed or the        *)
(* server was restarted: then the record may say running for ever.          *)
EveryPageAnswered ==
  \A j \in Jobs : page[j] = "polling" ~>
    (page[j] \in {"shown", "told", "failed"} \/ faults > 0 \/ restarts > 0)
=============================================================================
