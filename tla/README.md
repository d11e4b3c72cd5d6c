# IFC Toolkit: formal models

TLA+ specifications of IFC Toolkit, the TLC configurations that check them on
small instances, and proofs checked by TLAPS.

## 1. Inventory

IFC Toolkit is one FastAPI process (`app.py`), a separate worker service
(`backend/reg38_ifc_worker.py`) and a Supabase project (PostgreSQL with
row-level security and `security definer` functions, object storage, auth).
The web process keeps its state in memory and under `APP_TEMP_ROOT`; whatever
must survive it lives in Supabase.

| Component | State | Operations | What is hard | What makes it correct |
|---|---|---|---|---|
| Regulation 38 scan queue (`supabase/migrations`, `backend/reg38_ifc_worker.py`, `ifc_app/reg38_projects.py`) | `ifc_files`, `ifc_processing_jobs` with lease token, worker and heartbeat; extracted rows; one process per worker | finalise, retry, re-run, remove; recover, claim, patch, insert, complete, fail | workers crash and restart; answers are lost; requests commit late; stale recovery takes jobs from live workers | one active job per file; one current lease; nothing is reported before its rows are stored; finished jobs stay; every scan ends |
| Browser sessions (`SessionStore` and the session endpoints of `app.py`) | one directory per session, in-memory time of last use | create, reuse, use, drop, clean-up, restart | endpoints run on a thread pool without a lock; a restart forgets the times | a session is kept until it expires or is dropped; a dropped session stays gone |
| Excel jobs (`backend/excel_jobs.py`, `backend/excel_job_runner.py`) | one JSON file per job, in-memory jobs, one executor thread, a child process per job | create, execute, poll, recover at start | crash between any two writes; child dies or outlives its parent | a finished job never changes; no job is stranded |
| Extraction jobs (`backend/ifc_jobs.py`, `backend/ifc_worker.py`, `run_data_extractor_job`) | rows of `ifc_extraction_jobs`, worker processes | enqueue, claim, progress, complete, fail, cancel | several workers poll one table; cancel races the worker; workers die | a job has one worker; every job ends |
| IFC QA runs (`ifc_qa_service.py`, `app.py`) | job registry; CSV outputs, zip and manifest in the session | run, add to zip, extract from session, poll, result, expiry | capacity check and start are separate steps; a run fails half-way | the summary, the zip and the files on disk belong together |
| COBie QC jobs (`cobieqc_service`) and COBie validation | job store with age-based clean-up; a Java or native runner with a timeout | run, poll, download, clean-up | the permit is probed and taken in separate steps; records outlive tasks | the permit is conserved; a result is shown only of a finished job |
| Upload of an IFC to Supabase (`static/reg38-ifc-upload.js`, `ifc_app/saas.py`) | signed URL, storage object, pending finalisation in the browser | initiate, PUT, finalise, replace, report failure | three systems, no transaction; "Retry finalisation" | the file row has an object; a replaced file goes |
| Spatial review, FireTrace lifecycle, fire strategy (`reg38_projects.py`, migrations) | rows of the project | edits and state transitions by RPC | edits racing a re-scan | curated fields survive a re-scan; transitions follow the life cycle |
| Authentication (`ifc_app/supabase_auth.py`) | cookie session with a rotating refresh token | sign in, refresh, sign out | concurrent requests refresh one token | a valid session is not lost |
| IFC editing tools (levels, layers, proxies, predefined types, write-back plan, flatten, purge, move, reduce, STEP) | an IFC file in the session | scan and apply | selection made on one scan is applied to a later file | result rules per element |
| Pages, static scripts, reference data, command-line tools | none that outlives a request | | | |

Every component, modelled or not, is listed in `PROJECT.json` with its sources;
every hazard is listed there at the line where it bites.

## 2. Modules and plan

| Step | Modules | State |
|---|---|---|
| 1. Scan queue | `ScanQueue` (promise), `ScanJobs` (detail), `ScanJobsProofs`; checked by `MCScanJobs` | checked and proved |
| 2. The web process and its jobs | `SessionStore`, `ExcelJobs`, `ExtractionJobs`, `QaRuns`, `CobieQcJobs` with the heavy-work permit; a `...Proofs` module and an `MC` module each | checked and proved |
| 3. The parts of Supabase around the queue | `IfcUploads`, `SpatialReview`, `FireTrace`, `AccountSessions`, `ProjectsProofs`; checked by `MCProjects` | checked and proved |
| 4. The tools on the files of a session | `CobieReport`, `CobieAssets`, `WriteBack`, `LevelEdits`, `AreaSpaces`, `LayerEdits`, `TypeEdits`, `ModelToolsProofs`; checked by `MCModelTools` | checked and proved |
| 5. Proofs still worth making | one abstract life cycle of a job, and that `ExcelJobs`, `ExtractionJobs` and `QaRuns` implement it, as `ScanJobs` does `ScanQueue` | planned |

There is one run per question: safety and liveness of the scan queue, the jobs
of each store, the projects and the tools; and a run of its own for each of
three disagreements between the code and what the repository says of it.
Further disagreements are described, with the lines that show them, in the
sections of their modules.

## 3. The scan queue

`ScanJobs` models the two tables, the functions the migrations install, the
worker loop and the calls of the web application. A PostgREST request is one
transaction and therefore one step. The pieces of `process_job` are the values
of `pc`; `held` and `heldToken` are the job record the worker was given.

* **Network.** Any worker request may time out or be answered 5xx; it then
  moves to `late`, from which it commits (`Arrive`) or vanishes (`Drop`). A
  claim that is late keeps the lock on its row (`Locked`), which
  `for update skip locked` skips and a removal waits for.
* **Crashes.** `Crash` may happen between any two requests; `Start` restarts
  the process under the same `worker_id`. A process that comes back under a new
  identity is another element of `Workers` that starts late.
* **Time.** `overdue` is the set of RUNNING jobs whose heartbeat is older than
  the stale interval. A job nobody works on becomes overdue freely; a live
  worker's job only `MaxSlow` times.
* **Rows.** The thirteen tables of `insert_result` are two groups: those that
  reference the file and go with it, and those that belong to the project
  (spaces, zones, fire requirements), which `remove_reg38_ifc_model` deletes
  for the whole project. Because a removal can take project rows from a scan
  that is being reported, `ResultsBeforeReport` speaks of the first group.

Abstractions: one project; identifiers are numbers in order of creation; the
check of `rerun_model_scan` that the file is the newest is made before its RPC
and nothing keeps it true, so `Rerun` accepts any file; the object of a removed
file is gone from storage, so a removed file is not finalised again; row-level
security's permission for an editor to delete single jobs is left out. Requests
of the web application that time out are covered by the fact that a user may
issue any of them at any time.

| Run | Bounds | Shows |
|---|---|---|
| `scan_safety` | 2 workers, 2 files, 2 jobs, 1 fault, 1 slow stage | leases, reports, history, the promise, a removal of one model against a scan of the other |
| `scan_live` | 2 workers, 1 file, 1 job, 2 faults, 1 slow stage | a lost lease is resumed, every scan ends |
| `scan_remove_one_model` | 1 worker, 2 files, no faults | removing one model takes the rows of another |

Two workers are enough for every race of the queue: one that lost a lease and
one that has it. Two jobs give a finished one and an active one of a file, or
one job for each of two files. Two faults give a lost answer and a crash in the
same history. Workers are symmetric in the safety run.

*Fairness.* `FairSpec` assumes that a worker that can take a step takes it
(Railway restarts it on failure, up to three times, which bounds `MaxFaults`).
`ScansResumeAndEnd` has two parts: that every scan ends assumes besides
(`TimePasses`) that the heartbeat of an abandoned job grows old, and that a late
request commits or vanishes; that a lost lease is resumed does without. Neither assumes that the user does anything,
nor that progress callbacks come.

Seen while modelling and not given a run of their own: `retry_reg38_ifc_job`
accepts a file as soon as any of its jobs failed, also when the newest one
completed, although its message says "Only a failed scan can be retried"; and a
repeated `finalize_ifc_upload` queues a second scan once the first has ended,
although the migration calls it idempotent.

*Proofs* (`ScanJobsProofs`). The safety properties are not inductive, because
what a worker or a late request may do next depends on what it did before.
`IInv` adds: the rows that exist and the files they reference (`RowsKnown`); a
worker holds a job exactly inside `process_job` (`WorkerHolds`); tokens never
exceed `lastToken`, and a lease that holds is held by the worker on record
(`LeaseOwner`); a late claim is alone on a queued row (`ClaimsLock`); whoever
may still report a success has stored the rows, or the file is gone
(`Results`); whoever may still mark a file as failed has recorded a failed job
(`Failures`). A step is then looked at three times: what it does to the
database (`DBStep`), to the workers (`LocalStep`) and to the late requests
(`LateStep`); each lemma on a conjunct of `IInv` needs one or two of the three
views. The theorems listed in `PROJECT.json` follow from `Invariance`. The last
one is the refinement of `ScanQueue`: a claim is `Begin`, stale recovery is
`PutBack`, the first group of inserts is `Store`, a terminal patch is `Finish`,
a removal is `Forget`, and what the promise does not see stutters. They hold
for every number of workers, files, jobs and faults, from the two assumptions
on the constants. `IInv` was checked by TLC on the instance of the safety
run before it was proved. `ScansResumeAndEnd` is
model-checked only.

## 4. COBie QC jobs and the heavy-work permit

`CobieQcJobs` models `POST /api/tools/cobieqc/run` and the background task it
leaves behind. `pc` is where the request and then its task is; `permits` is
`HEAVY_JOB_SEMAPHORE`, which a request probes (`Probe`, `Probed`), a task holds
while the checker runs (`Acquire` to `Rendered` or `CheckerFails`), and Excel
scans hold too (`ScanStart`, `ScanEnd`). `status` and `torn` are `job.json`, which
is truncated (`Create`, `Begin`, `EndWrite`, `ExceptWrite`) and then written
(`Created`, `Begun`, `Ended`, `Excepted`): `torn` says that it cannot be read, in
between or for good. `page` is the page in `static/cobieqc.js` that polls.
`Raise` is an exception in the task outside the checker: the permit goes back, and
the handler writes an error, unless it is the handler that fails or the record is
torn. `Restart` loses requests, tasks and scans, keeps records, and removes any
set of them as old, which is `cleanup_old_jobs` at start-up.

Abstractions: a permit that is not there is one step (`acquire(blocking=False)`);
the log file is left out except that writing it may raise; only a request's own
task writes its record, so reading it belongs to the step that truncates it.

| Run | Bounds | Shows |
|---|---|---|
| `cobieqc` | 2 requests, 1 scan, 2 faults, 1 restart | the permit is conserved; done jobs have a report; what pages are told stays true; pages are answered |

Two requests and a scan make every competition for the single permit: for two
tasks, for a task and a probe, and for a task and a scan. Two faults let the
handler fail on what another fault left. *Fairness*: a task runs on and an open
page goes on polling; scans need not end. The liveness property asks nothing once
a write has failed or the server was restarted: a record may then say "running"
for ever.

*Proved* (`CobieQcJobsProofs`, for any finite number of requests and scans):
everything but the liveness. `Settled` is the strengthening: an outcome is the
last thing a task writes, so nobody can contradict what a page was told. The
permit is proved by counting: each step that enters or leaves the steps in
`Holding` changes `permits` the other way.

Seen while modelling: a request that asks for capacity holds the only permit for
a moment, and a task that begins just then ends with "Another heavy IFC job is
already running" although none is; an upload rejected after `create_job` leaves a
queued record; a poll that meets a record being rewritten answers 500, and the
page gives up on a job that goes on to finish.

## 5. Excel jobs

`ExcelJobs` models `ExcelJobStore` in the web process, its executor threads, one
child process per job, and the files they share. `mem` is `_jobs` of the web
process, `disk[j]` and `tmp[j]` are the status stored in `<job>.json` and
`<job>.tmp`. `_persist` is two steps, the write of the temporary file and the
rename, both under `_lock` in the web process (`LockFree`); the rename takes
whatever the temporary file holds, and raises if another process has moved it.
`request[j]` follows `create`, `pc[e]` a thread in `_execute`.

The child does `from app import ...`, which executes `app.py:489` again: every
child builds a store on the same directory and runs `_recover`. That is why
`RecoverRead`, `RecoverWrite` and `RecoverReplace` are parameterised by the
process, the web process at its start or the child of a thread. An exception in
the import is inside the `try` of the runner, so it becomes the failure of the
child's own job.

The container starts uvicorn as its first process (`exec uvicorn`), so a crash
of the web process takes its children along. An orderly shutdown waits for the
executor and is then covered by a crash at a later moment. A job file is written
by one call; a half-written file is not modelled.

`backend/ifc_worker.py:6` imports `app` too, so the worker of the data extraction
(`README.md:228`) recovers a store when it starts. The container of the repository
does not start it, and Railway's containers share no disk
(`docs/railway-deployment.md:41`), so it is not one of `Procs`; but it opens files of
the session (`ifc_worker.py:35`), which takes a common `APP_TEMP_ROOT`. There its
start is a recovery that no thread waits for, and what is said of one thread below
holds only as long as no Excel job is active when it starts, as with two threads.

| Run | Bounds | Shows |
|---|---|---|
| `excel` | 1 or 2 threads, 2 jobs, 2 crashes, 1 failed write or spawn | answered jobs are known, whatever happens; with one thread outcomes are durable and final and every answered job ends |

`pool`, the threads there are, is chosen in `Init`, so one run covers both
settings of `EXCEL_JOB_WORKERS`. That a finished job is durable and its
outcome final (in `AnswersStayTrue`), and `EveryAnsweredJobEnds`, say nothing
of two threads (`OneThread`) or after a failed write or spawn (`faults = 0`),
where they do not hold. Two jobs give one that is queued or finished while the
child of the other recovers, and two crashes one that interrupts a recovery.

With the default of one thread the recovery of a child writes wrong statuses to
disk (its own job and every queued one are stored as failed), but the thread
stores the right one afterwards, and a crash in between really interrupts them:
`excel` shows that nothing of it is seen.
*Fairness*: the container restarts, processes and threads run on, a conversion
ends (`subprocess.run` has no timeout: this is assumed, not ensured).

Seen while modelling and not given a run: with two threads the child of one job
renames the temporary file of another under way, `os.replace` then raises in
`_execute`, and the job is polled as running for ever (`excel_jobs.py:48`); or a child that read a
file as running can replace it after the web process completed the job, and the
next restart shows a completed job as interrupted (`excel_jobs.py:63`); an
exception of `subprocess.run` or of `_persist` in `_execute` leaves the job
running for ever (`excel_jobs.py:101`).

*Proved* (`ExcelJobsProofs`, for any number of jobs, threads, crashes and
faults): the types and `AnswersStayTrue`. Its first part, that an answered job is
never forgotten, rests on `AnsweredIsKnown` (it has a file, and is in memory or
among the files a recovery has still to read) and on children being waited for
(`ChildrenWaitedFor`). The parts about one thread rest on `InOrder`: queued jobs
are queued once and untouched, the thread at work owns its job, the recovery of a
child rewrites only files of active jobs (which is why the child's recovery does
no harm to an outcome), and an outcome is on disk unless it is just being stored.

## 6. The extraction queue

`ExtractionJobs` models the table `ifc_extraction_jobs`, the endpoints that
create and cancel jobs and the processes of `backend/ifc_worker.py`. Every
function of `ifc_jobs.py` opens a connection, runs one statement and commits,
so it is one step; a call of the worker may fail before or after its commit
(`Fault`), and the caller sees an exception either way. `pc` follows `run_once`
and the calls of `run_data_extractor_job` that change a row; `job` is the
claimed job. `cancel_ifc_extraction_job` is two steps because it is two calls.
The tables, CSV files and the archive are one step (`Extract`) which succeeds or
raises: progress updates change neither status nor result. `session` stands for
the session directory the jobs read.

| Run | Bounds | Shows |
|---|---|---|
| `extraction` | 2 workers, 2 jobs, 1 client, 2 cancels, 2 faults | a job is claimed once; stranded jobs are at most as many as faults; without faults every job ends |

There is no recovery of stale rows here (unlike the scan queue), so a crash
leaves a job `running` for good: that is why `EveryJobEnds` gives up after a
fault and why `RunningHasOneWorker` counts faults. Two jobs and two workers are
enough for two claims to meet, and two cancels for both jobs to be cancelled.
Jobs are finite and never created again, so the system may stop and deadlock is
not checked. *Fairness*: a worker process takes the step it can take, and an
endpoint that has begun finishes.

Seen while modelling and not given a run: `update_job` updates by id alone, so a
cancelled job runs on and becomes `done`, and a cancel request that looked at a
running job cancels a finished one, while the page stops asking at the first
outcome (`static/app.js:2644`); and the last emit passes `error=False` to
a column of type text, where it becomes `'false'`; `get_data_extractor_status`
answers `bool('false')`, and the page shows the finished job as failed.

*Proved* (`ExtractionJobsProofs`, for any number of jobs, workers, clients and
faults): `RunningHasOneWorker`, and that while nothing has failed every running
job is held (`FaultlessRunsAreHeld`). The property counts, and is not inductive:
the invariant adds that a worker has a job exactly between its claim and its next
poll (`Engaged`), that a job which can be claimed never was (`Counted`), that
workers have different jobs (`Exclusive`) and that the stranded jobs are finite
and each cost a fault (`Paid`). A lemma reduces the steps of a worker between
claim and poll to one form (`Works`), about which the counting is proved once.
`TypeOK` is proved with it and in no run.

## 7. Tools on the files of a session

Seven tools read IFC files or workbooks and write others. They share nothing but
the directory of the session, so `MCModelTools` checks them side by side like
`MCProjects`: one of them acts in a behaviour (`tool`), the others rest in an
initial state. What is wrong with such a tool hardly shows in a test with one
file and one call: it takes a second call on the output of the first, a file
that is no longer the one scanned, a failure between two writes, or two elements
that share what one of them changes. The states are therefore small files, and
the actions the calls a user makes, in any order.

* `CobieReport`: one check by `run_cobieqc`, over the Java runner or the native
  engine with Saxon or lxml and either page. A pattern is known by the worksheet
  whose rows it checks. External: the compiled rules (`Checked`) and the legacy
  stylesheet (`Legacy`).
* `CobieAssets`: the bootstrap that every request makes first, step by step on
  the disk, with a crash or a failed download anywhere, and the job of an earlier
  request that may start meanwhile. Files are present or not; their contents and
  where they came from are not told apart.
* `WriteBack`: export, editing, plan, application, writing, verification and the
  hidden baseline of the Excel round trip, with shared types, property sets,
  materials and classification references, and further writes of the same
  workbook to either file.
* `LevelEdits`: the page's queue and the server's batch, action by action on the
  working file, for two pages. A height is the z of the point of a placement,
  which is changed in place; two placements may share one (`twin`). Whether the IFC library lets inverse attributes be assigned is a constant of
  the behaviour (`settable`), because the code relies on it.
* `AreaSpaces`: scan (opened, or streamed line by line for large files), ticks,
  the purge in its child, which may die anywhere, and uploads under the name of
  the scanned file. Requests block the event loop and follow one another.
* `LayerEdits` and `TypeEdits`: scan, review on the page, application to the
  file that is selected by then.

| Run | Bounds | Shows |
|---|---|---|
| `models` | 2 worksheets, 2 phases, 1 row of the workbook; 2 resource files, 1 library, 2 requests; 2 occurrences of one type, 1 edit, 2 writes; 2 storeys, an element and a space whose points may be one, 2 pages with 2 actions; 2 spaces, 1 relation, 2 versions, 1 replacement; 2 elements, 2 layer names, 1 change of the file; 2 objects, 1 type, 1 class, 2 words | each tool's property below |

The bounds are those at which sharing and repetition begin: two things that share
one, two calls of which the second works on the first one's result, two pages.
With one edit and one value TLC meets requests that disagree with what a workbook
already says, but never two edits that conflict; that case rests on the proof of
`OutputIsFaithful`, which bounds neither.
`MCModelTools` leaves out initial files that say no more than others (`FewLayers`,
`FewTypes`, `FewLevels`, `FewSpaces`, `FewAssets`) and names what it leaves out.
Nobody has to use a tool, so deadlock is not checked and no fairness is assumed.

* `ReportShowsFailures`: a check answered with success hides no faulty row of a
  worksheet the phases look at, and says when it could not be carried out.
* `JobsFindTheirResources`: an accepted job finds complete resources when it
  starts and keeps them while it reads; after any crash the next bootstrap
  completes them or says what is missing.
* `OutputIsFaithful`: a write has done what the workbook asks and no more, and
  the same workbook written to its output changes nothing.
* `ElementsKeepTheirLevel`: a batch that ran undisturbed leaves every element in
  exactly one existing level, and what it did to the z of one that shares its point
  with none adds up to the difference of the levels.
* `PurgeIsExact`: the output of a purge lacks exactly the ticked area spaces and the
  relations that held nothing else; one answered with success had nothing to purge.
* `ReviewIsCarriedOut`: the written file has every element on the layers of the
  review, and no empty layer.
* `ThingsFitTheirTypes`: a type gets no value its class does not define, but
  USERDEFINED where its name has none, and a proxy whose type was converted is of
  the class the schema has for its occurrences, or a proxy still.

Where the properties stop, and what was seen there:

* No downloaded jar is ever installed: `_download_to_temp` returns a
  `DownloadResult`, and `bootstrap.py:592` validates it as if it were a path. The
  old jar is removed before. The tests replace the function by one that returns a
  path (`tests/test_cobieqc_bootstrap.py:297`). `_sync_resource_folder_from_source`
  (`bootstrap.py:441`), step 3 of `docs/cobieqc-resource-folder-bootstrap.md`, is
  never called.
* A page of the native engine stops at a thousand groups (`engine.py:1412`); a
  fallback evaluation reports 0 failures in its summary (`engine.py:1289`).
* A cell turned back to the exported value asks for nothing, so the earlier write
  stays (`ifc_write_plan.py:102`); the last row decides a shared classification
  code (`app.py:2704`); a material may go back on the second write
  (`ifc_excel_native_plan.py:52`); the output of a write that failed its
  verification stays in the session.
* A class asked for a type is expanded to its members (`ifc_excel_native_plan.py:131`),
  and the baseline takes the value that is read when a row is first expanded
  (`ifc_write_plan.py:101`), which may be an earlier write's. So a class edited
  after the first output was taken may reach the type and not its members: class A
  for the occurrences and a write; those cells emptied, class B for the type and a
  write; class A for the type and a write leave the type A and the occurrence B,
  though `docs/excel-native-roundtrip.md:67` speaks of coherent requests.
  `OutputIsFaithful` is stated of workbooks whose classes stay as they were first
  written (`Steady`), and that empty no cell before the first write (`Complete`).
* Batches of two pages share `{base}_levels_work.ifc` and mix (`app.py:8767`). An
  object moved to another storey has the z of its placement changed, "Adjust
  placement to keep world position" (`app.py:3302`), but the placement stays
  relative to the storey it was made in, so its place in the world changes by the
  difference of the elevations. The point is changed in place (`app.py:3046`;
  `app.py:3031` makes a new one for another tool), so it takes along whatever
  shares it, twice if both are moved. An edited elevation moves no placement
  (`app.py:3381`), and spaces that were moved stay aggregated to the old storey.
  `ElementsKeepTheirLevel` therefore speaks of elements, of levels that the file
  holds, and of the z of points that are not shared, never of the world. Points
  shared with the placement of a storey are left out. The tools that set one height
  raise whenever they are given a target (`app.py:3146`) and are not modelled.
* No purge of a file with an area space is reported complete: the columns of the
  report (`area_space_purge_worker.py:27`) lack the `confidence` that every row has
  (`ifc_area_spaces.py:58`, `area_space_purge_worker.py:101`), `csv.DictWriter`
  raises, the child ends with 1, and the request with 500 (`app.py:7306`), though
  the output is written, exact and offered for download. `PurgeIsExact` is of that
  output, and says of a success that there was nothing to purge.
* A purge killed while it writes leaves a truncated file among the downloads; rows
  of a streamed scan that are known by their place only may name a space that was
  deselected.
* A layer settled for unassigned elements may be renamed by the same review; rows
  of classification candidates change nothing when approved.
* A class without an occurrence class in the schema (`IfcPumpType` and
  `IfcValveType` of IFC2X3, `app.py:3805`) leaves the occurrences of a converted
  type proxies (`app.py:3991`, `4021`); a name without a literal of its class gets
  USERDEFINED, whatever the class defines (`app.py:3795`). Both are modelled
  (`Occurrences`, `Literals`) and excepted from `ThingsFitTheirTypes`.
* A predefined type that the other target of a row does not have raises out of the
  endpoint (`app.py:4707`); an occurrence rewritten from a proxy keeps the proxy's
  attribute list; `README.md:124` says the type becomes NOTDEFINED where the code
  sets the literal that matched.

*Proved* (`ModelToolsProofs`, for any files and any bounds), each with an
invariant of the tool's own:

* `ReportShowsFailures`: every phase applied left its failures among the groups
  (`PhasesAreCovered`, kept by the merge, by roles and by the fallback, which
  forgets the phases it replaces), no row but a blank one is lost on the way
  (`RowsAreKept`), and the page shows the groups (`PageShows`).
* `JobsFindTheirResources`: what a bootstrap has found missing is noted
  (`AssetsNoted`), the packaged resources are valid while the configured directory
  is swapped (`AssetsUsable`), so at any point of another request's bootstrap a
  waiting job has a complete directory to choose, and one that reads has the one
  it chose (`AssetsServe`).
* `ElementsKeepTheirLevel`: each action of a batch, applied to any file, keeps an
  element on one level unless it leaves it behind, and changes the z of an unshared
  point by the difference of the levels (`AdjustedHeights`)
  (`CarriesOver`, a lemma per kind of action); the invariant carries that along
  the batch (`Carried`) through the working file, which nobody else writes while
  the batch is undisturbed (`BatchIsCarried`).
* `PurgeIsExact`: what the page has scanned belongs to the version of the file it
  names, and the worker works on that version with the rows the page has ticked
  (`AreaChildOK`); a file without area spaces has nothing to prune (`PurgedNothing`).
* `ThingsFitTheirTypes`: a row is of an object as the uploaded file has it
  (`RowsOK`), a proxy whose proxy type could be read follows it through every
  rewriting (`Follows`), and a type that was converted has a value of its class or
  what the rewriting writes for want of one (`Fits`).

* `ReviewIsCarriedOut`: each layer of the file after the review is an old one, or
  one settled for a class that holds exactly the elements of the class
  (`AssignedOnce`), and whatever comes to bear the name of a settled layer is that
  layer. Layers may have equal names and there may be any number of them; that the
  first of a name exists needs the least of a set of numbers (`LeastNumber`).
* `OutputIsFaithful`: the invariant tells what earlier writes left (`History`).
  Before an output was taken, what was exported and what the baseline knows is
  what the source says; afterwards every cell that was asked for is known, with
  the value of the workbook it came from, and what was asked is done. A request
  that is routed comes from a row (`Origins`), of its own type or of the one the
  type was split from. The verification then gives `AsAsked`, and that no requests
  conflict gives `NoMore` and `OneClass`; a write of the same workbook asks only
  for what is there (`NotAgain`).
* The whole (`ToolsAreTyped` and `ToolsKeepTheirPromises`): a behaviour of
  `MCModelTools` is one of one tool, of which its theorems hold, while the others
  rest in an initial state that satisfies what they promise.

The proofs assume of the constants what the modules assume: bounds are natural
numbers, sets that are counted are finite, ids of new levels are new, a file has a
storey, no value of a cell is the empty text. The values of `Proposed` in
`TypeEdits` had to be given by an `IF` in the order of the code, since the cases of
a `CASE` overlapped, and the baseline of `WriteBack` by a function instead of the
`@@` of TLC, which the provers cannot expand.

## 8. Projects, reviews and accounts

Four parts of the workspace that talk to Supabase. They share no row that the
properties speak of, so `MCProjects` checks them side by side: a behaviour is a
behaviour of one of them (`part`), and the others rest. A handler of the web
application sends its requests one after the other without a transaction around
them; in every module a step is one request, and any of them may fail.

* `IfcUploads`: the page of `static/reg38-ifc-upload.js` with its three variables
  (`currentUpload`, `pendingFinalization`, `replacement`), the handlers of
  `saas.py`, the object store and `ifc_files`. The signed PUT goes past the
  handlers, so a failure report, a retry, a removal and the PUT itself overlap.
  The catch of `upload` also gets the error of a finalisation, and reports it like
  a failed upload if nothing awaits finalisation any more (`Disowns`).
  Deletion of a draft project is included. What the database functions do to
  jobs and rows of a scan is in `ScanJobs`.
* `SpatialReview`: edits of spaces, and creation and update of a zone (several
  requests: read the members, insert, delete, patch) beside the worker's
  `insert_result`, which reads the curated fields and writes them back in
  batches. Of one zone; geometry and plans are data.
* `FireTrace`: `fire_strategy` (read, seed, read again), decisions, the
  completion of the setup, evidence requirements with uploads in six requests,
  and their review. `complete_firetrace_setup`, `upload_evidence` and
  `review_evidence` are methods of the repository that no route calls at this
  commit; they are modelled as they are, for whoever will call them.
* `AccountSessions`: one browser, its cookie, the middleware of
  `supabase_auth.py` with validation, refresh, entitlement and sign-out, and the
  Auth server (external), which keeps generations of tokens. A response sets the
  cookie when it arrives, not when it was made.

| Run | Bounds | Shows |
|---|---|---|
| `projects` | per part two concurrent requests, two models, spaces, objects or uploads, one failed request; 3 edits, 2 re-scans; 1 sign-in, 3 token generations | a recorded model keeps its object; evidence can be traced; edits outlive re-scans; a session the Auth server ended stays ended |
| `fire_decisions` | the same | two loads of the fire review undo a decision |

Two requests under way are enough for each of these protocols, since every
conflict is between a request and what it read before; three edits let an edit
come before, during and after a re-scan. One session per history is enough for
the properties of a session; that a second sign-in replaces the first cookie is
not looked at. Everything may stop when nobody asks for anything, so deadlock is
not checked, and nothing here has to happen: no fairness is assumed.

Where the properties stop: when a second upload is finalised while a retry of the
first succeeds, the page forgets what awaits finalisation (line 96), and a lost or
refused answer to the second makes it report the recorded model as a failed upload
(lines 78-87), whose clean-up deletes the object, though the docstring of
`cleanup_failed_upload` speaks of one "that never reached atomic finalization";
`ModelsAreKept` leaves these models out (`disowned`). The object of a failed upload
may stay in storage without a row; a sign-out that does not reach the Auth server,
or comes with an expired access token, clears the cookie and leaves the session
alive there; deletion of a draft empties its storage before the database is
asked whether it is one; an edit between the worker's read and its write of the
same space is lost; a submission whose upload failed half-way has no object; two
reviewers of two submissions leave the requirement with the status of the slower
one; and with two requests at a time, or an answer of the Auth server that is
lost, a browser may end with tokens that were refreshed away, and is signed out.

*Proved* (`ProjectsProofs`, for any bounds): a behaviour of the whole is a
behaviour of every part (`PartsBehave`), so what the parts keep the whole keeps:
its types, and the four properties of the run.

* `ModelsAreKept`: models a handler or the page knows are recorded or on their way
  (`UploadsKnown`), nobody but the page has heard of the model it is sending
  (`SendingIsNew`), an upload reported as failed is not going to be recorded, unless
  it is reported for its finalisation (`ReportsAreFailures`), and removals were asked for (`RemovalsAreAsked`).
* `EvidenceIsTraceable`: where an upload is says what there is of it
  (`UploadTraced`), and the versions are 1, 2, ... (`Numbered`), so the newest one
  read is that of the last submission and the unique index lets one of two racing
  uploads through. The set of uploads is assumed finite.
* `ReviewIsKept`: the worker that has yet to write a space carries the edit its
  reviewer may expect (`EditsCarried`); the part about zones needs no invariant.
* `SessionsEndAndLast`: a request that shows a token to the Auth server has one
  (`TokenAtHand`), one past the check has no session that had been ended when it
  began (`CheckedInTime`), and undisturbed the cookie and the requests under way hold
  tokens in the order they were issued (`TokensInOrder`).

## 9. IFC QA runs

`QaRuns` models the runs of one browser session. `run` and `extract` start jobs
that replace the session's outputs, `add-to-zip` jobs that append. A request
asks `has_active_ifc_qa_job` (`Ask`), reads its uploads, which awaits
(`pc = "upload"`), and starts a thread (`Start`); `pc` then follows
`run_session_job`. `status` is the registry, `listed` the manifest in the
thread's memory, `saved` the one on disk, `out` the CSV files of a model (none,
some or all of them), `zip` what `IFC Output.zip` holds. A zip and a manifest
are written in two steps, because they are truncated first: `torn` says that
`manifest.json` cannot be read, in between or for good. `Expire` is
`Registry.cleanup` a day later, which any status or result request calls.
`EndSession` is `SessionStore.drop`, by the page or a clean-up, which removes the
directory whatever works in it: `session` is then `"gone"`, what threads hold
open is cut off (`cut`), and most of what a thread does next makes the directory
`again`, because it is made with its parents (`Remade`). The zip is not, and a
job that comes to it fails (`ZipLost`), unless it was being filled, when nothing
asks for it (`FillRemovedZip`). Two failures stand outside the `try` of the
thread and leave the job queued: directories that cannot be made (`Stranded`)
and a manifest that cannot be read (`pc = "unread"`).

Abstractions: reading a model (`Collect`) and writing its CSV files
(`WriteOutputs`) are one step each, and either may fail at any point. The files
of a request are a set, because a second file of one name replaces the first.
The copy of the zip next to the session is not told apart from the zip. Jobs of
other sessions, which `has_active_ifc_qa_job` also counts, refuse a request like
jobs of this one. The removal of the directory is one step; a directory that is
removed while a thread makes it is one of the faults of `Stranded`. A restart
removes the session (see the browser sessions).

| Run | Bounds | Shows |
|---|---|---|
| `qa` | 2 requests, 2 models, 1 directory or write that raises, files that fail, jobs that expire, a session that ends | summary, table, zip and outputs agree; complete means all; appending keeps the rest; refusals are explained; threads end |

Two requests make every pair of a replacing and an appending run, one after the
other or overlapping, and a run that meets the manifest an earlier one tore.
Two models make files that one run stores and the other does not touch.
`MCQaRuns` leaves out behaviours in which jobs overlap *and* the session ends, a
write raises or a job expires (`OneDisturbance`): no property but the types and
the end of threads says anything of them; without that restriction TLC also
finds nothing, in 3,250,049 states, for everything but the liveness, with a
session that ends once.
*Fairness*: a started thread runs on; requests need not come, so deadlock is not
checked.

The check for an active job does not keep jobs apart: both requests can pass it
before either starts. `overlap` records that; every property except the types and the end of threads
is about jobs that did not overlap. What a run reports is also not asked to be
true once the session has ended: a job that is under way then goes on, in the
directory it makes again, and may report complete although the outputs of its
earlier files are gone. The summary is not asked to match after a write has
failed (the zip is stored before the manifest) or a job has expired (expiry
removes the zip of the session, whoever wrote it last). A file that fails
half-way leaves some of its outputs in the zip: `SummaryMatchesZip` says that
the zip has what is on disk, and that summary and table list exactly the models
whose outputs are complete.

*Proved* (`QaRunsProofs`, for any number of requests, models and faults): every
property of the run except the liveness. The invariant says that one thread works at a time (`Alone`) and, while the
session is open, belongs to the only active job that is not stranded
(`ActiveAlone`), that each file of its request is waiting, in work, failed or stored
(`FilesKept`), and that what is listed is what is stored at every point of a job and
between jobs (`ListedIsStored`). The properties are not inductive without it:
that a report is true depends on nobody having touched the outputs since.

Seen while modelling: a save of `manifest.json` that is cut short strands the
next run of that session as queued, because the manifest is read before the
`try`, and so does a directory that cannot be made; every run on the replica is
then refused ("already running") until the job expires. A session that is ended
in mid-job comes back, with a part of what the job was to store, and the job may
report complete.

## 10. Browser sessions

`SessionStore` models the class of that name in `app.py` and the endpoints that
create, use and end sessions. `dir` is the set of session directories on disk,
`known` the keys of `sessions`, `old` those whose time of last use is before the
cutoff; `Expire` is the passing of `FILE_RETENTION_MINUTES`. Endpoints run on a
thread pool and nothing is locked, so a thread takes one step per access to the
file system or to `sessions`: `pc` names the access. `create_session` cleans up
first and then reuses or creates; every other endpoint calls `ensure` and works
(`Work`, which may make directories with their parents); `end_session` drops.
`alive`, `ended` and `keep` record what clients were told, `overlap` whether two
requests were ever served at once or the process restarted.

Abstractions: the listing of stale sessions and `os.listdir` are one step each;
`exists` looks and notes in one step, because `touch`, which follows it, looks
and notes in two. Identifiers are never reused (uuid4). A restart kills every
request and runs `startup_cleanup` before anything is served (`Serving`).
Requests need not come, so the system may stop and deadlock is not checked.

| Run | Bounds | Shows |
|---|---|---|
| `session` | 2 threads, 2 sessions, 1 restart | what a clean-up spares for certain; kept, gone and bookkeeping, for requests one at a time |
| `session_restart` | 1 thread, 1 session, 1 restart | all directories are lost at start, against the documentation |

Two threads show every race of two methods. `CleanUpSparesSessionsInUse` needs
the exclusion of sessions that another thread is removing (`Doomed`): without it
TLC finds a session that one clean-up saw as stale, that was used and made again
meanwhile, whose bookkeeping the first clean-up then removes, and whose directory
a second clean-up takes for stray. The same can happen to a session that was in
use when a clean-up began, if it expires during that clean-up, and takes three
threads: the proof for any number of them failed there, and TLC with three found
the behaviour. `Expire` therefore takes the session out of what every clean-up
under way has to spare (`keep`): the promise is for sessions that have been in
use ever since it began.

*Proved* (`SessionStoreProofs`, for any number of threads, sessions and
restarts): the types, `SessionsAreAsTold` and the action property
`CleanUpSparesSessionsInUse`. For the latter the invariant says of every clean-up
what stands between it and the sessions it has to spare (`Spared`): none of them
is among the stale ones it listed, none that it takes for a stray is known. For
the former it says that without overlap one thread at most is at work (`Alone`)
and what each point of a request has done so far of what it tells (`Told`).

Seen while modelling: with overlapping requests (the properties conditioned on
`~overlap`) a clean-up can remove the directory another request has just made
for a new session (`app.py:426`), or a session used again after it was listed as
stale (`app.py:451`), and an endpoint that works in a session while it is ended
makes its directory again (`app.py:7749`).

## Limits common to all modules

Liveness and fairness are checked by TLC only. Counters are bounded by the
constants whose names start with `Max`; each module names its bounds where the
constants are declared.

Every invariant and every step property (`[][A]_vars`) of the passing runs is also
proved for all values of the constants. The invariants of the proofs were
checked by TLC on the instances of the runs before they were proved. Out of the
provers' reach, and so checked by TLC only: what must eventually happen, and
sums or recursion over data of any length.

*Not modelled*, besides what the modules name themselves: geometry (flattening,
moving and rotating, the file-size reducer, STEP conversion, the Regulation 38
processor), which needs real numbers and the data of an IFC library and keeps no
state between calls; the row checks of COBie and QA data, which are one pass over
one table; single requests that read or write one row (wizard, dashboards,
password reset, model-checking edits); the STEP conversion and IFC cleaner; and
pages that only show what the server decided.
