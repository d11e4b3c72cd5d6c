---------------------------- MODULE CobieAssets ----------------------------
(***************************************************************************)
(* The files a COBieQC run needs, and how they are brought back:           *)
(* bootstrap_cobieqc_assets of cobieqc_service/bootstrap.py, called by     *)
(* every POST /api/tools/cobieqc/run on the event loop before the upload   *)
(* is read, and the resolution of cobieqc_service/runner.py that the job's *)
(* own thread makes when it starts.  Downloads fail, the process may die   *)
(* between any two steps, and what is on the disk then stays.              *)
(*                                                                         *)
(* The job holds the permit while it runs, and a request is refused while  *)
(* the permit is held (CobieQcJobs): a job that was queued may still start *)
(* while the next request is bootstrapping.                                *)
(***************************************************************************)
EXTENDS Naturals, FiniteSets

CONSTANTS
  Required,   \* COBIEQC_REQUIRED_RESOURCE_FILES
  Libraries,  \* SAXON_ASSET_CONFIGS
  MaxRuns     \* bound: requests

ASSUME MaxRunsAssumption == MaxRuns \in Nat

VARIABLES
  env,      \* what the environment of the process configures
  jar,      \* CobieQcReporter.jar: "none", "broken" or "valid"
  library,  \* per Saxon library: "unset", "none" or "there"
  files,    \* per directory: the required files it has, not empty
  at,       \* where the bootstrap is
  todo,     \* files of COBIEQC_XML_FILE_URLS_JSON still to be looked at
  errors,   \* its errors so far
  status,   \* _LAST_STATUS
  job,      \* the job's thread: its state, directory and the files read
  runs      \* requests made

assetVars == <<env, jar, library, files, at, todo, errors, status, job, runs>>

Dirs == {"configured", "packaged", "preferred"}
NoStatus == [jar |-> FALSE, resources |-> FALSE, errors |-> {}]
NoJob == [state |-> "none", dir |-> "none", read |-> {}]

Environments ==
  [refresh : BOOLEAN,           \* COBIEQC_FORCE_JAR_REFRESH
   force : BOOLEAN,             \* COBIEQC_XML_FORCE_DOWNLOAD
   urls : SUBSET Required,      \* COBIEQC_XML_FILE_URLS_JSON
   sources : BOOLEAN]           \* the Saxon libraries have URLs

AssetStart(e, j, l, f) ==
  /\ env = e /\ jar = j /\ library = l /\ files = f
  /\ at = "idle" /\ todo = {} /\ errors = {}
  /\ status = NoStatus /\ job = NoJob /\ runs = 0

AssetInit ==
  \E e \in Environments, j \in {"none", "broken", "valid"},
     l \in [Libraries -> {"unset", "none"}], f \in [Dirs -> SUBSET Required] :
    AssetStart(e, j, l, f)

AssetTypeOK ==
  /\ env \in Environments
  /\ jar \in {"none", "broken", "valid"}
  /\ library \in [Libraries -> {"unset", "none", "there"}]
  /\ files \in [Dirs -> SUBSET Required]
  /\ at \in {"idle", "jar", "fetch", "resolve", "swap", "urls", "status", "decide"}
  /\ todo \subseteq Required
  /\ errors \subseteq {"saxon", "jar", "download", "incomplete", "unavailable"}
  /\ status \in [jar : BOOLEAN, resources : BOOLEAN, errors : SUBSET
                   {"saxon", "jar", "download", "incomplete", "unavailable"}]
  /\ job \in [state : {"none", "queued", "reading", "error", "done"},
             dir : Dirs \cup {"none"}, read : SUBSET Required]
  /\ runs \in 0..MaxRuns

-----------------------------------------------------------------------------
(* validate_cobieqc_resource_dir: every required file, and not empty.       *)
Valid(d) == files[d] = Required

(* assert_heavy_capacity; a library is fetched if it is missing and has a   *)
(* source, and each download may fail.                                      *)
Begin ==
  /\ at = "idle" /\ job.state # "reading" /\ runs < MaxRuns
  /\ \E fetched \in SUBSET {l \in Libraries : library[l] = "none" /\ env.sources} :
       /\ library' = [l \in Libraries |-> IF l \in fetched THEN "there" ELSE library[l]]
       /\ errors' = IF \E l \in Libraries : library'[l] = "none" THEN {"saxon"} ELSE {}
  /\ runs' = runs + 1
  /\ at' = "jar"
  /\ UNCHANGED <<env, jar, files, todo, status, job>>

(* A jar that is not to be kept is removed before its successor is fetched. *)
CheckJar ==
  /\ at = "jar"
  /\ IF jar = "valid" /\ ~env.refresh
     THEN at' = "resolve" /\ UNCHANGED jar
     ELSE at' = "fetch" /\ jar' = "none"
  /\ UNCHANGED <<env, library, files, todo, errors, status, job, runs>>

(* The download is a DownloadResult, which is validated as if it were the   *)
(* path of the file: whether it arrives or fails, no jar is installed.      *)
FetchJar ==
  /\ at = "fetch"
  /\ errors' = errors \cup {"jar"}
  /\ at' = "resolve"
  /\ UNCHANGED <<env, jar, library, files, todo, status, job, runs>>

(* Variant: the packaged resources are copied over whatever there is.       *)
Resolve_Always ==
  /\ at = "resolve"
  /\ IF ~Valid("packaged")
     THEN at' = "urls" /\ UNCHANGED files
     ELSE at' = "swap" /\ files' = [files EXCEPT !["configured"] = {}]
  /\ todo' = env.urls
  /\ UNCHANGED <<env, jar, library, errors, status, job, runs>>

(* An incomplete directory is replaced only if there is nothing else: by a  *)
(* copy of the packaged one, for which it is moved aside.                   *)
Resolve ==
  /\ at = "resolve"
  /\ IF Valid("configured") \/ Valid("preferred") \/ ~Valid("packaged")
     THEN at' = "urls" /\ UNCHANGED files
     ELSE at' = "swap" /\ files' = [files EXCEPT !["configured"] = {}]
  /\ todo' = env.urls
  /\ UNCHANGED <<env, jar, library, errors, status, job, runs>>

Swap ==
  /\ at = "swap"
  /\ files' = [files EXCEPT !["configured"] = files["packaged"]]
  /\ at' = "urls"
  /\ UNCHANGED <<env, jar, library, todo, errors, status, job, runs>>

(* _download_to_temp: what arrives is not empty and no page of HTML, and     *)
(* takes the place of the file in one step; or nothing is left behind.      *)
Download(f) ==
  \/ files' = [files EXCEPT !["configured"] = @ \cup {f}] /\ UNCHANGED errors
  \/ errors' = errors \cup {"download"} /\ UNCHANGED files

(* A file that is there is fetched again only by force.                     *)
FetchFile ==
  /\ at = "urls"
  /\ \E f \in todo :
       /\ todo' = todo \ {f}
       /\ \/ f \in files["configured"] /\ ~env.force /\ UNCHANGED <<files, errors>>
          \/ (f \notin files["configured"] \/ env.force) /\ Download(f)
  /\ UNCHANGED <<env, jar, library, at, status, job, runs>>

Usable == Valid("configured") \/ Valid("preferred")

(* The directory the files were fetched into must be complete then.         *)
Incomplete == IF env.urls # {} /\ ~Valid("configured") THEN {"incomplete"} ELSE {}

(* Without such files an XML source is only looked at; there must be a       *)
(* complete directory in the end.                                           *)
Unavailable == IF Usable THEN {} ELSE {"unavailable"}

(* _build_status looks at the disk again.                                   *)
Report ==
  /\ at = "urls" /\ todo = {}
  /\ status' = [jar |-> jar = "valid", resources |-> Usable,
                errors |-> errors \cup Incomplete \cup Unavailable]
  /\ errors' = {} /\ at' = "decide"
  /\ UNCHANGED <<env, jar, library, files, todo, job, runs>>

(* get_cobieqc_runtime_diagnostics, for the native engine: any directory.   *)
Accept ==
  /\ at = "decide"
  /\ IF \E d \in Dirs : Valid(d)
     THEN job' = IF job.state \in {"queued", "reading"} THEN job
                 ELSE [NoJob EXCEPT !.state = "queued"]
     ELSE UNCHANGED job
  /\ at' = "idle"
  /\ UNCHANGED <<env, jar, library, files, todo, errors, status, runs>>

Order == <<"configured", "packaged", "preferred">>

(* resolve_cobieqc_resource_dir: the first candidate that is complete.      *)
Candidate(d) ==
  \E i \in 1..3 : /\ Order[i] = d /\ Valid(d)
                  /\ \A k \in 1..(i - 1) : ~Valid(Order[k])

StartJob ==
  /\ job.state = "queued"
  /\ \/ \E d \in Dirs : Candidate(d) /\ job' = [job EXCEPT !.state = "reading", !.dir = d]
     \/ (\A d \in Dirs : ~Valid(d)) /\ job' = [job EXCEPT !.state = "error"]
  /\ UNCHANGED <<env, jar, library, files, at, todo, errors, status, runs>>

(* The engine opens the resources one by one.                               *)
ReadFile ==
  /\ job.state = "reading"
  /\ \E f \in Required \ job.read :
       job' = IF f \in files[job.dir] THEN [job EXCEPT !.read = @ \cup {f}]
              ELSE [job EXCEPT !.state = "error"]
  /\ UNCHANGED <<env, jar, library, files, at, todo, errors, status, runs>>

EndJob ==
  /\ job.state = "reading" /\ job.read = Required
  /\ job' = [job EXCEPT !.state = "done"]
  /\ UNCHANGED <<env, jar, library, files, at, todo, errors, status, runs>>

(* The process dies and is started again; only the disk is kept.            *)
Crash ==
  /\ at # "idle" \/ job.state \in {"queued", "reading"}
  /\ at' = "idle" /\ todo' = {} /\ errors' = {}
  /\ status' = NoStatus /\ job' = NoJob
  /\ UNCHANGED <<env, jar, library, files, runs>>

AssetNext ==
  \/ Begin \/ CheckJar \/ FetchJar \/ Resolve \/ Swap \/ FetchFile \/ Report \/ Accept
  \/ StartJob \/ ReadFile \/ EndJob \/ Crash

AssetSpec == AssetInit /\ [][AssetNext]_assetVars

-----------------------------------------------------------------------------
(* A job that was accepted finds complete resources when its thread starts, *)
(* and the directory it chose stays complete while it reads, whatever the   *)
(* bootstrap of another request does to the directories meanwhile.  And a   *)
(* bootstrap that ends, after whatever crashes, has complete resources      *)
(* wherever packaged ones are there to copy, and otherwise says that        *)
(* something is missing.                                                    *)
JobsFindTheirResources ==
  /\ job.state # "error"
  /\ job.state = "reading" => Valid(job.dir)
  /\ at = "decide" =>
       /\ status.resources => Usable
       /\ Valid("packaged") => status.resources
       /\ (~status.jar \/ ~status.resources \/ \E l \in Libraries : library[l] = "none")
            => status.errors # {}
===========================================================================
