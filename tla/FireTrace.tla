----------------------------- MODULE FireTrace -----------------------------
(***************************************************************************)
(* The fire strategy review and what follows it: Regulation38Repository    *)
(* seeds a review row for every candidate object of the current model,     *)
(* reviewers decide on the rows, setup is completed, and evidence is       *)
(* submitted and reviewed.  Loading the review page is a sequence of       *)
(* requests, as is a submission; a step is one request.                    *)
(***************************************************************************)
EXTENDS Naturals, FiniteSets

CONSTANTS
  Objects,      \* GlobalIds of the objects of the current model
  Loads,        \* bound: page loads under way at a time
  Uploads,      \* submission ids: evidence uploads, each made once
  MaxDecisions, \* bound: updates of a review
  MaxLosses     \* bound: requests that fail, or whose answer is lost

ASSUME FireBoundsAssumption ==
  IsFiniteSet(Uploads) /\ MaxDecisions \in Nat /\ MaxLosses \in Nat

VARIABLES
  scanned,     \* the current model's latest job is completed
  review,      \* per object: its row in fire_strategy_reviews
  confirmed,   \* per object: its row has a confirmed category
  load,        \* per load: where fire_strategy is
  seen,        \* per load: the objects whose row it read
  tracker,     \* objects with a row in firetrace_tracker_items
  setUp,       \* projects.setup_completed_at is set
  requirement, \* status of the one evidence requirement
  submission,      \* per upload: where upload_evidence is
  evidence,      \* uploads whose object is in Storage
  version,     \* per upload: version_number of its submission, 0: no row
  previous,    \* per upload: the newest version it read
  verdict,     \* per upload: review_status of its submission
  judging,     \* the submission review_evidence is about, and its decision
  decisions, losses,
  spoiled      \* history: uploads one of whose requests failed

reviewVars == <<scanned, review, confirmed, load, seen, decisions>>
trackerVars == <<tracker, setUp>>
evidenceVars == <<requirement, submission, evidence, version, previous, verdict,
                  judging, spoiled>>
fireVars == <<reviewVars, trackerVars, evidenceVars, losses>>

Relevance == {"NOT_ASSESSED", "IN_SCOPE", "OUT_OF_SCOPE", "REVIEW_REQUIRED"}
NoJudging == [of |-> {}, as |-> "RETURNED"]

FireInit ==
  /\ scanned = TRUE
  /\ review = [o \in Objects |-> "absent"]
  /\ confirmed = [o \in Objects |-> FALSE]
  /\ load = [l \in Loads |-> "idle"]
  /\ seen = [l \in Loads |-> {}]
  /\ tracker = {} /\ setUp = FALSE
  /\ requirement = "absent"
  /\ submission = [u \in Uploads |-> "idle"]
  /\ evidence = {}
  /\ version = [u \in Uploads |-> 0]
  /\ previous = [u \in Uploads |-> 0]
  /\ verdict = [u \in Uploads |-> "none"]
  /\ judging = NoJudging
  /\ decisions = 0 /\ losses = 0
  /\ spoiled = {}

FireTypeOK ==
  /\ scanned \in BOOLEAN /\ setUp \in BOOLEAN
  /\ review \in [Objects -> Relevance \cup {"absent"}]
  /\ confirmed \in [Objects -> BOOLEAN]
  /\ load \in [Loads -> {"idle", "existing", "seed", "back"}]
  /\ seen \in [Loads -> SUBSET Objects]
  /\ tracker \subseteq Objects
  /\ requirement \in {"absent", "OPEN", "SUBMITTED", "ACCEPTED", "RETURNED"}
  /\ submission \in [Uploads -> {"idle", "store", "number", "insert", "status",
                             "erase", "done"}]
  /\ version \in [Uploads -> 0..Cardinality(Uploads)]
  /\ previous \in [Uploads -> 0..Cardinality(Uploads)]
  /\ verdict \in [Uploads -> {"none", "SUBMITTED", "ACCEPTED", "RETURNED"}]
  /\ judging.of \subseteq Uploads /\ judging.as \in {"ACCEPTED", "RETURNED"}
  /\ decisions \in 0..MaxDecisions /\ losses \in 0..MaxLosses
  /\ evidence \subseteq Uploads /\ spoiled \subseteq Uploads
  (* a row has a version exactly if it has a status *)
  /\ \A u \in Uploads : version[u] = 0 <=> verdict[u] = "none"

-----------------------------------------------------------------------------
(***************************************************************************)
(* The review.                                                             *)
(***************************************************************************)

(* fire_strategy reads the current model, its latest job and the candidate  *)
(* objects; it is not ready before the scan is completed.                   *)
BeginLoad(l) ==
  /\ load[l] = "idle" /\ scanned
  /\ load' = [load EXCEPT ![l] = "existing"]
  /\ UNCHANGED <<scanned, review, confirmed, seen, decisions, trackerVars,
                 evidenceVars, losses>>

Rows == {o \in Objects : review[o] # "absent"}

(* The rows that exist: the others will be seeded, if there are any.        *)
ReadExisting(l) ==
  /\ load[l] = "existing"
  /\ seen' = [seen EXCEPT ![l] = Rows]
  /\ load' = [load EXCEPT ![l] = IF Rows = Objects THEN "idle" ELSE "seed"]
  /\ UNCHANGED <<scanned, review, confirmed, decisions, trackerVars,
                 evidenceVars, losses>>

Seeds(l) == Objects \ seen[l]

(* One POST with merge-duplicates: a row that appeared in between gets the  *)
(* seed's columns, which categories are not among.                          *)
Seed(l) ==
  /\ load[l] = "seed"
  /\ review' = [o \in Objects |-> IF o \in Seeds(l) THEN "REVIEW_REQUIRED"
                                  ELSE review[o]]
  /\ load' = [load EXCEPT ![l] = "back"]
  /\ UNCHANGED <<scanned, confirmed, seen, decisions, trackerVars,
                 evidenceVars, losses>>

(* The rows are read again and shown.                                       *)
ReadBack(l) ==
  /\ load[l] = "back"
  /\ load' = [load EXCEPT ![l] = "idle"]
  /\ UNCHANGED <<scanned, review, confirmed, seen, decisions, trackerVars,
                 evidenceVars, losses>>

LoadFails(l) ==
  /\ load[l] # "idle" /\ losses < MaxLosses
  /\ losses' = losses + 1
  /\ load' = [load EXCEPT ![l] = "idle"]
  /\ UNCHANGED <<scanned, review, confirmed, seen, decisions, trackerVars,
                 evidenceVars>>

(* update_fire_strategy: one PATCH of the rows selected, checked against    *)
(* the values that are allowed.                                             *)
Decide ==
  /\ decisions < MaxDecisions /\ decisions' = decisions + 1
  /\ \E chosen \in SUBSET Rows \ {{}}, r \in {"IN_SCOPE", "OUT_OF_SCOPE"},
        c \in BOOLEAN :
       /\ review' = [o \in Objects |-> IF o \in chosen THEN r ELSE review[o]]
       /\ confirmed' = [o \in Objects |-> IF o \in chosen THEN c ELSE confirmed[o]]
  /\ UNCHANGED <<scanned, load, seen, trackerVars, evidenceVars, losses>>

(* A re-run queues a new job, which is completed later.                     *)
Rescan ==
  /\ scanned' = ~scanned
  /\ UNCHANGED <<review, confirmed, load, seen, decisions, trackerVars,
                 evidenceVars, losses>>

(* complete_firetrace_setup, one transaction.                               *)
Completable ==
  \A o \in Rows : /\ review[o] # "NOT_ASSESSED"
                  /\ review[o] = "IN_SCOPE" => confirmed[o]

CompleteSetup ==
  /\ Completable
  /\ setUp' = TRUE
  /\ tracker' = tracker \cup {o \in Rows : review[o] = "IN_SCOPE"}
  /\ UNCHANGED <<reviewVars, evidenceVars, losses>>

-----------------------------------------------------------------------------
(***************************************************************************)
(* Evidence.                                                               *)
(***************************************************************************)

EvidenceStep == UNCHANGED <<reviewVars, trackerVars>>

SubmissionAt(u, pc) == submission' = [submission EXCEPT ![u] = pc]

(* create_evidence_requirement names a tracker item.                        *)
Require ==
  /\ requirement = "absent" /\ tracker # {}
  /\ requirement' = "OPEN"
  /\ UNCHANGED <<submission, evidence, version, previous, verdict, judging, spoiled,
                 losses>>
  /\ EvidenceStep

(* upload_evidence, by the assignee.                                        *)
BeginSubmission(u) ==
  /\ submission[u] = "idle" /\ requirement # "absent"
  /\ SubmissionAt(u, "store")
  /\ UNCHANGED <<requirement, evidence, version, previous, verdict, judging,
                 spoiled, losses>>
  /\ EvidenceStep

StoreEvidence(u) ==
  /\ submission[u] = "store"
  /\ evidence' = evidence \cup {u}
  /\ SubmissionAt(u, "number")
  /\ UNCHANGED <<requirement, version, previous, verdict, judging, spoiled, losses>>
  /\ EvidenceStep

Versions == {version[u] : u \in Uploads}
Newest == CHOOSE n \in Versions : \A k \in Versions : k <= n

(* The newest version is read, ...                                          *)
ReadNewest(u) ==
  /\ submission[u] = "number"
  /\ previous' = [previous EXCEPT ![u] = Newest]
  /\ SubmissionAt(u, "insert")
  /\ UNCHANGED <<requirement, evidence, version, verdict, judging, spoiled, losses>>
  /\ EvidenceStep

InsertVersion(u) ==
  /\ version' = [version EXCEPT ![u] = previous[u] + 1]
  /\ verdict' = [verdict EXCEPT ![u] = "SUBMITTED"]

(* Variant: no unique(evidence_requirement_id, version_number).             *)
VersionIsFree_Always(u) == TRUE

VersionIsFree(u) == previous[u] + 1 \notin Versions

(* ... and the next one inserted, unless another upload was faster.         *)
InsertSubmission(u) ==
  /\ submission[u] = "insert"
  /\ IF VersionIsFree(u)
     THEN InsertVersion(u) /\ SubmissionAt(u, "status")
     ELSE UNCHANGED <<version, verdict>> /\ SubmissionAt(u, "erase")
  /\ UNCHANGED <<requirement, evidence, previous, judging, spoiled, losses>>
  /\ EvidenceStep

MarkSubmitted(u) ==
  /\ submission[u] = "status"
  /\ requirement' = "SUBMITTED"
  /\ SubmissionAt(u, "done")
  /\ UNCHANGED <<evidence, version, previous, verdict, judging, spoiled, losses>>
  /\ EvidenceStep

(* Any request may fail, or succeed and lose its answer; whatever the code  *)
(* in the try statement met, the object is deleted.                         *)
UploadRequestFails(u) ==
  /\ submission[u] \in {"store", "number", "insert", "status"} /\ losses < MaxLosses
  /\ losses' = losses + 1 /\ spoiled' = spoiled \cup {u}
  /\ SubmissionAt(u, IF submission[u] = "store" THEN "done" ELSE "erase")
  /\ \/ UNCHANGED <<evidence, version, verdict, requirement>>
     \/ submission[u] = "store" /\ evidence' = evidence \cup {u}
          /\ UNCHANGED <<version, verdict, requirement>>
     \/ submission[u] = "insert" /\ VersionIsFree(u) /\ InsertVersion(u)
          /\ UNCHANGED <<evidence, requirement>>
     \/ submission[u] = "status" /\ requirement' = "SUBMITTED"
          /\ UNCHANGED <<evidence, version, verdict>>
  /\ UNCHANGED <<previous, judging>>
  /\ EvidenceStep

(* Nobody looks at the answer to the DELETE.                                *)
EraseObject(u) ==
  /\ submission[u] = "erase"
  /\ evidence' \in {evidence, evidence \ {u}}
  /\ SubmissionAt(u, "done")
  /\ UNCHANGED <<requirement, version, previous, verdict, judging, spoiled, losses>>
  /\ EvidenceStep

(* review_evidence patches the submission, and then the requirement.        *)
Judge ==
  /\ judging = NoJudging
  /\ \E u \in Uploads, d \in {"ACCEPTED", "RETURNED"} :
       /\ verdict[u] # "none"
       /\ verdict' = [verdict EXCEPT ![u] = d]
       /\ judging' = [of |-> {u}, as |-> d]
  /\ UNCHANGED <<requirement, submission, evidence, version, previous, spoiled, losses>>
  /\ EvidenceStep

Conclude ==
  /\ judging # NoJudging
  /\ requirement' = judging.as
  /\ judging' = NoJudging
  /\ UNCHANGED <<submission, evidence, version, previous, verdict, spoiled, losses>>
  /\ EvidenceStep

FireNext ==
  \/ \E l \in Loads : BeginLoad(l) \/ ReadExisting(l) \/ Seed(l) \/ ReadBack(l)
                      \/ LoadFails(l)
  \/ Decide \/ Rescan \/ CompleteSetup \/ Require \/ Judge \/ Conclude
  \/ \E u \in Uploads :
       \/ BeginSubmission(u) \/ StoreEvidence(u) \/ ReadNewest(u) \/ InsertSubmission(u)
       \/ MarkSubmitted(u) \/ UploadRequestFails(u) \/ EraseObject(u)

FireSpec == FireInit /\ [][FireNext]_fireVars

-----------------------------------------------------------------------------
(***************************************************************************)
(* Properties.                                                             *)
(***************************************************************************)

(* Evidence can be traced: the versions of a requirement are 1, 2, ... with *)
(* one submission each, which supersedes the one before; a requirement that *)
(* left OPEN has a submission; and only an upload one of whose requests     *)
(* failed may leave a submission without its object.                        *)
EvidenceIsTraceable ==
  LET submitted == {u \in Uploads : version[u] # 0}
  IN  /\ {version[u] : u \in submitted} = 1..Cardinality(submitted)
      /\ \A u \in submitted : version[u] = previous[u] + 1
      /\ requirement \notin {"absent", "OPEN"} => submitted # {}
      /\ submitted \subseteq evidence \cup spoiled

(* A reviewer's decision is not undone by loading the page ("a reviewer     *)
(* identity ... is treated as an explicit decision", says the migration     *)
(* 202609030002).                                                           *)
DecisionsSurviveLoading ==
  [][\A o \in Objects : review[o] \in {"IN_SCOPE", "OUT_OF_SCOPE"}
                          => review'[o] # "REVIEW_REQUIRED"]_fireVars

=============================================================================
