------------------------------ MODULE ScanQueue -----------------------------
(***************************************************************************)
(* What the model-scan queue promises, without workers, leases, clocks or  *)
(* a network: a file has at most one scan under way, a scan that is put    *)
(* back is still the same scan, a finished scan never changes again, and a *)
(* scan is only reported as completed once the rows it extracted are       *)
(* stored.  ScanJobs implements it.                                        *)
(***************************************************************************)
CONSTANTS Scan, File, NoFile

VARIABLES
  status,   \* of each scan
  of,       \* the file a scan reads
  stored    \* the files whose extracted rows are stored

vars == <<status, of, stored>>

UnderWay(f) == \E s \in Scan : of[s] = f /\ status[s] \in {"QUEUED", "RUNNING"}

Init ==
  /\ status = [s \in Scan |-> "ABSENT"]
  /\ of = [s \in Scan |-> NoFile]
  /\ stored = {}

(* A new scan of f is asked for.                                            *)
Enqueue(s, f) ==
  /\ status[s] = "ABSENT"
  /\ ~UnderWay(f)
  /\ status' = [status EXCEPT ![s] = "QUEUED"]
  /\ of' = [of EXCEPT ![s] = f]
  /\ UNCHANGED stored

Begin(s) ==
  /\ status[s] = "QUEUED"
  /\ status' = [status EXCEPT ![s] = "RUNNING"]
  /\ UNCHANGED <<of, stored>>

(* Scans whose worker was lost wait again.                                  *)
PutBack(S) ==
  /\ \A s \in S : status[s] = "RUNNING"
  /\ status' = [s \in Scan |-> IF s \in S THEN "QUEUED" ELSE status[s]]
  /\ UNCHANGED <<of, stored>>

Store(f) ==
  /\ stored' = stored \cup {f}
  /\ UNCHANGED <<status, of>>

Finish(s, outcome) ==
  /\ status[s] = "RUNNING"
  /\ outcome = "COMPLETED" => of[s] \in stored
  /\ status' = [status EXCEPT ![s] = outcome]
  /\ UNCHANGED <<of, stored>>

(* The file goes, with its scans and its rows.                              *)
Forget(f) ==
  /\ status' = [s \in Scan |-> IF of[s] = f /\ status[s] # "ABSENT"
                                 THEN "DELETED" ELSE status[s]]
  /\ stored' = stored \ {f}
  /\ UNCHANGED of

Next ==
  \/ \E s \in Scan, f \in File : Enqueue(s, f)
  \/ \E s \in Scan : Begin(s)
  \/ \E S \in SUBSET Scan : PutBack(S)
  \/ \E f \in File : Store(f) \/ Forget(f)
  \/ \E s \in Scan, outcome \in {"COMPLETED", "FAILED"} : Finish(s, outcome)

Spec == Init /\ [][Next]_vars
=============================================================================
