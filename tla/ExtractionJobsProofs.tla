------------------------ MODULE ExtractionJobsProofs ------------------------
(***************************************************************************)
(* Theorems about ExtractionJobs, for any sets of jobs, workers and clients  *)
(* and any bounds.  A job's row counts its claims, so a worker that has a    *)
(* job is the one that was counted; a job can only be left running by a step *)
(* that spends a fault, and no step leaves two.                             *)
(***************************************************************************)
EXTENDS ExtractionJobs, FiniteSetTheorems, TLAPS

(* A worker has a job exactly while it is past the claim.                    *)
Engaged == \A w \in Workers : job[w] = None <=> pc[w] \in {"down", "poll"}

(* A job that can still be claimed was never claimed; a job some worker has  *)
(* was, once.                                                              *)
Counted ==
  \A j \in Jobs :
    /\ attempts[j] <= 1
    /\ status[j] \in {"absent", "queued"} => attempts[j] = 0
    /\ \A w \in Workers : job[w] = j => attempts[j] = 1

(* No two workers have the same job.                                        *)
Exclusive == \A v, w \in Workers : job[v] = job[w] /\ job[v] # None => v = w

(* The stranded jobs can be counted, and each cost a fault.                  *)
Paid == IsFiniteSet(Stranded) /\ Cardinality(Stranded) <= faults

IInv == TypeOK /\ Engaged /\ Counted /\ Exclusive /\ Paid

-----------------------------------------------------------------------------
(***************************************************************************)
(* What a step can do.                                                     *)
(***************************************************************************)

(* Worker w, which has a job, writes an outcome into its row or leaves the   *)
(* row alone, and keeps the job or gives it up.                            *)
Works(w) ==
  /\ job[w] # None
  /\ \/ status' = status
     \/ \E s \in {"running", "done", "failed"} : status' = [status EXCEPT ![job[w]] = s]
  /\ \/ job' = job /\ \E l \in PC \ {"down", "poll"} : pc' = [pc EXCEPT ![w] = l]
     \/ \E l \in {"down", "poll"} : Leave(w, l)
  /\ \/ faults' = faults /\ (job' = job \/ status'[job[w]] # "running")
     \/ Fault
  /\ UNCHANGED attempts /\ WebUnchanged

(* The steps of a worker between its claim and its next one are of that kind. *)
LEMMA HolderWorks ==
  ASSUME TypeOK, Engaged, NEW w \in Workers,
         \/ BeginRun(w) \/ Extract(w) \/ Finish(w) \/ Fail(w)
         \/ Crash(w) /\ pc[w] # "poll"
  PROVE  Works(w)
<1> USE DEF TypeOK, Engaged, Works, PC, dbVars
<1>1. CASE BeginRun(w)
  BY <1>1 DEF BeginRun, Emit, WriteStatus, Goto, WebUnchanged
<1>2. CASE Extract(w)
  BY <1>2 DEF Extract, Goto, WebUnchanged
<1>3. CASE Finish(w)
  <2>1. job[w] \in Jobs /\ pc[w] = "finish"
    BY <1>3 DEF Finish
  <2> QED
    BY <1>3, <2>1 DEF Finish, WriteStatus, Goto, Leave, WebUnchanged
<1>4. CASE Fail(w)
  <2>1. job[w] \in Jobs /\ pc[w] = "fail"
    BY <1>4 DEF Fail
  <2> QED
    BY <1>4, <2>1 DEF Fail, WriteStatus, Leave, WebUnchanged
<1>5. CASE Crash(w) /\ pc[w] # "poll"
  BY <1>5 DEF Crash, Leave, WebUnchanged
<1> QED
  BY <1>1, <1>2, <1>3, <1>4, <1>5

(* Worker w claims job j, and has it unless the call failed.                 *)
Claims(w, j) ==
  /\ pc[w] = "poll" /\ status[j] = "queued"
  /\ \/ /\ MarkClaimed(j) /\ UNCHANGED faults
        /\ pc' = [pc EXCEPT ![w] = "begin"] /\ job' = [job EXCEPT ![w] = j]
     \/ Fault /\ (MarkClaimed(j) \/ UNCHANGED dbVars) /\ Leave(w, "down")
  /\ WebUnchanged

(* A worker that has no job starts, or crashes.                              *)
Idles(w) ==
  /\ pc[w] \in {"down", "poll"}
  /\ \E l \in {"down", "poll"} : pc' = [pc EXCEPT ![w] = l]
  /\ job' = job
  /\ UNCHANGED dbVars /\ WebUnchanged
  /\ UNCHANGED faults \/ Fault

(* Every step is one of an endpoint, or of one of these kinds.               *)
LEMMA StepKinds ==
  ASSUME TypeOK, Engaged, [Next]_vars
  PROVE  \/ UNCHANGED vars
         \/ \E j \in Jobs : Create(j)
         \/ \E c \in Clients, j \in Jobs : CancelRead(c, j)
         \/ \E c \in Clients : CancelWrite(c)
         \/ DropSession
         \/ \E w \in Workers, j \in Jobs : Claims(w, j)
         \/ \E w \in Workers : Works(w) \/ Idles(w)
<1>1. ASSUME NEW w \in Workers, Start(w)
      PROVE  Idles(w)
  BY <1>1 DEF Start, Goto, Idles
<1>2. ASSUME NEW w \in Workers, Claim(w)
      PROVE  \E j \in Jobs : Claims(w, j)
  BY <1>2 DEF Claim, Claimable, Claims
<1>3. ASSUME NEW w \in Workers, Crash(w), pc[w] = "poll"
      PROVE  Idles(w)
  <2>1. job' = job
    BY <1>3 DEF Crash, Leave, Engaged, TypeOK
  <2> QED
    BY <1>3, <2>1 DEF Crash, Leave, Idles
<1> QED
  BY <1>1, <1>2, <1>3, HolderWorks DEF Next, WorkerStep

-----------------------------------------------------------------------------
(***************************************************************************)
(* The inductive invariant.                                                *)
(***************************************************************************)

(* The initial state satisfies the invariant: no row, no worker.             *)
LEMMA InitInv == Init => IInv
<1> SUFFICES ASSUME Init PROVE IInv
  OBVIOUS
<1>1. Stranded = {}
  BY DEF Init, Stranded, Running
<1> QED
  BY <1>1, FS_EmptySet, NoneAssumption, BoundsAssumption
     DEF Init, IInv, TypeOK, Status, PC, Engaged, Counted, Exclusive, Paid

(* A step keeps the types.                                                  *)
LEMMA TypeStep == TypeOK /\ Engaged /\ [Next]_vars => TypeOK'
<1> SUFFICES ASSUME TypeOK, Engaged, [Next]_vars PROVE TypeOK'
  OBVIOUS
<1> USE BoundsAssumption DEF TypeOK, Status, PC, dbVars, WebUnchanged
<1>1. CASE UNCHANGED vars
  BY <1>1 DEF vars
<1>2. ASSUME NEW j \in Jobs, Create(j) PROVE TypeOK'
  BY <1>2 DEF Create
<1>3. ASSUME NEW c \in Clients, NEW j \in Jobs, CancelRead(c, j) PROVE TypeOK'
  BY <1>3 DEF CancelRead
<1>4. ASSUME NEW c \in Clients, CancelWrite(c) PROVE TypeOK'
  BY <1>4 DEF CancelWrite
<1>5. CASE DropSession
  BY <1>5 DEF DropSession
<1>6. ASSUME NEW w \in Workers, NEW j \in Jobs, Claims(w, j) PROVE TypeOK'
  BY <1>6 DEF Claims, MarkClaimed, Leave, Fault
<1>7. ASSUME NEW w \in Workers, Works(w) PROVE TypeOK'
  BY <1>7 DEF Works, Leave, Fault
<1>8. ASSUME NEW w \in Workers, Idles(w) PROVE TypeOK'
  BY <1>8 DEF Idles, Fault
<1> QED
  BY <1>1, <1>2, <1>3, <1>4, <1>5, <1>6, <1>7, <1>8, StepKinds

(* A step keeps each job with the one worker that was counted for it.        *)
LEMMA HandedStep ==
  TypeOK /\ Engaged /\ Counted /\ Exclusive /\ [Next]_vars
    => Engaged' /\ Counted' /\ Exclusive'
<1> SUFFICES ASSUME TypeOK, Engaged, Counted, Exclusive, [Next]_vars
             PROVE  Engaged' /\ Counted' /\ Exclusive'
  OBVIOUS
<1> USE NoneAssumption DEF TypeOK, Engaged, Counted, Exclusive, PC, dbVars, WebUnchanged
<1>1. CASE UNCHANGED vars
  BY <1>1 DEF vars
<1>2. ASSUME NEW j \in Jobs, Create(j) PROVE Engaged' /\ Counted' /\ Exclusive'
  BY <1>2 DEF Create
<1>3. ASSUME NEW c \in Clients, NEW j \in Jobs, CancelRead(c, j)
      PROVE  Engaged' /\ Counted' /\ Exclusive'
  BY <1>3 DEF CancelRead
<1>4. ASSUME NEW c \in Clients, CancelWrite(c) PROVE Engaged' /\ Counted' /\ Exclusive'
  BY <1>4 DEF CancelWrite
<1>5. CASE DropSession
  BY <1>5 DEF DropSession
<1>6. ASSUME NEW w \in Workers, NEW j \in Jobs, Claims(w, j)
      PROVE  Engaged' /\ Counted' /\ Exclusive'
  BY <1>6 DEF Claims, MarkClaimed, Leave
<1>7. ASSUME NEW w \in Workers, Works(w) PROVE Engaged' /\ Counted' /\ Exclusive'
  BY <1>7 DEF Works, Leave
<1>8. ASSUME NEW w \in Workers, Idles(w) PROVE Engaged' /\ Counted' /\ Exclusive'
  BY <1>8 DEF Idles
<1> QED
  BY <1>1, <1>2, <1>3, <1>4, <1>5, <1>6, <1>7, <1>8, StepKinds

(* Without a fault no job becomes stranded; with one, one at most.           *)
LEMMA StrandsOne ==
  ASSUME TypeOK, Engaged, Counted, Exclusive, [Next]_vars
  PROVE  \/ Stranded' \subseteq Stranded /\ faults' \in {faults, faults + 1}
         \/ \E j \in Jobs : Stranded' \subseteq Stranded \cup {j} /\ faults' = faults + 1
<1> DEFINE Goal ==
      \/ Stranded' \subseteq Stranded /\ faults' \in {faults, faults + 1}
      \/ \E j \in Jobs : Stranded' \subseteq Stranded \cup {j} /\ faults' = faults + 1
<1> USE NoneAssumption DEF TypeOK, Stranded, Running, dbVars, WebUnchanged
<1>1. CASE UNCHANGED vars
  BY <1>1 DEF vars
<1>2. ASSUME NEW j \in Jobs, Create(j) PROVE Goal
  BY <1>2 DEF Create
<1>3. ASSUME NEW c \in Clients, NEW j \in Jobs, CancelRead(c, j) PROVE Goal
  BY <1>3 DEF CancelRead
<1>4. ASSUME NEW c \in Clients, CancelWrite(c) PROVE Goal
  BY <1>4 DEF CancelWrite
<1>5. CASE DropSession
  BY <1>5 DEF DropSession
<1>6. ASSUME NEW w \in Workers, NEW j \in Jobs, Claims(w, j) PROVE Goal
  <2>1. CASE faults' = faults
    BY <1>6, <2>1 DEF Claims, MarkClaimed, Fault, Engaged
  <2>2. CASE faults' # faults
    BY <1>6, <2>2 DEF Claims, MarkClaimed, Fault, Leave, Engaged
  <2> QED
    BY <2>1, <2>2
<1>7. ASSUME NEW w \in Workers, Works(w) PROVE Goal
  <2>1. job[w] \in Jobs /\ \A v \in Workers \ {w} : job'[v] = job[v]
    BY <1>7 DEF Works, Leave
  <2>2. \A j \in Jobs \ {job[w]} : status'[j] = status[j]
    BY <1>7 DEF Works
  <2>3. Stranded' \subseteq Stranded \cup {job[w]}
    BY <2>1, <2>2
  <2>4. CASE Fault
    BY <2>1, <2>3, <2>4 DEF Fault
  <2>5. CASE faults' = faults /\ (job' = job \/ status'[job[w]] # "running")
    <3>1. job[w] \notin Stranded'
      BY <2>1, <2>5
    <3> QED
      BY <2>3, <2>5, <3>1
  <2> QED
    BY <1>7, <2>4, <2>5 DEF Works
<1>8. ASSUME NEW w \in Workers, Idles(w) PROVE Goal
  BY <1>8 DEF Idles, Fault
<1> QED
  BY <1>1, <1>2, <1>3, <1>4, <1>5, <1>6, <1>7, <1>8, StepKinds

(* The stranded jobs stay paid for.                                         *)
LEMMA PaidStep ==
  ASSUME IInv, [Next]_vars
  PROVE  Paid'
<1>1. faults \in Nat /\ Cardinality(Stranded) \in Nat
  BY BoundsAssumption, FS_CardinalityType DEF IInv, TypeOK, Paid
<1>2. CASE Stranded' \subseteq Stranded /\ faults' \in {faults, faults + 1}
  <2>1. IsFiniteSet(Stranded') /\ Cardinality(Stranded') <= Cardinality(Stranded)
    BY <1>2, FS_Subset DEF IInv, Paid
  <2>2. Cardinality(Stranded') \in Nat
    BY <2>1, FS_CardinalityType
  <2> QED
    BY <1>1, <1>2, <2>1, <2>2 DEF IInv, Paid
<1>3. ASSUME NEW j \in Jobs, Stranded' \subseteq Stranded \cup {j}, faults' = faults + 1
      PROVE  Paid'
  <2>1. /\ IsFiniteSet(Stranded \cup {j})
        /\ Cardinality(Stranded \cup {j}) \in {Cardinality(Stranded), Cardinality(Stranded) + 1}
    BY FS_AddElement DEF IInv, Paid
  <2>2. IsFiniteSet(Stranded') /\ Cardinality(Stranded') <= Cardinality(Stranded \cup {j})
    BY <1>3, <2>1, FS_Subset
  <2>3. Cardinality(Stranded') \in Nat
    BY <2>2, FS_CardinalityType
  <2> QED
    BY <1>1, <1>3, <2>1, <2>2, <2>3 DEF IInv, Paid
<1> QED
  BY <1>2, <1>3, StrandsOne DEF IInv

(* The invariant is inductive.                                              *)
LEMMA StepInv == IInv /\ [Next]_vars => IInv'
BY TypeStep, HandedStep, PaidStep DEF IInv

(* The invariant holds in every reachable state.                            *)
THEOREM Invariance == Spec => []IInv
BY InitInv, StepInv, PTL DEF Spec

-----------------------------------------------------------------------------
(***************************************************************************)
(* The theorems.                                                           *)
(***************************************************************************)

(* The variables of the extraction queue keep their types.                   *)
THEOREM TypeCorrect == Spec => []TypeOK
<1>1. IInv => TypeOK
  BY DEF IInv
<1> QED
  BY Invariance, <1>1, PTL

(* A job is handed to one worker, once, and each crash or failed call leaves  *)
(* at most one of the jobs shown as running without a worker.               *)
THEOREM HandedOnce == Spec => []RunningHasOneWorker
<1>1. IInv => RunningHasOneWorker
  BY DEF IInv, Counted, Exclusive, Paid, RunningHasOneWorker
<1> QED
  BY Invariance, <1>1, PTL

(* While nothing has crashed and no call failed, a job that is shown as       *)
(* running is in the hands of a worker: claim_next_job and run_once lose none. *)
THEOREM FaultlessRunsAreHeld ==
  Spec => [](faults = 0 => \A j \in Running : \E w \in Workers : job[w] = j)
<1>1. ASSUME IInv, faults = 0
      PROVE  \A j \in Running : \E w \in Workers : job[w] = j
  <2>1. IsFiniteSet(Stranded) /\ Cardinality(Stranded) = 0
    BY <1>1, FS_CardinalityType DEF IInv, Paid
  <2>2. Stranded = {}
    BY <2>1, FS_EmptySet
  <2> QED
    BY <2>2 DEF Stranded
<1> QED
  BY Invariance, <1>1, PTL

=============================================================================
