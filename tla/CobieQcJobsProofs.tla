------------------------- MODULE CobieQcJobsProofs -------------------------
(***************************************************************************)
(* Theorems about CobieQcJobs, for any number of requests, scans, faults and *)
(* restarts. The permit is conserved because every step that enters or       *)
(* leaves the steps that hold it changes the count by the same one; a done    *)
(* job has a report because only its own task writes its record.            *)
(***************************************************************************)
EXTENDS CobieQcJobs, FiniteSetTheorems, TLAPS

(* A good result is held by a task that is about to write it, and its report  *)
(* is whole; an outcome is the last thing a task writes, and a page is told   *)
(* one only after that.                                                    *)
Settled ==
  \A j \in Jobs :
    /\ result[j] = "ok" => pc[j] \in {"end", "ending"} /\ report[j] = "all"
    /\ status[j] \in {"done", "error"} => pc[j] = "over"
    /\ page[j] \in {"shown", "told"} => pc[j] = "over"

IInv == TypeOK /\ Settled /\ DoneMeansReport /\ ToldIsTrue

-----------------------------------------------------------------------------
(***************************************************************************)
(* The inductive invariant.                                                *)
(***************************************************************************)

(* The initial state satisfies the invariant.                               *)
LEMMA InitInv == Init => IInv
BY BoundAssumption DEF Init, IInv, TypeOK, PC, Request, Task, Active, Settled, DoneMeansReport,
   ToldIsTrue

(* A step keeps the types: only a writer leaves a record torn.               *)
LEMMA TypeStep == TypeOK /\ [Next]_vars => TypeOK'
<1> SUFFICES ASSUME TypeOK, [Next]_vars PROVE TypeOK'
  OBVIOUS
<1> USE BoundAssumption DEF TypeOK, PC, Request, Task, Active, Holding, record
<1>1. CASE UNCHANGED vars
  BY <1>1 DEF vars, record
<1>2. ASSUME NEW j \in Jobs,
             \/ Probe(j) \/ Probed(j) \/ Reject(j) \/ Create(j) \/ Created(j) \/ Accept(j)
             \/ CreateRaises(j) \/ TaskStep(j) \/ PageStep(j)
      PROVE  TypeOK'
  <2>1. CASE Probe(j)
    BY <2>1 DEF Probe, Goto
  <2>2. CASE Probed(j)
    BY <2>2 DEF Probed, Release, Goto
  <2>3. CASE Reject(j)
    BY <2>3 DEF Reject, Goto
  <2>4. CASE Create(j)
    BY <2>4 DEF Create, Truncate, Goto
  <2>5. CASE Created(j)
    BY <2>5 DEF Created, WriteStatus, Goto
  <2>6. CASE Accept(j)
    BY <2>6 DEF Accept, Goto
  <2>7. CASE CreateRaises(j)
    BY <2>7 DEF CreateRaises, Goto
  <2>8. CASE Acquire(j)
    BY <2>8 DEF Acquire, Goto
  <2>9. CASE Begin(j)
    BY <2>9 DEF Begin, Truncate, Goto
  <2>10. CASE Begun(j)
    BY <2>10 DEF Begun, WriteStatus, Goto
  <2>11. CASE Render(j)
    BY <2>11 DEF Render, Goto
  <2>12. CASE Rendered(j)
    BY <2>12 DEF Rendered, Release, Goto
  <2>13. CASE CheckerFails(j)
    BY <2>13 DEF CheckerFails, Release, Goto
  <2>14. CASE EndWrite(j)
    BY <2>14 DEF EndWrite, Truncate, Goto
  <2>15. CASE Ended(j)
    BY <2>15 DEF Ended, WriteStatus, Goto
  <2>16. CASE ExceptWrite(j)
    BY <2>16 DEF ExceptWrite, Truncate, Goto
  <2>17. CASE Excepted(j)
    BY <2>17 DEF Excepted, WriteStatus, Goto
  <2>18. CASE Raise(j)
    BY <2>18 DEF Raise, Release, Goto
  <2>19. CASE Poll(j)
    BY <2>19 DEF Poll, Readable
  <2>20. CASE FetchResult(j)
    BY <2>20 DEF FetchResult, Readable
  <2> QED
    BY <1>2, <2>1, <2>2, <2>3, <2>4, <2>5, <2>6, <2>7, <2>8, <2>9, <2>10,
       <2>11, <2>12, <2>13, <2>14, <2>15, <2>16, <2>17, <2>18, <2>19, <2>20
    DEF TaskStep, PageStep
<1>3. ASSUME NEW s \in Scans, ScanStart(s) \/ ScanEnd(s)
      PROVE  TypeOK'
  BY <1>3 DEF ScanStart, ScanEnd
<1>4. ASSUME NEW old \in SUBSET Jobs, Restart(old)
      PROVE  TypeOK'
  BY <1>4 DEF Restart
<1> QED
  BY <1>1, <1>2, <1>3, <1>4 DEF Next

(* A step keeps results, records, reports and what pages were told together. *)
LEMMA SettledStep == IInv /\ [Next]_vars => (Settled /\ DoneMeansReport /\ ToldIsTrue)'
<1> SUFFICES ASSUME IInv, [Next]_vars PROVE (Settled /\ DoneMeansReport /\ ToldIsTrue)'
  OBVIOUS
<1> USE BoundAssumption DEF IInv, TypeOK, PC, Request, Task, Active, Settled, DoneMeansReport, ToldIsTrue, record
<1>1. CASE UNCHANGED vars
  BY <1>1 DEF vars, record
<1>2. ASSUME NEW j \in Jobs,
             \/ Probe(j) \/ Probed(j) \/ Reject(j) \/ Create(j) \/ Created(j) \/ Accept(j)
             \/ CreateRaises(j) \/ TaskStep(j) \/ PageStep(j)
      PROVE  (Settled /\ DoneMeansReport /\ ToldIsTrue)'
  <2>1. CASE Probe(j)
    BY <2>1 DEF Probe, Goto
  <2>2. CASE Probed(j)
    BY <2>2 DEF Probed, Release, Goto
  <2>3. CASE Reject(j)
    BY <2>3 DEF Reject, Goto
  <2>4. CASE Create(j)
    BY <2>4 DEF Create, Truncate, Goto
  <2>5. CASE Created(j)
    BY <2>5 DEF Created, WriteStatus, Goto
  <2>6. CASE Accept(j)
    BY <2>6 DEF Accept, Goto
  <2>7. CASE CreateRaises(j)
    BY <2>7 DEF CreateRaises, Goto
  <2>8. CASE Acquire(j)
    BY <2>8 DEF Acquire, Goto
  <2>9. CASE Begin(j)
    BY <2>9 DEF Begin, Truncate, Goto
  <2>10. CASE Begun(j)
    BY <2>10 DEF Begun, WriteStatus, Goto
  <2>11. CASE Render(j)
    BY <2>11 DEF Render, Goto
  <2>12. CASE Rendered(j)
    BY <2>12 DEF Rendered, Release, Goto
  <2>13. CASE CheckerFails(j)
    BY <2>13 DEF CheckerFails, Release, Goto
  <2>14. CASE EndWrite(j)
    BY <2>14 DEF EndWrite, Truncate, Goto
  <2>15. CASE Ended(j)
    BY <2>15 DEF Ended, WriteStatus, Goto
  <2>16. CASE ExceptWrite(j)
    BY <2>16 DEF ExceptWrite, Truncate, Goto
  <2>17. CASE Excepted(j)
    BY <2>17 DEF Excepted, WriteStatus, Goto
  <2>18. CASE Raise(j)
    BY <2>18 DEF Raise, Release, Goto
  <2>19. CASE Poll(j)
    BY <2>19 DEF Poll, Readable
  <2>20. CASE FetchResult(j)
    BY <2>20 DEF FetchResult, Readable
  <2> QED
    BY <1>2, <2>1, <2>2, <2>3, <2>4, <2>5, <2>6, <2>7, <2>8, <2>9, <2>10,
       <2>11, <2>12, <2>13, <2>14, <2>15, <2>16, <2>17, <2>18, <2>19, <2>20
    DEF TaskStep, PageStep
<1>3. ASSUME NEW s \in Scans, ScanStart(s) \/ ScanEnd(s)
      PROVE  (Settled /\ DoneMeansReport /\ ToldIsTrue)'
  BY <1>3 DEF ScanStart, ScanEnd
<1>4. ASSUME NEW old \in SUBSET Jobs, Restart(old)
      PROVE  (Settled /\ DoneMeansReport /\ ToldIsTrue)'
  BY <1>4 DEF Restart
<1> QED
  BY <1>1, <1>2, <1>3, <1>4 DEF Next

(* The invariant holds throughout.                                         *)
THEOREM Invariance == Spec => []IInv
<1>1. IInv /\ [Next]_vars => IInv'
  BY TypeStep, SettledStep DEF IInv
<1> QED
  BY InitInv, <1>1, PTL DEF Spec

(* Type correctness, and that a record is torn only by its writer.          *)
THEOREM TypeCorrect == Spec => []TypeOK
<1>1. IInv => TypeOK
  BY DEF IInv
<1> QED
  BY Invariance, <1>1, PTL

(* A job that is done has its whole report, whatever raised and however      *)
(* often the server was restarted.                                         *)
THEOREM DoneIsReported == Spec => []DoneMeansReport
<1>1. IInv => DoneMeansReport
  BY DEF IInv
<1> QED
  BY Invariance, <1>1, PTL

(* What a page was told of a job stays true.                                *)
THEOREM ToldStaysTrue == Spec => []ToldIsTrue
<1>1. IInv => ToldIsTrue
  BY DEF IInv
<1> QED
  BY Invariance, <1>1, PTL

-----------------------------------------------------------------------------
(***************************************************************************)
(* The permit.                                                             *)
(***************************************************************************)

(* What the count of holders is made of.                                    *)
Total == permits + Cardinality(Holders) + Cardinality(scanning)

(* The sets that are counted are finite.                                    *)
LEMMA Finite ==
  ASSUME TypeOK
  PROVE  /\ IsFiniteSet(Holders) /\ Cardinality(Holders) \in Nat
         /\ IsFiniteSet(scanning) /\ Cardinality(scanning) \in Nat
<1>1. Holders \subseteq Jobs /\ scanning \subseteq Scans
  BY DEF Holders, TypeOK
<1>2. IsFiniteSet(Holders) /\ IsFiniteSet(scanning)
  BY <1>1, SetAssumption, FS_Subset
<1> QED
  BY <1>2, FS_CardinalityType

(* A task that takes the permit joins the holders.                          *)
LEMMA Joins ==
  ASSUME TypeOK, NEW j \in Jobs, j \notin Holders, Holders' = Holders \cup {j},
         permits' = permits - 1, UNCHANGED scanning
  PROVE  Total' = Total
<1>1. Cardinality(Holders') = Cardinality(Holders) + 1
  BY Finite, FS_AddElement
<1> QED
  BY <1>1, Finite DEF Total, TypeOK

(* A task that leaves the with block gives it back.                         *)
LEMMA Leaves ==
  ASSUME TypeOK, NEW j \in Jobs, j \in Holders, Holders' = Holders \ {j},
         permits' = permits + 1, UNCHANGED scanning
  PROVE  Total' = Total
<1>1. Cardinality(Holders') = Cardinality(Holders) - 1
  BY Finite, FS_RemoveElement
<1> QED
  BY <1>1, Finite DEF Total, TypeOK

(* Steps of a request, a task or a page.                                    *)
LEMMA JobKeeps ==
  ASSUME TypeOK, NEW j \in Jobs,
         \/ Probe(j) \/ Probed(j) \/ Reject(j) \/ Create(j) \/ Created(j) \/ Accept(j)
         \/ CreateRaises(j) \/ TaskStep(j) \/ PageStep(j)
  PROVE  Total' = Total
<1> DEFINE Takes == /\ j \notin Holders /\ Holders' = Holders \cup {j}
                    /\ permits' = permits - 1 /\ UNCHANGED scanning
           Returns == /\ j \in Holders /\ Holders' = Holders \ {j}
                      /\ permits' = permits + 1 /\ UNCHANGED scanning
           Keeps == UNCHANGED <<Holders, permits, scanning>>
<1> USE DEF TypeOK, Holders, Holding, Goto
<1>1. CASE Probe(j) \/ Acquire(j)
  <2>1. Takes \/ Keeps
    BY <1>1 DEF Probe, Acquire
  <2> HIDE DEF TypeOK, Holders
  <2> QED
    BY <2>1, Joins DEF Total
<1>2. CASE Probed(j) \/ Rendered(j) \/ CheckerFails(j)
  <2>1. Returns
    BY <1>2 DEF Probed, Rendered, CheckerFails, Release
  <2> HIDE DEF TypeOK, Holders
  <2> QED
    BY <2>1, Leaves
<1>3. CASE Raise(j)
  <2>1. Returns \/ Keeps
    BY <1>3 DEF Raise, Release
  <2> HIDE DEF TypeOK, Holders
  <2> QED
    BY <2>1, Leaves DEF Total
<1>4. CASE Reject(j) \/ Create(j) \/ Created(j) \/ Accept(j) \/ CreateRaises(j)
  <2>1. Keeps
    BY <1>4 DEF Reject, Create, Created, Accept, CreateRaises
  <2> QED
    BY <2>1 DEF Total
<1>5. CASE Begin(j) \/ Begun(j) \/ Render(j) \/ EndWrite(j) \/ Ended(j)
           \/ ExceptWrite(j) \/ Excepted(j) \/ PageStep(j)
  <2>1. Keeps
    BY <1>5 DEF Begin, Begun, Render, EndWrite, Ended, ExceptWrite, Excepted, PageStep, Poll,
           FetchResult
  <2> QED
    BY <2>1 DEF Total
<1> QED
  BY <1>1, <1>2, <1>3, <1>4, <1>5 DEF TaskStep

(* Steps of a scan.                                                        *)
LEMMA ScanKeeps ==
  ASSUME TypeOK, NEW s \in Scans, ScanStart(s) \/ ScanEnd(s)
  PROVE  Total' = Total
<1>1. Holders' = Holders
  BY DEF ScanStart, ScanEnd, Holders
<1>2. CASE ScanStart(s)
  <2>1. Cardinality(scanning') = Cardinality(scanning) + 1
    BY <1>2, Finite, FS_AddElement DEF ScanStart
  <2>2. permits' = permits - 1
    BY <1>2 DEF ScanStart
  <2> QED
    BY <1>1, <2>1, <2>2, Finite DEF Total, TypeOK
<1>3. CASE ScanEnd(s)
  <2>1. Cardinality(scanning') = Cardinality(scanning) - 1
    BY <1>3, Finite, FS_RemoveElement DEF ScanEnd
  <2>2. permits' = permits + 1
    BY <1>3 DEF ScanEnd
  <2> QED
    BY <1>1, <2>1, <2>2, Finite DEF Total, TypeOK
<1> QED
  BY <1>2, <1>3

(* At most one request at a time probes, checks or scans, and the permit is   *)
(* back whenever none does, for any number of requests and scans.           *)
THEOREM PermitIsConserved == Spec => []PermitConserved
<1>1. Init => Total = 1
  <2> SUFFICES ASSUME Init PROVE Total = 1
    OBVIOUS
  <2>1. Holders = {} /\ scanning = {} /\ permits = 1
    BY DEF Init, Holders, Holding
  <2> QED
    BY <2>1, FS_EmptySet DEF Total
<1>2. TypeOK /\ Total = 1 /\ [Next]_vars => (Total = 1)'
  <2> SUFFICES ASSUME TypeOK, Total = 1, [Next]_vars PROVE (Total = 1)'
    OBVIOUS
  <2>1. ASSUME NEW old \in SUBSET Jobs, Restart(old)
        PROVE  Total' = 1
    <3>1. Holders' = {} /\ scanning' = {} /\ permits' = 1
      BY <2>1 DEF Restart, Holders, Holding, Request, Task
    <3> QED
      BY <3>1, FS_EmptySet DEF Total
  <2>2. CASE UNCHANGED vars
    BY <2>2 DEF vars, Total, Holders
  <2> QED
    BY <2>1, <2>2, JobKeeps, ScanKeeps DEF Next
<1>3. Total = 1 <=> PermitConserved
  BY DEF Total, PermitConserved
<1> QED
  BY TypeCorrect, <1>1, <1>2, <1>3, PTL DEF Spec
=============================================================================
