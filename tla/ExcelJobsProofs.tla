-------------------------- MODULE ExcelJobsProofs --------------------------
(***************************************************************************)
(* Theorems about ExcelJobs, for any jobs and executor threads and any       *)
(* number of crashes and faults: what the page was told of a job stays true  *)
(* over restarts, and while every child rewrites job files.                 *)
(***************************************************************************)
EXTENDS ExcelJobs, TLAPS

(* A thread or a process that is at work has a job, and only the threads of   *)
(* the pool are at work.                                                   *)
JobAtHand ==
  /\ \A e \in Executors : pc[e] # "idle" => job[e] \in Jobs /\ e \in pool
  /\ \A p \in Procs : phase[p] \in {"write", "replace"} => cur[p] \in Jobs

(* A child is waited for, and nothing is under way where the web process does *)
(* not serve.                                                              *)
ChildrenWaitedFor ==
  /\ \A e \in Executors : phase[e] # "off" => pc[e] = "wait"
  /\ ~Serving =>
       /\ queue = <<>>
       /\ \A e \in Executors : pc[e] = "idle"
       /\ \A j \in Jobs : request[j] \notin {"replace", "submit"}

(* The job of a request that was answered has a file, and the web process     *)
(* knows it or is about to.                                                 *)
AnsweredIsKnown ==
  \A j \in Jobs :
    /\ request[j] \in {"submit", "answered"} => disk[j] # "absent"
    /\ request[j] \in {"replace", "submit", "answered"} =>
         \/ phase[Web] = "off" \/ mem[j] # "absent"
         \/ phase[Web] # "on" /\ j \in todo[Web]
         \/ phase[Web] \in {"write", "replace"} /\ cur[Web] = j

(* With one thread and no faults: jobs wait once, in the state `queued`.      *)
QueueInOrder ==
  /\ \A i \in 1..Len(queue) : mem[queue[i]] = "queued" /\ request[queue[i]] = "answered"
  /\ \A i, k \in 1..Len(queue) : queue[i] = queue[k] => i = k

(* The thread at work has its job to itself.                                *)
ThreadInOrder ==
  /\ \A e \in Executors : pc[e] # "idle" =>
       /\ request[job[e]] = "answered"
       /\ pc[e] # "report" => mem[job[e]] = "running"
       /\ pc[e] = "start" => tmp[job[e]] = "running"
       /\ pc[e] = "report" => mem[job[e]] \in Terminal /\ tmp[job[e]] = mem[job[e]]
  /\ \A j \in Jobs :
       /\ request[j] \in {"idle", "replace"} => disk[j] = "absent"
       /\ request[j] \in {"replace", "submit"} => mem[j] = "queued"
       /\ polled[j] # "none" => request[j] = "answered"

(* Whoever recovers rewrites a file that says its job is active.             *)
RecoveryInOrder ==
  \A p \in Procs : phase[p] \in {"write", "replace"} =>
    /\ disk[cur[p]] \in Active
    /\ phase[p] = "replace" => tmp[cur[p]] = "failed"

(* An outcome is on disk, but for the one that is being stored; and what the  *)
(* page was told is on disk for good.                                       *)
OutcomesOnDisk ==
  \A j \in Jobs :
    /\ mem[j] \in Terminal /\ (\A e \in Executors : pc[e] = "report" => job[e] # j)
         => disk[j] = mem[j]
    /\ polled[j] # "none" => disk[j] = polled[j] /\ mem[j] \in {"absent", polled[j]}

InOrder ==
  OneThread /\ faults = 0 =>
    QueueInOrder /\ ThreadInOrder /\ RecoveryInOrder /\ OutcomesOnDisk

IInv == TypeOK /\ JobAtHand /\ ChildrenWaitedFor /\ AnsweredIsKnown /\ InOrder

(* The initial state satisfies the invariant.                               *)
LEMMA InitInv == Init => IInv
<1> SUFFICES ASSUME Init PROVE IInv
  OBVIOUS
<1> USE NamesAssumption, BoundsAssumption DEF Procs, Serving
<1>1. TypeOK
  BY DEF Init, TypeOK, JobState, Requests, PC, Phases
<1>2. /\ \A e \in Executors : pc[e] = "idle"
      /\ \A p \in Procs : phase[p] = "off"
      /\ \A j \in Jobs : request[j] = "idle" /\ disk[j] = "absent" /\ mem[j] = "absent" /\ polled[j] = "none"
      /\ queue = <<>>
  BY DEF Init
<1>3. JobAtHand /\ ChildrenWaitedFor /\ AnsweredIsKnown
  BY <1>2 DEF JobAtHand, ChildrenWaitedFor, AnsweredIsKnown
<1>4. InOrder
  BY <1>2 DEF InOrder, QueueInOrder, ThreadInOrder, RecoveryInOrder, OutcomesOnDisk, Terminal
<1> QED
  BY <1>1, <1>3, <1>4 DEF IInv

(* Nothing is under way where the web process does not serve.                *)
LEMMA NotServing ==
  ASSUME ChildrenWaitedFor, phase[Web] # "on"
  PROVE  /\ queue = <<>>
         /\ \A e \in Executors : pc[e] = "idle" /\ phase[e] = "off"
         /\ \A j \in Jobs : request[j] \notin {"replace", "submit"}
<1>1. /\ queue = <<>> /\ \A e \in Executors : pc[e] = "idle"
      /\ \A j \in Jobs : request[j] \notin {"replace", "submit"}
  BY DEF ChildrenWaitedFor, Serving
<1>2. \A e \in Executors : phase[e] # "off" => pc[e] = "wait"
  BY DEF ChildrenWaitedFor
<1> QED
  BY <1>1, <1>2

(* What a job's files and the memory of the web process become.              *)
LEMMA UpdateTypes ==
  ASSUME TypeOK, NEW j \in Jobs, NEW st \in JobState,
         (Update(j, st) /\ UNCHANGED bounds) \/ UpdateRaises(j, st)
  PROVE  /\ disk' \in [Jobs -> JobState] /\ tmp' \in [Jobs -> JobState]
         /\ mem' \in [Jobs -> JobState]
         /\ crashes' \in 0..MaxCrashes /\ faults' \in 0..MaxFaults
  BY BoundsAssumption, SMTT(30) DEF TypeOK, Update, UpdateRaises, Fault, files, bounds

LEMMA ReplaceTypes ==
  ASSUME TypeOK, NEW j \in Jobs, Replace(j) \/ ReplaceRaises(j)
  PROVE  disk' \in [Jobs -> JobState] /\ tmp' \in [Jobs -> JobState]
  BY DEF TypeOK, Replace, ReplaceRaises, files, JobState

LEMMA FaultTypes ==
  ASSUME TypeOK, Fault
  PROVE  crashes' \in 0..MaxCrashes /\ faults' \in 0..MaxFaults
  BY BoundsAssumption DEF TypeOK, Fault

LEMMA RecoverRaisesTypes ==
  ASSUME TypeOK, JobAtHand, NEW p \in Procs, phase[p] \in {"write", "replace"}, 
         ChildrenWaitedFor, RecoverRaises(p)
  PROVE  /\ mem' \in [Jobs -> JobState] /\ result' \in [Executors -> {"none"} \cup Terminal]
         /\ pc' \in [Executors -> PC] /\ phase' \in [Procs -> Phases]
         /\ todo' \in [Procs -> SUBSET Jobs] /\ cur' \in [Procs -> Jobs \cup {None}]
         /\ UNCHANGED <<request, queue, pool, job, polled>> /\ JobAtHand'
<1> USE NamesAssumption DEF TypeOK, JobAtHand, RecoverRaises, Exit, Procs
<1>1. mem' \in [Jobs -> JobState]
  BY DEF JobState
<1>2. result' \in [Executors -> {"none"} \cup Terminal]
  BY DEF Terminal
<1>3. pc' \in [Executors -> PC]
  BY DEF PC
<1>4. /\ phase' \in [Procs -> Phases] /\ todo' \in [Procs -> SUBSET Jobs]
      /\ cur' \in [Procs -> Jobs \cup {None}]
  BY DEF Phases
<1>5. JobAtHand'
  <2>1. \A e \in Executors : pc'[e] # "idle" => pc[e] # "idle"
    BY DEF ChildrenWaitedFor
  <2>2. \A q \in Procs : phase'[q] \in {"write", "replace"} => phase[q] = phase'[q] /\ cur'[q] = cur[q]
    BY <1>4
  <2> QED
    BY <2>1, <2>2
<1> QED
  BY <1>1, <1>2, <1>3, <1>4, <1>5

(* Types, and what threads and processes have at hand.                     *)
LEMMA TypeStep ==
  ASSUME IInv, [Next]_vars
  PROVE  TypeOK' /\ JobAtHand'
<1> USE NamesAssumption, BoundsAssumption
    DEF IInv, TypeOK, JobAtHand, Requests, PC, Phases,
        files, threads, procs, bounds, RequestUnchanged, ExecutorUnchanged, Procs, Serving,
        JobState, Active, Terminal
<1>1. ASSUME NEW j \in Jobs, Create(j) PROVE TypeOK' /\ JobAtHand'
  <2>1. /\ disk' \in [Jobs -> JobState] /\ tmp' \in [Jobs -> JobState]
        /\ mem' \in [Jobs -> JobState]
        /\ crashes' \in 0..MaxCrashes /\ faults' \in 0..MaxFaults
    BY <1>1, UpdateTypes DEF Create
  <2>2. request' \in [Jobs -> Requests]
    BY <1>1 DEF Create
  <2> QED
    BY <1>1, <2>1, <2>2 DEF Create
<1>2. ASSUME NEW j \in Jobs, CreateReplace(j) PROVE TypeOK' /\ JobAtHand'
  BY <1>2 DEF CreateReplace, Replace
<1>3. ASSUME NEW j \in Jobs, Submit(j) PROVE TypeOK' /\ JobAtHand'
  BY <1>3 DEF Submit
<1>4. ASSUME NEW j \in Jobs, Poll(j) PROVE TypeOK' /\ JobAtHand'
  BY <1>4 DEF Poll
<1>5. ASSUME NEW p \in Procs, NEW j \in Jobs, RecoverRead(p, j) PROVE TypeOK' /\ JobAtHand'
  <2>1. todo' \in [Procs -> SUBSET Jobs]
    BY <1>5 DEF RecoverRead
  <2>2. /\ mem' \in [Jobs -> JobState] /\ phase' \in [Procs -> Phases]
        /\ cur' \in [Procs -> Jobs \cup {None}]
    <3>1. mem' = mem \/ mem' = [mem EXCEPT ![j] = disk[j]]
      BY <1>5 DEF RecoverRead, Remember
    <3>2. \/ UNCHANGED <<phase, cur>>
          \/ phase' = [phase EXCEPT ![p] = "write"] /\ cur' = [cur EXCEPT ![p] = j]
      BY <1>5 DEF RecoverRead
    <3>3. CASE UNCHANGED <<phase, cur>>
      BY <3>1, <3>3
    <3>4. CASE phase' = [phase EXCEPT ![p] = "write"] /\ cur' = [cur EXCEPT ![p] = j]
      BY <3>1, <3>4
    <3> QED
      BY <3>2, <3>3, <3>4
  <2>3. JobAtHand'
    <3>1. \/ UNCHANGED <<phase, cur>>
          \/ phase' = [phase EXCEPT ![p] = "write"] /\ cur' = [cur EXCEPT ![p] = j]
      BY <1>5 DEF RecoverRead
    <3>2. UNCHANGED <<pc, job, pool>>
      BY <1>5 DEF RecoverRead
    <3> QED
      BY <1>5, <3>1, <3>2
  <2> QED
    BY <1>5, <2>1, <2>2, <2>3 DEF RecoverRead
<1>6. ASSUME NEW p \in Procs, RecoverWrite(p) PROVE TypeOK' /\ JobAtHand'
  <2>1. CASE Fault /\ RecoverRaises(p) /\ UNCHANGED files
    BY <1>6, <2>1, FaultTypes, RecoverRaisesTypes DEF RecoverWrite
  <2>2. CASE /\ tmp' = [tmp EXCEPT ![cur[p]] = "failed"]
             /\ phase' = [phase EXCEPT ![p] = "replace"]
             /\ UNCHANGED <<disk, mem, request, threads, todo, cur, result, polled, bounds>>
    BY <1>6, <2>2 DEF RecoverWrite
  <2> QED
    BY <1>6, <2>1, <2>2 DEF RecoverWrite
<1>7. ASSUME NEW p \in Procs, RecoverReplace(p) PROVE TypeOK' /\ JobAtHand'
  <2>0. phase[p] = "replace" /\ cur[p] \in Jobs
    BY <1>7 DEF RecoverReplace
  <2>1. CASE ReplaceRaises(cur[p]) /\ RecoverRaises(p)
    <3>1. /\ mem' \in [Jobs -> JobState] /\ result' \in [Executors -> {"none"} \cup Terminal]
          /\ pc' \in [Executors -> PC] /\ phase' \in [Procs -> Phases]
          /\ todo' \in [Procs -> SUBSET Jobs] /\ cur' \in [Procs -> Jobs \cup {None}]
          /\ UNCHANGED <<request, queue, pool, job, polled>> /\ JobAtHand'
      BY <2>0, <2>1, RecoverRaisesTypes
    <3> QED
      BY <1>7, <2>1, <3>1 DEF RecoverReplace, ReplaceRaises
  <2>2. CASE /\ Replace(cur[p]) /\ Remember(p, cur[p], "failed")
             /\ phase' = [phase EXCEPT ![p] = "scan"]
             /\ cur' = [cur EXCEPT ![p] = None]
             /\ UNCHANGED <<request, threads, todo, result, polled>>
    <3>1. disk' \in [Jobs -> JobState] /\ tmp' \in [Jobs -> JobState]
      BY <2>0, <2>2, ReplaceTypes
    <3>2. mem' \in [Jobs -> JobState]
      BY <2>0, <2>2 DEF Remember
    <3>3. phase' \in [Procs -> Phases] /\ cur' \in [Procs -> Jobs \cup {None}] /\ JobAtHand'
      BY <2>2
    <3> QED
      BY <1>7, <2>2, <3>1, <3>2, <3>3 DEF RecoverReplace
  <2> QED
    BY <1>7, <2>1, <2>2 DEF RecoverReplace
<1>8. ASSUME NEW p \in Procs, Recovered(p) PROVE TypeOK' /\ JobAtHand'
  BY <1>8 DEF Recovered
<1>9. ASSUME NEW e \in Executors, Begin(e) PROVE TypeOK' /\ JobAtHand'
  <2>1. Head(queue) \in Jobs /\ queue' \in Seq(Jobs)
    BY <1>9 DEF Begin
  <2>2. /\ disk' \in [Jobs -> JobState] /\ tmp' \in [Jobs -> JobState]
        /\ mem' \in [Jobs -> JobState]
        /\ crashes' \in 0..MaxCrashes /\ faults' \in 0..MaxFaults
    BY <1>9, <2>1, UpdateTypes DEF Begin
  <2>3. pc' \in [Executors -> PC] /\ job' \in [Executors -> Jobs \cup {None}]
    <3>1. \/ pc' = [pc EXCEPT ![e] = "start"] /\ job' = [job EXCEPT ![e] = Head(queue)]
          \/ UNCHANGED <<pc, job>>
      BY <1>9 DEF Begin
    <3> QED
      BY <2>1, <3>1
  <2>4. JobAtHand'
    BY <1>9, <2>1 DEF Begin
  <2> QED
    BY <1>9, <2>1, <2>2, <2>3, <2>4 DEF Begin
<1>10. ASSUME NEW e \in Executors, BeginReplace(e) PROVE TypeOK' /\ JobAtHand'
  <2>1. job[e] \in Jobs
    BY <1>10 DEF BeginReplace
  <2>2. disk' \in [Jobs -> JobState] /\ tmp' \in [Jobs -> JobState]
    BY <1>10, <2>1, ReplaceTypes DEF BeginReplace
  <2>3. pc' \in [Executors -> PC] /\ job' \in [Executors -> Jobs \cup {None}] /\ JobAtHand'
    BY <1>10, <2>1, SMTT(30) DEF BeginReplace, Goto, Leave
  <2> QED
    BY <1>10, <2>1, <2>2, <2>3 DEF BeginReplace
<1>11. ASSUME NEW e \in Executors, Spawn(e) PROVE TypeOK' /\ JobAtHand'
  <2>1. job[e] \in Jobs /\ crashes' \in 0..MaxCrashes /\ faults' \in 0..MaxFaults
    BY <1>11, FaultTypes DEF Spawn
  <2>2. pc' \in [Executors -> PC] /\ job' \in [Executors -> Jobs \cup {None}]
        /\ result' \in [Executors -> {"none"} \cup Terminal]
    BY <1>11, <2>1 DEF Spawn, Goto, Leave
  <2>3. /\ phase' \in [Procs -> Phases] /\ todo' \in [Procs -> SUBSET Jobs]
        /\ cur' \in [Procs -> Jobs \cup {None}]
    BY <1>11 DEF Spawn, Launch, Files
  <2>4. JobAtHand'
    BY <1>11, <2>1 DEF Spawn, Launch, Goto, Leave
  <2> QED
    BY <1>11, <2>1, <2>2, <2>3, <2>4 DEF Spawn
<1>12. ASSUME NEW e \in Executors, Work(e) PROVE TypeOK' /\ JobAtHand'
  BY <1>12 DEF Work, Goto, Exit
<1>13. ASSUME NEW e \in Executors, ChildDies(e) PROVE TypeOK' /\ JobAtHand'
  BY <1>13 DEF ChildDies, Goto, Exit
<1>14. ASSUME NEW e \in Executors, Report(e) PROVE TypeOK' /\ JobAtHand'
  <2>1. job[e] \in Jobs /\ Outcome(e) \in JobState
    BY <1>14 DEF Report, Outcome
  <2>2. /\ disk' \in [Jobs -> JobState] /\ tmp' \in [Jobs -> JobState]
        /\ mem' \in [Jobs -> JobState]
        /\ crashes' \in 0..MaxCrashes /\ faults' \in 0..MaxFaults
    BY <1>14, <2>1, UpdateTypes DEF Report
  <2>3. pc' \in [Executors -> PC] /\ job' \in [Executors -> Jobs \cup {None}] /\ JobAtHand'
    <3>1. \/ pc' = [pc EXCEPT ![e] = "report"] /\ job' = job
          \/ pc' = [pc EXCEPT ![e] = "idle"] /\ job' = [job EXCEPT ![e] = None]
      BY <1>14 DEF Report, Goto, Leave
    <3>2. UNCHANGED <<pool, phase, cur>> /\ pc[e] = "ended"
      BY <1>14 DEF Report
    <3>3. pc' \in [Executors -> PC] /\ job' \in [Executors -> Jobs \cup {None}]
      <4>1. CASE pc' = [pc EXCEPT ![e] = "report"] /\ job' = job
        BY <4>1
      <4>2. CASE pc' = [pc EXCEPT ![e] = "idle"] /\ job' = [job EXCEPT ![e] = None]
        BY <4>2
      <4> QED
        BY <3>1, <4>1, <4>2
    <3>4. JobAtHand'
      BY <2>1, <3>1, <3>2
    <3> QED
      BY <3>3, <3>4
  <2> QED
    BY <1>14, <2>1, <2>2, <2>3 DEF Report
<1>15. ASSUME NEW e \in Executors, ReportReplace(e) PROVE TypeOK' /\ JobAtHand'
  <2>1. job[e] \in Jobs
    BY <1>15 DEF ReportReplace
  <2>2. disk' \in [Jobs -> JobState] /\ tmp' \in [Jobs -> JobState]
    BY <1>15, <2>1, ReplaceTypes DEF ReportReplace
  <2>3. pc' \in [Executors -> PC] /\ job' \in [Executors -> Jobs \cup {None}] /\ JobAtHand'
    BY <1>15, <2>1 DEF ReportReplace, Goto, Leave
  <2> QED
    BY <1>15, <2>1, <2>2, <2>3 DEF ReportReplace
<1>16. CASE StartWeb
  BY <1>16 DEF StartWeb, Launch, Files
<1>17. CASE Crash
  BY <1>17 DEF Crash
<1>18. CASE UNCHANGED vars
  BY <1>18 DEF vars
<1> QED
  BY <1>1, <1>2, <1>3, <1>4, <1>5, <1>6, <1>7, <1>8, <1>9, <1>10,
     <1>11, <1>12, <1>13, <1>14, <1>15, <1>16, <1>17, <1>18
     DEF Next, Recover, Execute

(* Who is at work.                                                         *)
LEMMA ProcsStep ==
  ASSUME IInv, [Next]_vars
  PROVE  ChildrenWaitedFor'
<1> USE NamesAssumption, BoundsAssumption
    DEF IInv, TypeOK, JobAtHand, ChildrenWaitedFor,
        files, threads, procs, bounds, RequestUnchanged, ExecutorUnchanged, Procs, Serving,
        JobState, Active, Terminal
<1>1. ASSUME NEW j \in Jobs, Create(j) PROVE ChildrenWaitedFor'
  BY <1>1 DEF Create, Fault, UpdateRaises, Update
<1>2. ASSUME NEW j \in Jobs, CreateReplace(j) PROVE ChildrenWaitedFor'
  BY <1>2 DEF CreateReplace, Replace
<1>3. ASSUME NEW j \in Jobs, Submit(j) PROVE ChildrenWaitedFor'
  <2>1. phase[Web] = "on" /\ phase' = phase
    BY <1>3, NotServing DEF Submit
  <2> QED
    BY <1>3, <2>1 DEF Submit
<1>4. ASSUME NEW j \in Jobs, Poll(j) PROVE ChildrenWaitedFor'
  BY <1>4 DEF Poll
<1>5. ASSUME NEW p \in Procs, NEW j \in Jobs, RecoverRead(p, j) PROVE ChildrenWaitedFor'
  BY <1>5 DEF RecoverRead, Remember, Interrupted
<1>6. ASSUME NEW p \in Procs, RecoverWrite(p) PROVE ChildrenWaitedFor'
  <2>1. /\ phase[p] = "write" /\ UNCHANGED <<queue, request>>
        /\ \/ phase' = [phase EXCEPT ![p] = "replace"] /\ pc' = pc
           \/ /\ phase' = [phase EXCEPT ![p] = "off"]
              /\ pc' = [e \in Executors |-> IF e = p THEN "ended" ELSE pc[e]]
    BY <1>6 DEF RecoverWrite, RecoverRaises, Exit
  <2>2. CASE p = Web
    <3>1. \A e \in Executors : pc'[e] = "idle" /\ phase'[e] = "off"
      BY <2>1, <2>2, NotServing
    <3> QED
      BY <2>1, <2>2, <3>1, NotServing
  <2>3. CASE p \in Executors
    <3>1. phase[Web] = "on" /\ phase'[Web] = "on"
      BY <2>1, <2>3, NotServing
    <3>2. \A e \in Executors : phase'[e] # "off" => pc'[e] = "wait"
      BY <2>1, <2>3
    <3> QED
      BY <3>1, <3>2
  <2> QED
    BY <2>2, <2>3
<1>7. ASSUME NEW p \in Procs, RecoverReplace(p) PROVE ChildrenWaitedFor'
  BY <1>7 DEF RecoverReplace, RecoverRaises, Exit, Replace, ReplaceRaises, Remember
<1>8. ASSUME NEW p \in Procs, Recovered(p) PROVE ChildrenWaitedFor'
  BY <1>8 DEF Recovered
<1>9. ASSUME NEW e \in Executors, Begin(e) PROVE ChildrenWaitedFor'
  BY <1>9 DEF Begin, Fault, UpdateRaises, Update
<1>10. ASSUME NEW e \in Executors, BeginReplace(e) PROVE ChildrenWaitedFor'
  BY <1>10 DEF BeginReplace, Replace, ReplaceRaises, Goto, Leave
<1>11. ASSUME NEW e \in Executors, Spawn(e) PROVE ChildrenWaitedFor'
  BY <1>11 DEF Spawn, Launch, Files, Fault, Goto, Leave
<1>12. ASSUME NEW e \in Executors, Work(e) PROVE ChildrenWaitedFor'
  BY <1>12 DEF Work, Goto, Exit
<1>13. ASSUME NEW e \in Executors, ChildDies(e) PROVE ChildrenWaitedFor'
  BY <1>13 DEF ChildDies, Goto, Exit
<1>14. ASSUME NEW e \in Executors, Report(e) PROVE ChildrenWaitedFor'
  BY <1>14 DEF Report, Outcome, Goto, Leave, Fault, UpdateRaises, Update
<1>15. ASSUME NEW e \in Executors, ReportReplace(e) PROVE ChildrenWaitedFor'
  BY <1>15 DEF ReportReplace, Replace, ReplaceRaises, Leave
<1>16. CASE StartWeb
  BY <1>16 DEF StartWeb, Launch, Files
<1>17. CASE Crash
  BY <1>17 DEF Crash
<1>18. CASE UNCHANGED vars
  BY <1>18 DEF vars
<1> QED
  BY <1>1, <1>2, <1>3, <1>4, <1>5, <1>6, <1>7, <1>8, <1>9, <1>10,
     <1>11, <1>12, <1>13, <1>14, <1>15, <1>16, <1>17, <1>18
     DEF Next, Recover, Execute

(* No answered job is lost.                                                *)
LEMMA KnownStep ==
  ASSUME IInv, [Next]_vars
  PROVE  AnsweredIsKnown'
<1> USE NamesAssumption, BoundsAssumption
    DEF IInv, TypeOK, JobAtHand, ChildrenWaitedFor, AnsweredIsKnown,
        files, threads, procs, bounds, RequestUnchanged, ExecutorUnchanged, Procs, Serving,
        JobState, Active, Terminal
<1>1. ASSUME NEW j \in Jobs, Create(j) PROVE AnsweredIsKnown'
  BY <1>1 DEF Create, Fault, UpdateRaises, Update
<1>2. ASSUME NEW j \in Jobs, CreateReplace(j) PROVE AnsweredIsKnown'
  BY <1>2 DEF CreateReplace, Replace
<1>3. ASSUME NEW j \in Jobs, Submit(j) PROVE AnsweredIsKnown'
  BY <1>3 DEF Submit
<1>4. ASSUME NEW j \in Jobs, Poll(j) PROVE AnsweredIsKnown'
  BY <1>4 DEF Poll
<1>5. ASSUME NEW p \in Procs, NEW j \in Jobs, RecoverRead(p, j) PROVE AnsweredIsKnown'
  <2>1. /\ UNCHANGED <<request, disk>> /\ phase[p] = "scan"
        /\ \A q \in Procs : q # p => phase'[q] = phase[q] /\ todo'[q] = todo[q] /\ cur'[q] = cur[q]
    BY <1>5 DEF RecoverRead
  <2>2. CASE p = Web
    <3>1. /\ todo'[Web] = todo[Web] \ {j}
          /\ \/ phase'[Web] = "write" /\ cur'[Web] = j /\ mem' = mem
             \/ phase'[Web] = "scan" /\ mem' = [mem EXCEPT ![j] = disk[j]]
      BY <1>5, <2>2 DEF RecoverRead, Remember
    <3>2. disk[j] # "absent" => mem'[j] # "absent" \/ mem' = mem
      BY <3>1
    <3> QED
      BY <1>5, <2>1, <2>2, <3>1, <3>2
  <2>3. CASE p # Web
    BY <1>5, <2>1, <2>3 DEF RecoverRead, Remember
  <2> QED
    BY <2>2, <2>3
<1>6. ASSUME NEW p \in Procs, RecoverWrite(p) PROVE AnsweredIsKnown'
  BY <1>6 DEF RecoverWrite, RecoverRaises, Exit, Fault
<1>7. ASSUME NEW p \in Procs, RecoverReplace(p) PROVE AnsweredIsKnown'
  BY <1>7 DEF RecoverReplace, RecoverRaises, Exit, Replace, ReplaceRaises, Remember
<1>8. ASSUME NEW p \in Procs, Recovered(p) PROVE AnsweredIsKnown'
  BY <1>8 DEF Recovered
<1>9. ASSUME NEW e \in Executors, Begin(e) PROVE AnsweredIsKnown'
  BY <1>9 DEF Begin, Fault, UpdateRaises, Update
<1>10. ASSUME NEW e \in Executors, BeginReplace(e) PROVE AnsweredIsKnown'
  BY <1>10 DEF BeginReplace, Replace, ReplaceRaises, Goto, Leave
<1>11. ASSUME NEW e \in Executors, Spawn(e) PROVE AnsweredIsKnown'
  BY <1>11 DEF Spawn, Launch, Files, Fault, Goto, Leave
<1>12. ASSUME NEW e \in Executors, Work(e) PROVE AnsweredIsKnown'
  BY <1>12 DEF Work, Goto, Exit
<1>13. ASSUME NEW e \in Executors, ChildDies(e) PROVE AnsweredIsKnown'
  BY <1>13 DEF ChildDies, Goto, Exit
<1>14. ASSUME NEW e \in Executors, Report(e) PROVE AnsweredIsKnown'
  BY <1>14 DEF Report, Outcome, Goto, Leave, Fault, UpdateRaises, Update
<1>15. ASSUME NEW e \in Executors, ReportReplace(e) PROVE AnsweredIsKnown'
  BY <1>15 DEF ReportReplace, Replace, ReplaceRaises, Leave
<1>16. CASE StartWeb
  <2>1. /\ UNCHANGED <<request, disk>> /\ phase[Web] = "off"
        /\ phase'[Web] = "scan" /\ todo'[Web] = {j \in Jobs : disk[j] # "absent"}
    BY <1>16 DEF StartWeb, Launch, Files
  <2>2. \A j \in Jobs : request[j] \notin {"replace", "submit"}
    BY <2>1, NotServing
  <2> QED
    BY <2>1, <2>2
<1>17. CASE Crash
  BY <1>17 DEF Crash
<1>18. CASE UNCHANGED vars
  BY <1>18 DEF vars
<1> QED
  BY <1>1, <1>2, <1>3, <1>4, <1>5, <1>6, <1>7, <1>8, <1>9, <1>10,
     <1>11, <1>12, <1>13, <1>14, <1>15, <1>16, <1>17, <1>18
     DEF Next, Recover, Execute

(* The pool keeps its threads, and faults are counted.                       *)
LEMMA InOrderAlone ==
  ASSUME IInv, [Next]_vars, OneThread', faults' = 0
  PROVE  OneThread /\ faults = 0
<1>1. pool' = pool /\ faults' >= faults
  BY DEF Next, Recover, Execute, Create, CreateReplace, Submit, Poll, RecoverRead, RecoverWrite,
         RecoverReplace, RecoverRaises, Recovered, Begin, BeginReplace, Spawn, Work, ChildDies,
         Report, ReportReplace, StartWeb, Crash, vars, files, threads, procs, bounds,
         RequestUnchanged, ExecutorUnchanged, Update, UpdateRaises, Fault, IInv, TypeOK
<1> QED
  BY <1>1 DEF OneThread, IInv, TypeOK

(* The queue.                                                              *)
LEMMA QueueStep ==
  ASSUME IInv, [Next]_vars, OneThread', faults' = 0
  PROVE  QueueInOrder'
<1> USE NamesAssumption, BoundsAssumption
    DEF IInv, TypeOK, JobAtHand, ChildrenWaitedFor, AnsweredIsKnown, InOrder,
        OneThread, QueueInOrder, ThreadInOrder, RecoveryInOrder, OutcomesOnDisk,
        files, threads, procs, bounds, RequestUnchanged, ExecutorUnchanged, Procs, Serving,
        JobState, Active, Terminal
<1>o. OneThread /\ faults = 0
  BY InOrderAlone
<1>1. ASSUME NEW j \in Jobs, Create(j) PROVE QueueInOrder'
  BY <1>o, <1>1 DEF Create, Fault, UpdateRaises, Update
<1>2. ASSUME NEW j \in Jobs, CreateReplace(j) PROVE QueueInOrder'
  BY <1>o, <1>2 DEF CreateReplace, Replace
<1>3. ASSUME NEW j \in Jobs, Submit(j) PROVE QueueInOrder'
  BY <1>o, <1>3 DEF Submit
<1>4. ASSUME NEW j \in Jobs, Poll(j) PROVE QueueInOrder'
  BY <1>o, <1>4 DEF Poll
<1>5. ASSUME NEW p \in Procs, NEW j \in Jobs, RecoverRead(p, j) PROVE QueueInOrder'
  BY <1>o, <1>5 DEF RecoverRead, Remember, Interrupted
<1>6. ASSUME NEW p \in Procs, RecoverWrite(p) PROVE QueueInOrder'
  BY <1>o, <1>6 DEF RecoverWrite, RecoverRaises, Exit, Fault
<1>7. ASSUME NEW p \in Procs, RecoverReplace(p) PROVE QueueInOrder'
  BY <1>o, <1>7 DEF RecoverReplace, RecoverRaises, Exit, Replace, ReplaceRaises, Remember
<1>8. ASSUME NEW p \in Procs, Recovered(p) PROVE QueueInOrder'
  BY <1>o, <1>8 DEF Recovered
<1>9. ASSUME NEW e \in Executors, Begin(e) PROVE QueueInOrder'
  BY <1>o, <1>9 DEF Begin, Fault, UpdateRaises, Update
<1>10. ASSUME NEW e \in Executors, BeginReplace(e) PROVE QueueInOrder'
  BY <1>o, <1>10 DEF BeginReplace, Replace, ReplaceRaises, Goto, Leave
<1>11. ASSUME NEW e \in Executors, Spawn(e) PROVE QueueInOrder'
  BY <1>o, <1>11 DEF Spawn, Launch, Files, Fault, Goto, Leave
<1>12. ASSUME NEW e \in Executors, Work(e) PROVE QueueInOrder'
  BY <1>o, <1>12 DEF Work, Goto, Exit
<1>13. ASSUME NEW e \in Executors, ChildDies(e) PROVE QueueInOrder'
  BY <1>o, <1>13 DEF ChildDies, Goto, Exit
<1>14. ASSUME NEW e \in Executors, Report(e) PROVE QueueInOrder'
  BY <1>o, <1>14 DEF Report, Outcome, Goto, Leave, Fault, UpdateRaises, Update
<1>15. ASSUME NEW e \in Executors, ReportReplace(e) PROVE QueueInOrder'
  BY <1>o, <1>15 DEF ReportReplace, Replace, ReplaceRaises, Leave
<1>16. CASE StartWeb
  BY <1>o, <1>16 DEF StartWeb, Launch, Files
<1>17. CASE Crash
  BY <1>o, <1>17 DEF Crash
<1>18. CASE UNCHANGED vars
  BY <1>o, <1>18 DEF vars
<1> QED
  BY <1>o, <1>1, <1>2, <1>3, <1>4, <1>5, <1>6, <1>7, <1>8, <1>9, <1>10,
     <1>11, <1>12, <1>13, <1>14, <1>15, <1>16, <1>17, <1>18
     DEF Next, Recover, Execute

(* The thread and its job.                                                 *)
LEMMA ThreadStep ==
  ASSUME IInv, [Next]_vars, OneThread', faults' = 0
  PROVE  ThreadInOrder'
<1> USE NamesAssumption, BoundsAssumption
    DEF IInv, TypeOK, JobAtHand, ChildrenWaitedFor, AnsweredIsKnown, InOrder,
        OneThread, QueueInOrder, ThreadInOrder, RecoveryInOrder, OutcomesOnDisk,
        files, threads, procs, bounds, RequestUnchanged, ExecutorUnchanged, Procs, Serving,
        JobState, Active, Terminal
<1>o. OneThread /\ faults = 0
  BY InOrderAlone
<1>1. ASSUME NEW j \in Jobs, Create(j) PROVE ThreadInOrder'
  BY <1>o, <1>1 DEF Create, Fault, UpdateRaises, Update
<1>2. ASSUME NEW j \in Jobs, CreateReplace(j) PROVE ThreadInOrder'
  BY <1>o, <1>2 DEF CreateReplace, Replace
<1>3. ASSUME NEW j \in Jobs, Submit(j) PROVE ThreadInOrder'
  BY <1>o, <1>3 DEF Submit
<1>4. ASSUME NEW j \in Jobs, Poll(j) PROVE ThreadInOrder'
  BY <1>o, <1>4 DEF Poll
<1>5. ASSUME NEW p \in Procs, NEW j \in Jobs, RecoverRead(p, j) PROVE ThreadInOrder'
  BY <1>o, <1>5 DEF RecoverRead, Remember, Interrupted
<1>6. ASSUME NEW p \in Procs, RecoverWrite(p) PROVE ThreadInOrder'
  BY <1>o, <1>6, SMTT(30) DEF RecoverWrite, RecoverRaises, Exit, Fault
<1>7. ASSUME NEW p \in Procs, RecoverReplace(p) PROVE ThreadInOrder'
  BY <1>o, <1>7 DEF RecoverReplace, RecoverRaises, Exit, Replace, ReplaceRaises, Remember
<1>8. ASSUME NEW p \in Procs, Recovered(p) PROVE ThreadInOrder'
  BY <1>o, <1>8 DEF Recovered
<1>9. ASSUME NEW e \in Executors, Begin(e) PROVE ThreadInOrder'
  <2>1. /\ Head(queue) = queue[1] /\ 1 \in 1..Len(queue) /\ Head(queue) \in Jobs
        /\ mem[Head(queue)] = "queued" /\ request[Head(queue)] = "answered"
    BY <1>o, <1>9 DEF Begin
  <2>2. /\ mem' = [mem EXCEPT ![Head(queue)] = "running"]
        /\ tmp' = [tmp EXCEPT ![Head(queue)] = "running"]
        /\ pc' = [pc EXCEPT ![e] = "start"] /\ job' = [job EXCEPT ![e] = Head(queue)]
        /\ UNCHANGED <<request, disk, polled>> /\ pc[e] = "idle" /\ e \in pool
    BY <1>o, <1>9 DEF Begin, UpdateRaises, Fault, Update
  <2>3. \A x \in Executors : x # e => pc[x] = "idle"
    BY <1>o, <2>2
  <2> QED
    BY <1>o, <2>1, <2>2, <2>3
<1>10. ASSUME NEW e \in Executors, BeginReplace(e) PROVE ThreadInOrder'
  BY <1>o, <1>10 DEF BeginReplace, Replace, ReplaceRaises, Goto, Leave
<1>11. ASSUME NEW e \in Executors, Spawn(e) PROVE ThreadInOrder'
  BY <1>o, <1>11 DEF Spawn, Launch, Files, Fault, Goto, Leave
<1>12. ASSUME NEW e \in Executors, Work(e) PROVE ThreadInOrder'
  BY <1>o, <1>12 DEF Work, Goto, Exit
<1>13. ASSUME NEW e \in Executors, ChildDies(e) PROVE ThreadInOrder'
  BY <1>o, <1>13 DEF ChildDies, Goto, Exit
<1>14. ASSUME NEW e \in Executors, Report(e) PROVE ThreadInOrder'
  BY <1>o, <1>14 DEF Report, Outcome, Goto, Leave, Fault, UpdateRaises, Update
<1>15. ASSUME NEW e \in Executors, ReportReplace(e) PROVE ThreadInOrder'
  BY <1>o, <1>15 DEF ReportReplace, Replace, ReplaceRaises, Leave
<1>16. CASE StartWeb
  BY <1>o, <1>16 DEF StartWeb, Launch, Files
<1>17. CASE Crash
  BY <1>o, <1>17 DEF Crash
<1>18. CASE UNCHANGED vars
  BY <1>o, <1>18 DEF vars
<1> QED
  BY <1>o, <1>1, <1>2, <1>3, <1>4, <1>5, <1>6, <1>7, <1>8, <1>9, <1>10,
     <1>11, <1>12, <1>13, <1>14, <1>15, <1>16, <1>17, <1>18
     DEF Next, Recover, Execute

(* Whoever recovers.                                                       *)
LEMMA RecoveryStep ==
  ASSUME IInv, [Next]_vars, OneThread', faults' = 0
  PROVE  RecoveryInOrder'
<1> USE NamesAssumption, BoundsAssumption
    DEF IInv, TypeOK, JobAtHand, ChildrenWaitedFor, AnsweredIsKnown, InOrder,
        OneThread, QueueInOrder, ThreadInOrder, RecoveryInOrder, OutcomesOnDisk,
        files, threads, procs, bounds, RequestUnchanged, ExecutorUnchanged, Procs, Serving,
        JobState, Active, Terminal
<1>o. OneThread /\ faults = 0
  BY InOrderAlone
<1>1. ASSUME NEW j \in Jobs, Create(j) PROVE RecoveryInOrder'
  BY <1>o, <1>1 DEF Create, Fault, UpdateRaises, Update
<1>2. ASSUME NEW j \in Jobs, CreateReplace(j) PROVE RecoveryInOrder'
  BY <1>o, <1>2 DEF CreateReplace, Replace
<1>3. ASSUME NEW j \in Jobs, Submit(j) PROVE RecoveryInOrder'
  BY <1>o, <1>3 DEF Submit
<1>4. ASSUME NEW j \in Jobs, Poll(j) PROVE RecoveryInOrder'
  BY <1>o, <1>4 DEF Poll
<1>5. ASSUME NEW p \in Procs, NEW j \in Jobs, RecoverRead(p, j) PROVE RecoveryInOrder'
  BY <1>o, <1>5 DEF RecoverRead, Remember, Interrupted
<1>6. ASSUME NEW p \in Procs, RecoverWrite(p) PROVE RecoveryInOrder'
  BY <1>o, <1>6 DEF RecoverWrite, RecoverRaises, Exit, Fault
<1>7. ASSUME NEW p \in Procs, RecoverReplace(p) PROVE RecoveryInOrder'
  BY <1>o, <1>7, SMTT(30) DEF RecoverReplace, RecoverRaises, Exit, Replace, ReplaceRaises, Remember
<1>8. ASSUME NEW p \in Procs, Recovered(p) PROVE RecoveryInOrder'
  BY <1>o, <1>8 DEF Recovered
<1>9. ASSUME NEW e \in Executors, Begin(e) PROVE RecoveryInOrder'
  <2>1. /\ queue # <<>> /\ pc[e] = "idle" /\ e \in pool /\ UNCHANGED <<phase, cur, disk>>
    BY <1>o, <1>9 DEF Begin, UpdateRaises, Fault, Update
  <2>2. \A p \in Procs : phase[p] \notin {"write", "replace"}
    BY <1>o, <2>1
  <2> QED
    BY <2>1, <2>2
<1>10. ASSUME NEW e \in Executors, BeginReplace(e) PROVE RecoveryInOrder'
  BY <1>o, <1>10 DEF BeginReplace, Replace, ReplaceRaises, Goto, Leave
<1>11. ASSUME NEW e \in Executors, Spawn(e) PROVE RecoveryInOrder'
  <2>1. /\ UNCHANGED <<disk, tmp>> /\ phase'[e] = "scan"
        /\ \A q \in Procs : q # e => phase'[q] = phase[q] /\ cur'[q] = cur[q]
    BY <1>o, <1>11 DEF Spawn, Launch, Fault
  <2> QED
    BY <1>o, <2>1
<1>12. ASSUME NEW e \in Executors, Work(e) PROVE RecoveryInOrder'
  BY <1>o, <1>12 DEF Work, Goto, Exit
<1>13. ASSUME NEW e \in Executors, ChildDies(e) PROVE RecoveryInOrder'
  BY <1>o, <1>13 DEF ChildDies, Goto, Exit
<1>14. ASSUME NEW e \in Executors, Report(e) PROVE RecoveryInOrder'
  BY <1>o, <1>14 DEF Report, Outcome, Goto, Leave, Fault, UpdateRaises, Update
<1>15. ASSUME NEW e \in Executors, ReportReplace(e) PROVE RecoveryInOrder'
  <2>1. /\ phase[Web] = "on" /\ phase[e] = "off" /\ e \in pool
        /\ UNCHANGED <<phase, cur>>
    BY <1>15, NotServing DEF ReportReplace
  <2>2. \A p \in Procs : phase'[p] \notin {"write", "replace"}
    BY <1>o, <2>1
  <2> QED
    BY <2>2
<1>16. CASE StartWeb
  BY <1>o, <1>16 DEF StartWeb, Launch, Files
<1>17. CASE Crash
  BY <1>o, <1>17 DEF Crash
<1>18. CASE UNCHANGED vars
  BY <1>o, <1>18 DEF vars
<1> QED
  BY <1>o, <1>1, <1>2, <1>3, <1>4, <1>5, <1>6, <1>7, <1>8, <1>9, <1>10,
     <1>11, <1>12, <1>13, <1>14, <1>15, <1>16, <1>17, <1>18
     DEF Next, Recover, Execute

(* Outcomes.                                                               *)
LEMMA OutcomesStep ==
  ASSUME IInv, [Next]_vars, OneThread', faults' = 0
  PROVE  OutcomesOnDisk'
<1> USE NamesAssumption, BoundsAssumption
    DEF IInv, TypeOK, JobAtHand, ChildrenWaitedFor, AnsweredIsKnown, InOrder,
        OneThread, QueueInOrder, ThreadInOrder, RecoveryInOrder, OutcomesOnDisk,
        files, threads, procs, bounds, RequestUnchanged, ExecutorUnchanged, Procs, Serving,
        JobState, Active, Terminal
<1>o. OneThread /\ faults = 0
  BY InOrderAlone
<1>1. ASSUME NEW j \in Jobs, Create(j) PROVE OutcomesOnDisk'
  BY <1>o, <1>1 DEF Create, Fault, UpdateRaises, Update
<1>2. ASSUME NEW j \in Jobs, CreateReplace(j) PROVE OutcomesOnDisk'
  BY <1>o, <1>2 DEF CreateReplace, Replace
<1>3. ASSUME NEW j \in Jobs, Submit(j) PROVE OutcomesOnDisk'
  BY <1>o, <1>3 DEF Submit
<1>4. ASSUME NEW j \in Jobs, Poll(j) PROVE OutcomesOnDisk'
  <2>1. /\ UNCHANGED <<disk, mem, pc, job>> /\ mem[j] \in Terminal
        /\ polled' = [polled EXCEPT ![j] = mem[j]]
    BY <1>4 DEF Poll
  <2>2. \A e \in Executors : pc[e] # "report"
    BY <1>4 DEF Poll, LockFree, Persisting
  <2>3. disk[j] = mem[j]
    BY <1>o, <2>1, <2>2
  <2> QED
    BY <1>o, <2>1, <2>3
<1>5. ASSUME NEW p \in Procs, NEW j \in Jobs, RecoverRead(p, j) PROVE OutcomesOnDisk'
  BY <1>o, <1>5 DEF RecoverRead, Remember, Interrupted
<1>6. ASSUME NEW p \in Procs, RecoverWrite(p) PROVE OutcomesOnDisk'
  BY <1>o, <1>6 DEF RecoverWrite, RecoverRaises, Exit, Fault
<1>7. ASSUME NEW p \in Procs, RecoverReplace(p) PROVE OutcomesOnDisk'
  BY <1>o, <1>7 DEF RecoverReplace, RecoverRaises, Exit, Replace, ReplaceRaises, Remember
<1>8. ASSUME NEW p \in Procs, Recovered(p) PROVE OutcomesOnDisk'
  BY <1>o, <1>8 DEF Recovered
<1>9. ASSUME NEW e \in Executors, Begin(e) PROVE OutcomesOnDisk'
  BY <1>o, <1>9 DEF Begin, Fault, UpdateRaises, Update
<1>10. ASSUME NEW e \in Executors, BeginReplace(e) PROVE OutcomesOnDisk'
  BY <1>o, <1>10 DEF BeginReplace, Replace, ReplaceRaises, Goto, Leave
<1>11. ASSUME NEW e \in Executors, Spawn(e) PROVE OutcomesOnDisk'
  BY <1>o, <1>11 DEF Spawn, Launch, Files, Fault, Goto, Leave
<1>12. ASSUME NEW e \in Executors, Work(e) PROVE OutcomesOnDisk'
  BY <1>o, <1>12 DEF Work, Goto, Exit
<1>13. ASSUME NEW e \in Executors, ChildDies(e) PROVE OutcomesOnDisk'
  BY <1>o, <1>13 DEF ChildDies, Goto, Exit
<1>14. ASSUME NEW e \in Executors, Report(e) PROVE OutcomesOnDisk'
  BY <1>o, <1>14 DEF Report, Outcome, Goto, Leave, Fault, UpdateRaises, Update
<1>15. ASSUME NEW e \in Executors, ReportReplace(e) PROVE OutcomesOnDisk'
  BY <1>o, <1>15 DEF ReportReplace, Replace, ReplaceRaises, Leave
<1>16. CASE StartWeb
  BY <1>o, <1>16 DEF StartWeb, Launch, Files
<1>17. CASE Crash
  BY <1>o, <1>17 DEF Crash
<1>18. CASE UNCHANGED vars
  BY <1>o, <1>18 DEF vars
<1> QED
  BY <1>o, <1>1, <1>2, <1>3, <1>4, <1>5, <1>6, <1>7, <1>8, <1>9, <1>10,
     <1>11, <1>12, <1>13, <1>14, <1>15, <1>16, <1>17, <1>18
     DEF Next, Recover, Execute

(* The invariant is inductive, and holds in every reachable state.           *)
THEOREM Invariance == Spec => []IInv
<1>1. IInv /\ [Next]_vars => IInv'
  BY TypeStep, ProcsStep, KnownStep, QueueStep, ThreadStep, RecoveryStep, OutcomesStep
     DEF IInv, InOrder
<1> QED
  BY InitInv, <1>1, PTL DEF Spec

(* Every variable has its type.                                             *)
THEOREM TypeCorrect == Spec => []TypeOK
<1>1. IInv => TypeOK
  BY DEF IInv
<1> QED
  BY Invariance, <1>1, PTL

(* A job whose creation was answered is known as long as the web process       *)
(* serves; and with one thread, while no write fails, an outcome it could be   *)
(* told is on disk and the one it was told is the job's.                      *)
THEOREM AnswersKept == Spec => []AnswersStayTrue
<1>1. IInv => AnswersStayTrue
  <2> SUFFICES ASSUME IInv, Serving, NEW j \in Jobs
      PROVE  /\ request[j] = "answered" => mem[j] # "absent"
             /\ OneThread /\ faults = 0 =>
                  /\ LockFree /\ mem[j] \in Terminal => disk[j] = mem[j]
                  /\ polled[j] # "none" => mem[j] = polled[j]
    BY DEF AnswersStayTrue
  <2>1. request[j] = "answered" => mem[j] # "absent"
    BY DEF IInv, AnsweredIsKnown, Serving
  <2>2. ASSUME OneThread, faults = 0
        PROVE  /\ LockFree /\ mem[j] \in Terminal => disk[j] = mem[j]
               /\ polled[j] # "none" => mem[j] = polled[j]
    <3>1. LockFree => \A e \in Executors : pc[e] # "report"
      BY DEF LockFree, Persisting
    <3>2. polled[j] # "none" => mem[j] = polled[j]
      <4>1. polled[j] # "none" => request[j] = "answered"
        BY <2>2 DEF IInv, InOrder, ThreadInOrder
      <4> QED
        BY <2>1, <2>2, <4>1 DEF IInv, InOrder, OutcomesOnDisk
    <3> QED
      BY <2>2, <3>1, <3>2 DEF IInv, InOrder, OutcomesOnDisk
  <2> QED
    BY <2>1, <2>2
<1> QED
  BY Invariance, <1>1, PTL

=============================================================================
