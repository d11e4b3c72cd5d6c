---------------------------- MODULE QaRunsProofs ----------------------------
(***************************************************************************)
(* Theorems about QaRuns, for any number of requests, models and faults.    *)
(* As long as jobs do not overlap, one thread at a time works in the        *)
(* session, so what it finds in a step is what it left in the last one.     *)
(***************************************************************************)
EXTENDS QaRuns, TLAPS

(* A request without a job is not in the registry.                          *)
Fresh ==
  \A r \in Requests : pc[r] \in {"idle", "upload", "refused"} => status[r] = "none"

(* One thread works at a time.                                             *)
Alone == ~overlap => \A q, r \in Requests : Live(q) /\ Live(r) => q = r

(* While the session is open, a thread that has read the manifest belongs to *)
(* the only active job that is not stranded; so does one that is about to,   *)
(* if the manifest can be read.                                            *)
ActiveAlone ==
  ~overlap /\ session = "open" =>
    \A q, r \in Requests :
      /\ Live(r) /\ (pc[r] = "load" => ~torn)
      /\ status[q] \in Active /\ pc[q] # "stranded"
      => q = r

(* The state of a file a job has dealt with.                                *)
DealtWith(r, m) == failures[r] \/ (m \in listed[r] /\ out[m] = "all")

Processing == {"files", "process", "write"}
Storing == {"zip", "zipping", "save", "saving", "report"}

(* The files of a job are waiting, in work, or dealt with; what an append    *)
(* found listed is listed, or a file of the job.                           *)
FilesKept ==
  ~overlap /\ session = "open" =>
    \A r \in Requests :
      /\ pc[r] \in Processing =>
           \A m \in files[r] : m \in todo[r] \/ m = cur[r] \/ DealtWith(r, m)
      /\ pc[r] = "write" => out[cur[r]] # "none"
      /\ pc[r] \in Storing => \A m \in files[r] : DealtWith(r, m)
      /\ pc[r] = "report" => saved = listed[r]
      /\ r \in cut => pc[r] = "zipping"
      /\ mode[r] = "append" =>
           /\ pc[r] = "clear" => before[r] \subseteq listed[r]
           /\ pc[r] \in Processing \cup Storing => before[r] \ files[r] \subseteq listed[r]
      /\ todo[r] \subseteq files[r]
      /\ pc[r] \notin Processing => todo[r] = {}
      /\ cur[r] # None => cur[r] \in files[r]

(* No job has expired, no write has failed, the session has not ended.       *)
NothingLost ==
  /\ ~overlap /\ faults = 0 /\ session = "open"
  /\ \A r \in Requests : status[r] # "gone"

(* The zip has the outputs on disk and the rows of the models in S.         *)
ZipHas(S) ==
  /\ zip.state = "done" /\ zip.rows = S
  /\ zip.outputs = out

(* The models in S, and no others, have all their outputs.                  *)
AllStored(S) == \A m \in Models : m \in S <=> out[m] = "all"

(* What is listed is what is stored, at every point of a job and between     *)
(* jobs.                                                                   *)
ListedIsStored ==
  NothingLost =>
    /\ cut = {}
    /\ torn => \E r \in Requests : pc[r] = "saving"
    /\ \A r \in Requests :
         /\ pc[r] \in {"clear"} \cup Processing \cup Storing => AllStored(listed[r])
         /\ pc[r] \in {"process", "write"} => cur[r] \notin listed[r]
         /\ pc[r] \in {"zip", "zipping"} => table = listed[r]
         /\ pc[r] = "zipping" => zip.state = "open"
         /\ pc[r] \in {"save", "saving", "report"} => ZipHas(listed[r])
         /\ pc[r] = "load" => AllStored(saved)
    /\ (\A r \in Requests : ~Live(r)) =>
         /\ AllStored(saved)
         /\ (\E r \in Requests : pc[r] = "done") => ZipHas(saved)

IInv ==
  /\ TypeOK
  /\ Fresh
  /\ Alone
  /\ BusyMeansWorking
  /\ ActiveAlone
  /\ FilesKept
  /\ ListedIsStored

-----------------------------------------------------------------------------


(* The types are kept.                                                      *)
LEMMA TypeOKKept == ASSUME IInv, [Next]_vars PROVE TypeOK'
<1> USE NoneAssumption, BoundAssumption DEF IInv, TypeOK, PC, Status, Outputs,
        Running, Active, Finished, request, thread, manifest, place, ghost
<1>1. CASE UNCHANGED vars
  BY <1>1 DEF vars
<1>2. ASSUME NEW r \in Requests, NEW md \in {"replace", "append"},
            NEW fs \in SUBSET Models \ {{}}, Ask(r, md, fs)
     PROVE  TypeOK'
  BY <1>2 DEF Ask, Goto, HasActiveJob
<1>3. ASSUME NEW r \in Requests, Reject(r) PROVE TypeOK'
  BY <1>3 DEF Reject, End, Goto
<1>4. ASSUME NEW r \in Requests, Start(r) PROVE TypeOK'
  BY <1>4 DEF Start, Goto
<1>5. ASSUME NEW r \in Requests, Expire(r) PROVE TypeOK'
  BY <1>5 DEF Expire, NoZip, NoOutputs
<1>6. ASSUME NEW r \in Requests, Load(r) PROVE TypeOK'
  <2>1. CASE torn
    <3>1. End(r, "unread") /\ session' = Remade
         /\ UNCHANGED <<status, out, zip, table, manifest, overlap, faults>>
      BY <1>6, <2>1 DEF Load, Remade
    <3> QED
      BY <2>1, <3>1 DEF End, Goto, Remade
  <2>2. CASE ~torn
    BY <1>6, <2>2 DEF Load, Goto, Remade
  <2> QED
    BY <2>1, <2>2
<1>7. ASSUME NEW r \in Requests, Clear(r) PROVE TypeOK'
  BY <1>7 DEF Clear, Goto, SetStatus, ThreadUnchanged, NoOutputs, Remade
<1>8. ASSUME NEW r \in Requests, NextFile(r) PROVE TypeOK'
  BY <1>8 DEF NextFile, Goto, ThreadUnchanged
<1>9. ASSUME NEW r \in Requests, Collect(r) PROVE TypeOK'
  BY <1>9 DEF Collect, Goto, ThreadUnchanged, Remade
<1>10. ASSUME NEW r \in Requests, WriteOutputs(r) PROVE TypeOK'
  BY <1>10 DEF WriteOutputs, Goto, ThreadUnchanged, Remade
<1>11. ASSUME NEW r \in Requests, FileFails(r) PROVE TypeOK'
  BY <1>11 DEF FileFails, Goto, ThreadUnchanged
<1>12. ASSUME NEW r \in Requests, WriteTable(r) PROVE TypeOK'
  BY <1>12 DEF WriteTable, Goto, ThreadUnchanged, Remade
<1>13. ASSUME NEW r \in Requests, OpenZip(r) PROVE TypeOK'
  BY <1>13 DEF OpenZip, Goto, ThreadUnchanged, NoZip, NoOutputs
<1>14. ASSUME NEW r \in Requests, FillZip(r) PROVE TypeOK'
  BY <1>14 DEF FillZip, Goto, ThreadUnchanged
<1>15. ASSUME NEW r \in Requests, ZipLost(r) PROVE TypeOK'
  BY <1>15 DEF ZipLost, End, Goto, SetStatus
<1>16. ASSUME NEW r \in Requests, OpenManifest(r) PROVE TypeOK'
  BY <1>16 DEF OpenManifest, Goto, ThreadUnchanged, Remade
<1>17. ASSUME NEW r \in Requests, SaveManifest(r) PROVE TypeOK'
  <2>1. saved' \subseteq Models /\ torn' \in BOOLEAN
    <3>1. UNCHANGED <<saved, torn>> \/ (saved' = listed[r] /\ torn' = FALSE)
      BY <1>17 DEF SaveManifest
    <3>2. listed[r] \subseteq Models
      OBVIOUS
    <3> QED
      BY <3>1, <3>2
  <2>2. cut' \subseteq Requests /\ UNCHANGED <<status, session, faults, thread, out, zip, table>>
    BY <1>17 DEF SaveManifest
  <2>3. pc[r] = "saving" /\ Goto(r, "report") /\ ThreadUnchanged
    BY <1>17 DEF SaveManifest
  <2> QED
    BY <2>1, <2>2, <2>3 DEF Goto, ThreadUnchanged
<1>18. ASSUME NEW r \in Requests, Report(r) PROVE TypeOK'
  BY <1>18 DEF Report, End, Goto, SetStatus
<1>19. ASSUME NEW r \in Requests, Fails(r) PROVE TypeOK'
  BY <1>19 DEF Fails, End, Goto, SetStatus, Fault
<1>20. ASSUME NEW r \in Requests, Stranded(r) PROVE TypeOK'
  BY <1>20 DEF Stranded, End, Goto, Fault, NoOutputs, Remade
<1>21. ASSUME NEW r \in Requests, FillRemovedZip(r) PROVE TypeOK'
  BY <1>21 DEF FillRemovedZip, Goto, ThreadUnchanged
<1>22. CASE EndSession
  BY <1>22 DEF EndSession, NoZip, NoOutputs
<1> HIDE DEF IInv, TypeOK, PC, Status, Outputs, Running, Active, Finished
<1> QED
  BY <1>1, <1>2, <1>3, <1>4, <1>5, <1>6, <1>7, <1>8, <1>9, <1>10,
     <1>11, <1>12, <1>13, <1>14, <1>15, <1>16, <1>17, <1>18, <1>19, <1>20,
     <1>21, <1>22 DEF Next, Run

(* Only requests with a job are in the registry.                            *)
LEMMA FreshKept == ASSUME IInv, [Next]_vars PROVE Fresh'
<1> USE DEF IInv, TypeOK, Fresh, Active, Finished, request, thread, manifest, place, ghost
<1>1. CASE UNCHANGED vars
  BY <1>1 DEF vars
<1>2. ASSUME NEW r \in Requests, NEW md \in {"replace", "append"},
            NEW fs \in SUBSET Models \ {{}}, Ask(r, md, fs)
     PROVE  Fresh'
  BY <1>2 DEF Ask, Goto, HasActiveJob
<1>3. ASSUME NEW r \in Requests, Reject(r) PROVE Fresh'
  BY <1>3 DEF Reject, End, Goto
<1>4. ASSUME NEW r \in Requests, Start(r) PROVE Fresh'
  BY <1>4 DEF Start, Goto
<1>5. ASSUME NEW r \in Requests, Expire(r) PROVE Fresh'
  BY <1>5 DEF Expire, NoZip, NoOutputs
<1>6. ASSUME NEW r \in Requests, Load(r) PROVE Fresh'
  BY <1>6 DEF Load, End, Goto, Remade
<1>7. ASSUME NEW r \in Requests, Clear(r) PROVE Fresh'
  BY <1>7 DEF Clear, Goto, SetStatus, ThreadUnchanged, NoOutputs, Remade
<1>8. ASSUME NEW r \in Requests, NextFile(r) PROVE Fresh'
  BY <1>8 DEF NextFile, Goto, ThreadUnchanged
<1>9. ASSUME NEW r \in Requests, Collect(r) PROVE Fresh'
  BY <1>9 DEF Collect, Goto, ThreadUnchanged, Remade
<1>10. ASSUME NEW r \in Requests, WriteOutputs(r) PROVE Fresh'
  BY <1>10 DEF WriteOutputs, Goto, ThreadUnchanged, Remade
<1>11. ASSUME NEW r \in Requests, FileFails(r) PROVE Fresh'
  BY <1>11 DEF FileFails, Goto, ThreadUnchanged
<1>12. ASSUME NEW r \in Requests, WriteTable(r) PROVE Fresh'
  BY <1>12 DEF WriteTable, Goto, ThreadUnchanged, Remade
<1>13. ASSUME NEW r \in Requests, OpenZip(r) PROVE Fresh'
  BY <1>13 DEF OpenZip, Goto, ThreadUnchanged, NoZip, NoOutputs
<1>14. ASSUME NEW r \in Requests, FillZip(r) PROVE Fresh'
  BY <1>14 DEF FillZip, Goto, ThreadUnchanged
<1>15. ASSUME NEW r \in Requests, ZipLost(r) PROVE Fresh'
  BY <1>15 DEF ZipLost, End, Goto, SetStatus
<1>16. ASSUME NEW r \in Requests, OpenManifest(r) PROVE Fresh'
  BY <1>16 DEF OpenManifest, Goto, ThreadUnchanged, Remade
<1>17. ASSUME NEW r \in Requests, SaveManifest(r) PROVE Fresh'
  BY <1>17 DEF SaveManifest, Goto, ThreadUnchanged
<1>18. ASSUME NEW r \in Requests, Report(r) PROVE Fresh'
  BY <1>18 DEF Report, End, Goto, SetStatus
<1>19. ASSUME NEW r \in Requests, Fails(r) PROVE Fresh'
  BY <1>19 DEF Fails, End, Goto, SetStatus, Fault
<1>20. ASSUME NEW r \in Requests, Stranded(r) PROVE Fresh'
  BY <1>20 DEF Stranded, End, Goto, Fault, NoOutputs, Remade
<1>21. ASSUME NEW r \in Requests, FillRemovedZip(r) PROVE Fresh'
  BY <1>21 DEF FillRemovedZip, Goto, ThreadUnchanged
<1>22. CASE EndSession
  BY <1>22 DEF EndSession, NoZip, NoOutputs
<1> HIDE DEF IInv, TypeOK, Fresh, Active, Finished
<1> QED
  BY <1>1, <1>2, <1>3, <1>4, <1>5, <1>6, <1>7, <1>8, <1>9, <1>10,
     <1>11, <1>12, <1>13, <1>14, <1>15, <1>16, <1>17, <1>18, <1>19, <1>20,
     <1>21, <1>22 DEF Next, Run

(* A second thread is an overlap.                                          *)
LEMMA AloneKept == ASSUME IInv, [Next]_vars PROVE Alone'
<1> USE DEF IInv, TypeOK, Alone, Live, Running, request, thread, manifest, place, ghost
<1>1. CASE UNCHANGED vars
  BY <1>1 DEF vars
<1>2. ASSUME NEW r \in Requests, NEW md \in {"replace", "append"},
            NEW fs \in SUBSET Models \ {{}}, Ask(r, md, fs)
     PROVE  Alone'
  BY <1>2 DEF Ask, Goto, HasActiveJob
<1>3. ASSUME NEW r \in Requests, Reject(r) PROVE Alone'
  BY <1>3 DEF Reject, End, Goto
<1>4. ASSUME NEW r \in Requests, Start(r) PROVE Alone'
  <2>1. CASE overlap'
    BY <2>1
  <2>2. CASE ~overlap'
    <3>1. ~overlap /\ \A q \in Requests : ~Live(q)
      BY <1>4, <2>2, Zenon DEF Start
    <3> QED
      BY <1>4, <3>1 DEF Start, Goto
  <2> QED
    BY <2>1, <2>2
<1>5. ASSUME NEW r \in Requests, Expire(r) PROVE Alone'
  BY <1>5 DEF Expire, NoZip, NoOutputs
<1>6. ASSUME NEW r \in Requests, Load(r) PROVE Alone'
  BY <1>6 DEF Load, End, Goto, Remade
<1>7. ASSUME NEW r \in Requests, Clear(r) PROVE Alone'
  BY <1>7 DEF Clear, Goto, SetStatus, ThreadUnchanged, NoOutputs, Remade
<1>8. ASSUME NEW r \in Requests, NextFile(r) PROVE Alone'
  BY <1>8 DEF NextFile, Goto, ThreadUnchanged
<1>9. ASSUME NEW r \in Requests, Collect(r) PROVE Alone'
  BY <1>9 DEF Collect, Goto, ThreadUnchanged, Remade
<1>10. ASSUME NEW r \in Requests, WriteOutputs(r) PROVE Alone'
  BY <1>10 DEF WriteOutputs, Goto, ThreadUnchanged, Remade
<1>11. ASSUME NEW r \in Requests, FileFails(r) PROVE Alone'
  BY <1>11 DEF FileFails, Goto, ThreadUnchanged
<1>12. ASSUME NEW r \in Requests, WriteTable(r) PROVE Alone'
  BY <1>12 DEF WriteTable, Goto, ThreadUnchanged, Remade
<1>13. ASSUME NEW r \in Requests, OpenZip(r) PROVE Alone'
  BY <1>13 DEF OpenZip, Goto, ThreadUnchanged, NoZip, NoOutputs
<1>14. ASSUME NEW r \in Requests, FillZip(r) PROVE Alone'
  BY <1>14 DEF FillZip, Goto, ThreadUnchanged
<1>15. ASSUME NEW r \in Requests, ZipLost(r) PROVE Alone'
  BY <1>15 DEF ZipLost, End, Goto, SetStatus
<1>16. ASSUME NEW r \in Requests, OpenManifest(r) PROVE Alone'
  BY <1>16 DEF OpenManifest, Goto, ThreadUnchanged, Remade
<1>17. ASSUME NEW r \in Requests, SaveManifest(r) PROVE Alone'
  BY <1>17 DEF SaveManifest, Goto, ThreadUnchanged
<1>18. ASSUME NEW r \in Requests, Report(r) PROVE Alone'
  BY <1>18 DEF Report, End, Goto, SetStatus
<1>19. ASSUME NEW r \in Requests, Fails(r) PROVE Alone'
  BY <1>19 DEF Fails, End, Goto, SetStatus, Fault
<1>20. ASSUME NEW r \in Requests, Stranded(r) PROVE Alone'
  BY <1>20 DEF Stranded, End, Goto, Fault, NoOutputs, Remade
<1>21. ASSUME NEW r \in Requests, FillRemovedZip(r) PROVE Alone'
  BY <1>21 DEF FillRemovedZip, Goto, ThreadUnchanged
<1>22. CASE EndSession
  BY <1>22 DEF EndSession, NoZip, NoOutputs
<1> HIDE DEF IInv, TypeOK, Alone, Live, Running
<1> QED
  BY <1>1, <1>2, <1>3, <1>4, <1>5, <1>6, <1>7, <1>8, <1>9, <1>10,
     <1>11, <1>12, <1>13, <1>14, <1>15, <1>16, <1>17, <1>18, <1>19, <1>20,
     <1>21, <1>22 DEF Next, Run

(* An active job has its thread, or an unreadable manifest.                 *)
LEMMA BusyKept == ASSUME IInv, [Next]_vars PROVE BusyMeansWorking'
<1> USE DEF IInv, TypeOK, Alone, ActiveAlone, BusyMeansWorking, Live, Running,
        Active, Finished, request, thread, manifest, place, ghost
<1>1. CASE UNCHANGED vars
  BY <1>1 DEF vars
<1>2. ASSUME NEW r \in Requests, NEW md \in {"replace", "append"},
            NEW fs \in SUBSET Models \ {{}}, Ask(r, md, fs)
     PROVE  BusyMeansWorking'
  BY <1>2 DEF Ask, Goto, HasActiveJob
<1>3. ASSUME NEW r \in Requests, Reject(r) PROVE BusyMeansWorking'
  BY <1>3 DEF Reject, End, Goto
<1>4. ASSUME NEW r \in Requests, Start(r) PROVE BusyMeansWorking'
  BY <1>4 DEF Start, Goto
<1>5. ASSUME NEW r \in Requests, Expire(r) PROVE BusyMeansWorking'
  BY <1>5 DEF Expire, NoZip, NoOutputs
<1>6. ASSUME NEW r \in Requests, Load(r) PROVE BusyMeansWorking'
  BY <1>6 DEF Load, End, Goto, Remade
<1>7. ASSUME NEW r \in Requests, Clear(r) PROVE BusyMeansWorking'
  BY <1>7 DEF Clear, Goto, SetStatus, ThreadUnchanged, NoOutputs, Remade
<1>8. ASSUME NEW r \in Requests, NextFile(r) PROVE BusyMeansWorking'
  BY <1>8 DEF NextFile, Goto, ThreadUnchanged
<1>9. ASSUME NEW r \in Requests, Collect(r) PROVE BusyMeansWorking'
  BY <1>9 DEF Collect, Goto, ThreadUnchanged, Remade
<1>10. ASSUME NEW r \in Requests, WriteOutputs(r) PROVE BusyMeansWorking'
  BY <1>10 DEF WriteOutputs, Goto, ThreadUnchanged, Remade
<1>11. ASSUME NEW r \in Requests, FileFails(r) PROVE BusyMeansWorking'
  BY <1>11 DEF FileFails, Goto, ThreadUnchanged
<1>12. ASSUME NEW r \in Requests, WriteTable(r) PROVE BusyMeansWorking'
  BY <1>12 DEF WriteTable, Goto, ThreadUnchanged, Remade
<1>13. ASSUME NEW r \in Requests, OpenZip(r) PROVE BusyMeansWorking'
  BY <1>13 DEF OpenZip, Goto, ThreadUnchanged, NoZip, NoOutputs
<1>14. ASSUME NEW r \in Requests, FillZip(r) PROVE BusyMeansWorking'
  BY <1>14 DEF FillZip, Goto, ThreadUnchanged
<1>15. ASSUME NEW r \in Requests, ZipLost(r) PROVE BusyMeansWorking'
  BY <1>15 DEF ZipLost, End, Goto, SetStatus
<1>16. ASSUME NEW r \in Requests, OpenManifest(r) PROVE BusyMeansWorking'
  BY <1>16 DEF OpenManifest, Goto, ThreadUnchanged, Remade
<1>17. ASSUME NEW r \in Requests, SaveManifest(r) PROVE BusyMeansWorking'
  BY <1>17 DEF SaveManifest, Goto, ThreadUnchanged
<1>18. ASSUME NEW r \in Requests, Report(r) PROVE BusyMeansWorking'
  BY <1>18 DEF Report, End, Goto, SetStatus
<1>19. ASSUME NEW r \in Requests, Fails(r) PROVE BusyMeansWorking'
  BY <1>19 DEF Fails, End, Goto, SetStatus, Fault
<1>20. ASSUME NEW r \in Requests, Stranded(r) PROVE BusyMeansWorking'
  BY <1>20 DEF Stranded, End, Goto, Fault, NoOutputs, Remade
<1>21. ASSUME NEW r \in Requests, FillRemovedZip(r) PROVE BusyMeansWorking'
  BY <1>21 DEF FillRemovedZip, Goto, ThreadUnchanged
<1>22. CASE EndSession
  BY <1>22 DEF EndSession, NoZip, NoOutputs
<1> HIDE DEF IInv, TypeOK, Alone, ActiveAlone, BusyMeansWorking, Live, Running,
        Active, Finished
<1> QED
  BY <1>1, <1>2, <1>3, <1>4, <1>5, <1>6, <1>7, <1>8, <1>9, <1>10,
     <1>11, <1>12, <1>13, <1>14, <1>15, <1>16, <1>17, <1>18, <1>19, <1>20,
     <1>21, <1>22 DEF Next, Run

(* The job of the thread that works is the only active one.                 *)
LEMMA ActiveAloneKept == ASSUME IInv, [Next]_vars PROVE ActiveAlone'
<1> USE DEF IInv, TypeOK, Alone, ActiveAlone, BusyMeansWorking, Live, Running,
        Active, Finished, request, thread, manifest, place, ghost
<1>1. CASE UNCHANGED vars
  BY <1>1 DEF vars
<1>2. ASSUME NEW r \in Requests, NEW md \in {"replace", "append"},
            NEW fs \in SUBSET Models \ {{}}, Ask(r, md, fs)
     PROVE  ActiveAlone'
  BY <1>2 DEF Ask, Goto, HasActiveJob
<1>3. ASSUME NEW r \in Requests, Reject(r) PROVE ActiveAlone'
  BY <1>3 DEF Reject, End, Goto
<1>4. ASSUME NEW r \in Requests, Start(r) PROVE ActiveAlone'
  <2>1. /\ pc' = [pc EXCEPT ![r] = "load"] /\ status' = [status EXCEPT ![r] = "queued"]
        /\ overlap' = (overlap \/ \E q \in Requests : Live(q))
        /\ torn' = torn /\ session' = session
    BY <1>4 DEF Start, Goto
  <2>2. SUFFICES ASSUME ~overlap', session' = "open", NEW q \in Requests, NEW s \in Requests,
                        Live(s)', pc'[s] = "load" => ~torn',
                        status'[q] \in Active, pc'[q] # "stranded"
                 PROVE  q = s
    BY DEF ActiveAlone
  <2>3. ~overlap /\ \A x \in Requests : ~Live(x)
    BY <2>1, <2>2
  <2>4. s = r /\ ~torn
    <3>1. pc'[s] \in Running
      BY <2>2
    <3>2. s # r => pc'[s] = pc[s]
      BY <2>1
    <3>3. s = r
      BY <2>3, <3>1, <3>2
    <3>4. QED
      BY <2>1, <2>2, <3>3
  <2>5. ASSUME q # r
        PROVE  FALSE
    <3>1. status[q] \in Active /\ pc[q] # "stranded"
      BY <2>1, <2>2, <2>5
    <3>2. pc[q] = "unread" /\ (torn \/ session # "open")
      BY <2>3, <3>1 DEF BusyMeansWorking
    <3>3. QED
      BY <2>1, <2>2, <2>4, <3>2
  <2>6. QED
    BY <2>4, <2>5
<1>5. ASSUME NEW r \in Requests, Expire(r) PROVE ActiveAlone'
  BY <1>5 DEF Expire, NoZip, NoOutputs
<1>6. ASSUME NEW r \in Requests, Load(r) PROVE ActiveAlone'
  BY <1>6 DEF Load, End, Goto, Remade
<1>7. ASSUME NEW r \in Requests, Clear(r) PROVE ActiveAlone'
  BY <1>7 DEF Clear, Goto, SetStatus, ThreadUnchanged, NoOutputs, Remade
<1>8. ASSUME NEW r \in Requests, NextFile(r) PROVE ActiveAlone'
  BY <1>8 DEF NextFile, Goto, ThreadUnchanged
<1>9. ASSUME NEW r \in Requests, Collect(r) PROVE ActiveAlone'
  BY <1>9 DEF Collect, Goto, ThreadUnchanged, Remade
<1>10. ASSUME NEW r \in Requests, WriteOutputs(r) PROVE ActiveAlone'
  BY <1>10 DEF WriteOutputs, Goto, ThreadUnchanged, Remade
<1>11. ASSUME NEW r \in Requests, FileFails(r) PROVE ActiveAlone'
  BY <1>11 DEF FileFails, Goto, ThreadUnchanged
<1>12. ASSUME NEW r \in Requests, WriteTable(r) PROVE ActiveAlone'
  BY <1>12 DEF WriteTable, Goto, ThreadUnchanged, Remade
<1>13. ASSUME NEW r \in Requests, OpenZip(r) PROVE ActiveAlone'
  BY <1>13 DEF OpenZip, Goto, ThreadUnchanged, NoZip, NoOutputs
<1>14. ASSUME NEW r \in Requests, FillZip(r) PROVE ActiveAlone'
  BY <1>14 DEF FillZip, Goto, ThreadUnchanged
<1>15. ASSUME NEW r \in Requests, ZipLost(r) PROVE ActiveAlone'
  BY <1>15 DEF ZipLost, End, Goto, SetStatus
<1>16. ASSUME NEW r \in Requests, OpenManifest(r) PROVE ActiveAlone'
  BY <1>16 DEF OpenManifest, Goto, ThreadUnchanged, Remade
<1>17. ASSUME NEW r \in Requests, SaveManifest(r) PROVE ActiveAlone'
  BY <1>17 DEF SaveManifest, Goto, ThreadUnchanged
<1>18. ASSUME NEW r \in Requests, Report(r) PROVE ActiveAlone'
  BY <1>18 DEF Report, End, Goto, SetStatus
<1>19. ASSUME NEW r \in Requests, Fails(r) PROVE ActiveAlone'
  BY <1>19 DEF Fails, End, Goto, SetStatus, Fault
<1>20. ASSUME NEW r \in Requests, Stranded(r) PROVE ActiveAlone'
  BY <1>20 DEF Stranded, End, Goto, Fault, NoOutputs, Remade
<1>21. ASSUME NEW r \in Requests, FillRemovedZip(r) PROVE ActiveAlone'
  BY <1>21 DEF FillRemovedZip, Goto, ThreadUnchanged
<1>22. CASE EndSession
  BY <1>22 DEF EndSession, NoZip, NoOutputs
<1> HIDE DEF IInv, TypeOK, Alone, ActiveAlone, BusyMeansWorking, Live, Running,
        Active, Finished
<1> QED
  BY <1>1, <1>2, <1>3, <1>4, <1>5, <1>6, <1>7, <1>8, <1>9, <1>10,
     <1>11, <1>12, <1>13, <1>14, <1>15, <1>16, <1>17, <1>18, <1>19, <1>20,
     <1>21, <1>22 DEF Next, Run

(* Nobody else touches what a thread has stored.                            *)
LEMMA FilesStayKept == ASSUME IInv, [Next]_vars PROVE FilesKept'
<1> USE NoneAssumption DEF IInv, TypeOK, Alone, FilesKept, DealtWith, Processing,
        Storing, Outputs, Live, Running, request, thread, manifest, place, ghost
<1>1. CASE UNCHANGED vars
  BY <1>1 DEF vars
<1>2. ASSUME NEW r \in Requests, NEW md \in {"replace", "append"},
            NEW fs \in SUBSET Models \ {{}}, Ask(r, md, fs)
     PROVE  FilesKept'
  BY <1>2 DEF Ask, Goto, HasActiveJob
<1>3. ASSUME NEW r \in Requests, Reject(r) PROVE FilesKept'
  BY <1>3 DEF Reject, End, Goto
<1>4. ASSUME NEW r \in Requests, Start(r) PROVE FilesKept'
  BY <1>4 DEF Start, Goto
<1>5. ASSUME NEW r \in Requests, Expire(r) PROVE FilesKept'
  BY <1>5 DEF Expire, NoZip, NoOutputs
<1>6. ASSUME NEW r \in Requests, Load(r) PROVE FilesKept'
  BY <1>6 DEF Load, End, Goto, Remade
<1>7. ASSUME NEW r \in Requests, Clear(r) PROVE FilesKept'
  BY <1>7 DEF Clear, Goto, SetStatus, ThreadUnchanged, NoOutputs, Remade
<1>8. ASSUME NEW r \in Requests, NextFile(r) PROVE FilesKept'
  BY <1>8 DEF NextFile, Goto, ThreadUnchanged
<1>9. ASSUME NEW r \in Requests, Collect(r) PROVE FilesKept'
  BY <1>9 DEF Collect, Goto, ThreadUnchanged, Remade
<1>10. ASSUME NEW r \in Requests, WriteOutputs(r) PROVE FilesKept'
  BY <1>10 DEF WriteOutputs, Goto, ThreadUnchanged, Remade
<1>11. ASSUME NEW r \in Requests, FileFails(r) PROVE FilesKept'
  BY <1>11 DEF FileFails, Goto, ThreadUnchanged
<1>12. ASSUME NEW r \in Requests, WriteTable(r) PROVE FilesKept'
  BY <1>12 DEF WriteTable, Goto, ThreadUnchanged, Remade
<1>13. ASSUME NEW r \in Requests, OpenZip(r) PROVE FilesKept'
  BY <1>13 DEF OpenZip, Goto, ThreadUnchanged, NoZip, NoOutputs
<1>14. ASSUME NEW r \in Requests, FillZip(r) PROVE FilesKept'
  BY <1>14 DEF FillZip, Goto, ThreadUnchanged
<1>15. ASSUME NEW r \in Requests, ZipLost(r) PROVE FilesKept'
  BY <1>15 DEF ZipLost, End, Goto, SetStatus
<1>16. ASSUME NEW r \in Requests, OpenManifest(r) PROVE FilesKept'
  BY <1>16 DEF OpenManifest, Goto, ThreadUnchanged, Remade
<1>17. ASSUME NEW r \in Requests, SaveManifest(r) PROVE FilesKept'
  <2>1. CASE r \in cut
    BY <1>17, <2>1 DEF SaveManifest, Goto, ThreadUnchanged
  <2>2. CASE r \notin cut
    BY <1>17, <2>2 DEF SaveManifest, Goto, ThreadUnchanged
  <2> QED
    BY <2>1, <2>2
<1>18. ASSUME NEW r \in Requests, Report(r) PROVE FilesKept'
  BY <1>18 DEF Report, End, Goto, SetStatus
<1>19. ASSUME NEW r \in Requests, Fails(r) PROVE FilesKept'
  BY <1>19 DEF Fails, End, Goto, SetStatus, Fault
<1>20. ASSUME NEW r \in Requests, Stranded(r) PROVE FilesKept'
  BY <1>20 DEF Stranded, End, Goto, Fault, NoOutputs, Remade
<1>21. ASSUME NEW r \in Requests, FillRemovedZip(r) PROVE FilesKept'
  BY <1>21 DEF FillRemovedZip, Goto, ThreadUnchanged
<1>22. CASE EndSession
  BY <1>22 DEF EndSession, NoZip, NoOutputs
<1> HIDE DEF IInv, TypeOK, Alone, FilesKept, DealtWith, Processing, Storing,
        Outputs, Live, Running
<1> QED
  BY <1>1, <1>2, <1>3, <1>4, <1>5, <1>6, <1>7, <1>8, <1>9, <1>10,
     <1>11, <1>12, <1>13, <1>14, <1>15, <1>16, <1>17, <1>18, <1>19, <1>20,
     <1>21, <1>22 DEF Next, Run

(* The same for what is listed.                                             *)
LEMMA ListedKept == ASSUME IInv, [Next]_vars PROVE ListedIsStored'
<1> USE NoneAssumption, BoundAssumption DEF IInv, TypeOK, Fresh, Alone, FilesKept,
        ListedIsStored, NothingLost, ZipHas,
     AllStored, Processing, Storing, Outputs, Live, Running, request, thread, manifest, place, ghost
<1>1. CASE UNCHANGED vars
  BY <1>1 DEF vars
<1>2. ASSUME NEW r \in Requests, NEW md \in {"replace", "append"},
            NEW fs \in SUBSET Models \ {{}}, Ask(r, md, fs)
     PROVE  ListedIsStored'
  BY <1>2 DEF Ask, Goto, HasActiveJob
<1>3. ASSUME NEW r \in Requests, Reject(r) PROVE ListedIsStored'
  BY <1>3 DEF Reject, End, Goto
<1>4. ASSUME NEW r \in Requests, Start(r) PROVE ListedIsStored'
  <2>1. CASE overlap'
    BY <2>1
  <2>2. CASE ~overlap'
    <3>1. ~overlap /\ \A q \in Requests : ~Live(q)
      BY <1>4, <2>2, Zenon DEF Start
    <3> QED
      BY <1>4, <3>1 DEF Start, Goto
  <2> QED
    BY <2>1, <2>2
<1>5. ASSUME NEW r \in Requests, Expire(r) PROVE ListedIsStored'
  BY <1>5 DEF Expire, NoZip, NoOutputs
<1>6. ASSUME NEW r \in Requests, Load(r) PROVE ListedIsStored'
  <2>1. CASE torn
    <3>1. ~NothingLost
      BY <1>6, <2>1 DEF Load, Remade
    <3>2. ~NothingLost'
      BY <1>6, <3>1 DEF Load, Remade
    <3> QED
      BY <3>2
  <2>2. CASE ~torn
    BY <1>6, <2>2 DEF Load, Goto, Remade
  <2> QED
    BY <2>1, <2>2
<1>7. ASSUME NEW r \in Requests, Clear(r) PROVE ListedIsStored'
  BY <1>7 DEF Clear, Goto, SetStatus, ThreadUnchanged, NoOutputs, Remade
<1>8. ASSUME NEW r \in Requests, NextFile(r) PROVE ListedIsStored'
  BY <1>8 DEF NextFile, Goto, ThreadUnchanged
<1>9. ASSUME NEW r \in Requests, Collect(r) PROVE ListedIsStored'
  BY <1>9 DEF Collect, Goto, ThreadUnchanged, Remade
<1>10. ASSUME NEW r \in Requests, WriteOutputs(r) PROVE ListedIsStored'
  BY <1>10 DEF WriteOutputs, Goto, ThreadUnchanged, Remade
<1>11. ASSUME NEW r \in Requests, FileFails(r) PROVE ListedIsStored'
  BY <1>11 DEF FileFails, Goto, ThreadUnchanged
<1>12. ASSUME NEW r \in Requests, WriteTable(r) PROVE ListedIsStored'
  BY <1>12 DEF WriteTable, Goto, ThreadUnchanged, Remade
<1>13. ASSUME NEW r \in Requests, OpenZip(r) PROVE ListedIsStored'
  BY <1>13 DEF OpenZip, Goto, ThreadUnchanged, NoZip, NoOutputs
<1>14. ASSUME NEW r \in Requests, FillZip(r) PROVE ListedIsStored'
  BY <1>14 DEF FillZip, Goto, ThreadUnchanged
<1>15. ASSUME NEW r \in Requests, ZipLost(r) PROVE ListedIsStored'
  BY <1>15 DEF ZipLost, End, Goto, SetStatus
<1>16. ASSUME NEW r \in Requests, OpenManifest(r) PROVE ListedIsStored'
  BY <1>16 DEF OpenManifest, Goto, ThreadUnchanged, Remade
<1>17. ASSUME NEW r \in Requests, SaveManifest(r) PROVE ListedIsStored'
  BY <1>17 DEF SaveManifest, Goto, ThreadUnchanged
<1>18. ASSUME NEW r \in Requests, Report(r) PROVE ListedIsStored'
  BY <1>18 DEF Report, End, Goto, SetStatus
<1>19. ASSUME NEW r \in Requests, Fails(r) PROVE ListedIsStored'
  BY <1>19 DEF Fails, End, Goto, SetStatus, Fault
<1>20. ASSUME NEW r \in Requests, Stranded(r) PROVE ListedIsStored'
  BY <1>20 DEF Stranded, End, Goto, Fault, NoOutputs, Remade
<1>21. ASSUME NEW r \in Requests, FillRemovedZip(r) PROVE ListedIsStored'
  BY <1>21 DEF FillRemovedZip, Goto, ThreadUnchanged
<1>22. CASE EndSession
  BY <1>22 DEF EndSession, NoZip, NoOutputs
<1> HIDE DEF IInv, TypeOK, Fresh, Alone, FilesKept, ListedIsStored, NothingLost,
        ZipHas,
     AllStored, Processing, Storing, Outputs, Live, Running
<1> QED
  BY <1>1, <1>2, <1>3, <1>4, <1>5, <1>6, <1>7, <1>8, <1>9, <1>10,
     <1>11, <1>12, <1>13, <1>14, <1>15, <1>16, <1>17, <1>18, <1>19, <1>20,
     <1>21, <1>22 DEF Next, Run

-----------------------------------------------------------------------------
(***************************************************************************)
(* The theorems.                                                           *)
(***************************************************************************)

(* The invariant holds at the beginning.                                    *)
LEMMA InitIInv == Init => IInv
<1> SUFFICES ASSUME Init PROVE IInv
  OBVIOUS
<1> USE DEF Init
<1>1. TypeOK
  <2>1. zip \in [state : {"none", "open", "done"}, outputs : Outputs, rows : SUBSET Models]
    BY DEF NoZip, NoOutputs, Outputs
  <2>2. out \in Outputs
    BY DEF NoOutputs, Outputs
  <2>3. pc \in [Requests -> PC] /\ status \in [Requests -> Status]
    BY DEF PC, Status
  <2>4. \A r \in Requests : cur[r] # None <=> pc[r] \in {"process", "write"}
    OBVIOUS
  <2>5. /\ mode \in [Requests -> {"replace", "append"}]
        /\ cur \in [Requests -> Models \cup {None}]
        /\ failures \in [Requests -> BOOLEAN]
        /\ overlap \in BOOLEAN /\ torn \in BOOLEAN
    OBVIOUS
  <2>6. /\ files \in [Requests -> SUBSET Models]
        /\ todo \in [Requests -> SUBSET Models]
        /\ listed \in [Requests -> SUBSET Models]
        /\ before \in [Requests -> SUBSET Models]
        /\ saved \subseteq Models /\ table \subseteq Models
    OBVIOUS
  <2> QED
    BY <2>1, <2>2, <2>3, <2>4, <2>5, <2>6, BoundAssumption DEF TypeOK
<1>2. Fresh /\ Alone /\ BusyMeansWorking /\ ActiveAlone
  BY DEF Fresh, Alone, BusyMeansWorking, ActiveAlone, Live, Running, Active
<1>3. FilesKept
  BY DEF FilesKept, Processing, Storing
<1>4. ListedIsStored
  BY DEF ListedIsStored, ZipHas, AllStored, Processing, Storing, NoOutputs
<1> QED
  BY <1>1, <1>2, <1>3, <1>4 DEF IInv

(* ... and every step keeps it.                                             *)
LEMMA NextIInv == IInv /\ [Next]_vars => IInv'
<1> SUFFICES ASSUME IInv, [Next]_vars PROVE IInv'
  OBVIOUS
<1> QED
  BY TypeOKKept, FreshKept, AloneKept, BusyKept, ActiveAloneKept, FilesStayKept,
     ListedKept DEF IInv

(* The invariant of Spec the theorems rest on.                              *)
THEOREM Invariance == Spec => []IInv
  BY InitIInv, NextIInv, PTL DEF Spec

(* The variables have the types of the registry, the manifest and the zip.  *)
THEOREM TypeCorrect == Spec => []TypeOK
<1>1. IInv => TypeOK
  BY DEF IInv
<1> QED
  BY Invariance, <1>1, PTL

(* The check for an active job refuses runs only while a thread works or     *)
(* after one met an unreadable manifest, as long as jobs do not overlap.     *)
THEOREM BusyIsTrue == Spec => []BusyMeansWorking
<1>1. IInv => BusyMeansWorking
  BY DEF IInv
<1> QED
  BY Invariance, <1>1, PTL

(* Between jobs the manifest, the model table in the zip and the outputs     *)
(* belong to the same models.                                              *)
THEOREM SummaryIsTrue == Spec => []SummaryMatchesZip
<1>1. IInv => SummaryMatchesZip
  BY DEF IInv, SummaryMatchesZip, Settled, ListedIsStored, NothingLost, ZipHas, AllStored
<1> QED
  BY Invariance, <1>1, PTL

(* A job reports in its last step.                                          *)
LEMMA ReportsIsReport ==
  ASSUME IInv, [Next]_vars, NEW r \in Requests, Reports(r)
  PROVE  Report(r)
<1> USE DEF Reports, IInv, TypeOK
<1>1. CASE UNCHANGED vars
  BY <1>1 DEF vars
<1>2. ASSUME NEW q \in Requests, NEW md \in {"replace", "append"},
            NEW fs \in SUBSET Models \ {{}}, Ask(q, md, fs)
     PROVE  FALSE
  BY <1>2 DEF Ask, Goto
<1>3. ASSUME NEW q \in Requests, Reject(q) \/ Start(q) \/ Expire(q) PROVE FALSE
  BY <1>3 DEF Reject, Start, Expire, End, Goto
<1>5. CASE EndSession
  BY <1>5 DEF EndSession
<1>4. ASSUME NEW q \in Requests, Run(q) PROVE q = r /\ Report(r)
  <2>1. q = r
    BY <1>4 DEF Run, Load, Clear, NextFile, Collect, WriteOutputs, FileFails, WriteTable,
           OpenZip, FillZip, FillRemovedZip, ZipLost, Stranded, OpenManifest, SaveManifest, Report, Fails, End, Goto
  <2> QED
    BY <1>4, <2>1 DEF Run, Load, Clear, NextFile, Collect, WriteOutputs, FileFails, WriteTable,
           OpenZip, FillZip, FillRemovedZip, ZipLost, Stranded, OpenManifest, SaveManifest, Fails
<1> HIDE DEF Reports, IInv, TypeOK
<1> QED
  BY <1>1, <1>2, <1>3, <1>4, <1>5 DEF Next

(* A job that ends complete has stored every file of its request, unless     *)
(* jobs overlapped.                                                        *)
THEOREM CompleteIsComplete == Spec => CompleteMeansAll
<1>1. IInv /\ [Next]_vars =>
        [\A r \in Requests :
           Reports(r) /\ ~overlap /\ session = "open" /\ status'[r] = "complete"
             => \A m \in files[r] : m \in saved /\ out[m] = "all"]_vars
  <2> SUFFICES ASSUME IInv, [Next]_vars, NEW r \in Requests,
                      Reports(r), ~overlap, session = "open",
                      status'[r] = "complete",
                      NEW m \in files[r]
               PROVE  m \in saved /\ out[m] = "all"
    OBVIOUS
  <2>1. Report(r)
    BY ReportsIsReport
  <2>2. ~failures[r]
    BY <2>1 DEF Report, SetStatus, IInv, TypeOK
  <2>3. DealtWith(r, m) /\ saved = listed[r]
    BY DEF IInv, FilesKept, Storing, Reports
  <2> QED
    BY <2>2, <2>3 DEF DealtWith
<1> QED
  BY Invariance, <1>1, PTL DEF Spec, CompleteMeansAll

(* add-to-zip keeps the models of earlier runs, unless jobs overlapped.      *)
THEOREM AppendKeeps == Spec => AppendKeepsOthers
<1>1. IInv /\ [Next]_vars =>
        [\A r \in Requests :
           Reports(r) /\ ~overlap /\ session = "open" /\ mode[r] = "append"
             => before[r] \ files[r] \subseteq saved]_vars
  BY DEF IInv, FilesKept, Storing, Reports
<1> QED
  BY Invariance, <1>1, PTL DEF Spec, AppendKeepsOthers

=============================================================================
