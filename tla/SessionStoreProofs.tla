------------------------- MODULE SessionStoreProofs -------------------------
(***************************************************************************)
(* Theorems about SessionStore, for any sessions and threads and any number *)
(* of restarts: what clients are told of their sessions is so as long as     *)
(* requests come one after the other, and however they overlap a clean-up    *)
(* spares the sessions in use.                                             *)
(***************************************************************************)
EXTENDS SessionStore, TLAPS

Cleaning == {"expired", "forget", "strays", "rmtree"}

(* A thread has what the place it is at is about.                           *)
AtHand ==
  \A t \in Threads :
    /\ op[t] = "none" <=> pc[t] = "idle"
    /\ op[t] = "end" <=> pc[t] \in {"drop", "pop"}
    /\ pc[t] \in {"touch", "set", "work", "created", "drop", "pop"} => sid[t] # None
    /\ pc[t] \in {"forget", "rmtree"} => victim[t] # None

(* A session is not marked old while it is in use.                          *)
AliveIsNotOld == alive \cap old = {}

(* Nobody is about to remove, or to forget, a session that has been in use    *)
(* since a clean-up began.                                                 *)
Spared ==
  \A t \in Threads : pc[t] \in Cleaning =>
    /\ keep[t] \subseteq alive \cup ended
    /\ \A s \in (keep[t] \cap alive) \ Ending :
         /\ s \in known
         /\ \A u \in Threads :
              /\ pc[u] \in {"expired", "forget"} => s \notin todo[u]
              /\ pc[u] \in {"forget", "rmtree"} => s # victim[u]

(* Requests one after the other: where the directories and the bookkeeping    *)
(* differ, the one thread at work is about to bring them together.           *)
Alone ==
  /\ \A t, u \in Threads : op[t] # "none" /\ op[u] # "none" => t = u
  /\ \A t \in Threads : op[t] # "startup" /\ pc[t] # "rmtree"

Told ==
  /\ alive \subseteq known
  /\ ended \cap (known \cup dir) = {}
  /\ \A t \in Threads :
       /\ pc[t] = "expired" => todo[t] \subseteq old
       /\ pc[t] = "forget" =>
            /\ dir = known \ {victim[t]} /\ victim[t] \in old
            /\ todo[t] \subseteq old \ {victim[t]}
       /\ pc[t] = "created" => dir = known \cup {sid[t]}
       /\ pc[t] = "pop" => dir = known \ {sid[t]}
       /\ pc[t] \in {"touch", "set", "work"} => sid[t] \in dir
  /\ (\A t \in Threads : pc[t] \notin {"forget", "created", "pop"}) => known = dir

InOrder == ~overlap => Alone /\ Told

IInv == TypeOK /\ AtHand /\ AliveIsNotOld /\ Spared /\ InOrder

(* The initial state satisfies the invariant.                               *)
LEMMA InitInv == Init => IInv
<1> SUFFICES ASSUME Init PROVE IInv
  OBVIOUS
<1>1. TypeOK
  <2>1. /\ op \in [Threads -> Ops] /\ pc \in [Threads -> PC]
        /\ sid \in [Threads -> {None}] /\ victim \in [Threads -> {None}]
        /\ todo \in [Threads -> SUBSET {}] /\ keep \in [Threads -> SUBSET {}]
    BY DEF Init, Ops, PC
  <2>2. used = {} /\ restarts \in 0..MaxRestarts
    BY BoundAssumption DEF Init
  <2>3. sid \in [Threads -> used \cup {None}] /\ victim \in [Threads -> used \cup {None}]
    BY <2>1
  <2> QED
    BY <2>1, <2>2, <2>3 DEF Init, TypeOK
<1>2. \A t \in Threads : op[t] = "none" /\ pc[t] = "idle"
  BY DEF Init
<1>3. AliveIsNotOld /\ Told
  BY <1>2 DEF Init, AliveIsNotOld, Told
<1> QED
  BY <1>1, <1>2, <1>3 DEF IInv, AtHand, Spared, Cleaning, InOrder, Alone

(* Types, and what threads have at hand.                                   *)
LEMMA TypeStep ==
  ASSUME IInv, [Next]_vars
  PROVE  TypeOK' /\ AtHand'
<1> USE NoneAssumption, BoundAssumption
    DEF IInv, TypeOK, Ops, PC, AtHand, store, local, ghost, history, Goto, Answer
<1>1. ASSUME NEW t \in Threads, CreateSession(t) PROVE TypeOK' /\ AtHand'
  BY <1>1 DEF CreateSession, Request
<1>2. ASSUME NEW t \in Threads, UseSession(t) PROVE TypeOK' /\ AtHand'
  BY <1>2 DEF UseSession, Request
<1>3. ASSUME NEW t \in Threads, EndSession(t) PROVE TypeOK' /\ AtHand'
  BY <1>3 DEF EndSession, Request
<1>4. ASSUME NEW t \in Threads, Select(t) PROVE TypeOK' /\ AtHand'
  BY <1>4 DEF Select, Stale
<1>5. ASSUME NEW t \in Threads, RemoveExpired(t) PROVE TypeOK' /\ AtHand'
  BY <1>5 DEF RemoveExpired
<1>6. ASSUME NEW t \in Threads, Forget(t) PROVE TypeOK' /\ AtHand'
  BY <1>6 DEF Forget, Pop
<1>7. ASSUME NEW t \in Threads, List(t) PROVE TypeOK' /\ AtHand'
  BY <1>7 DEF List
<1>8. ASSUME NEW t \in Threads, LookAtEntry(t) PROVE TypeOK' /\ AtHand'
  BY <1>8 DEF LookAtEntry, Stray
<1>9. ASSUME NEW t \in Threads, RemoveStray(t) PROVE TypeOK' /\ AtHand'
  BY <1>9 DEF RemoveStray
<1>10. ASSUME NEW t \in Threads, CleanedUp(t) PROVE TypeOK' /\ AtHand'
  BY <1>10 DEF CleanedUp
<1>11. ASSUME NEW t \in Threads, Exists(t) PROVE TypeOK' /\ AtHand'
  BY <1>11 DEF Exists, Note
<1>12. ASSUME NEW t \in Threads, Touch(t) PROVE TypeOK' /\ AtHand'
  BY <1>12 DEF Touch
<1>13. ASSUME NEW t \in Threads, SetTime(t) PROVE TypeOK' /\ AtHand'
  BY <1>13 DEF SetTime, Note
<1>14. ASSUME NEW t \in Threads, Work(t) PROVE TypeOK' /\ AtHand'
  BY <1>14 DEF Work
<1>15. ASSUME NEW t \in Threads, MakeDirs(t) PROVE TypeOK' /\ AtHand'
  BY <1>15 DEF MakeDirs
<1>16. ASSUME NEW t \in Threads, Created(t) PROVE TypeOK' /\ AtHand'
  BY <1>16 DEF Created, Note
<1>17. ASSUME NEW t \in Threads, Drop(t) PROVE TypeOK' /\ AtHand'
  BY <1>17 DEF Drop
<1>18. ASSUME NEW t \in Threads, Dropped(t) PROVE TypeOK' /\ AtHand'
  BY <1>18 DEF Dropped, Pop
<1>19. ASSUME NEW t \in Threads, Restart(t) PROVE TypeOK' /\ AtHand'
  BY <1>19 DEF Restart
<1>20. ASSUME NEW s \in Sessions, Expire(s) PROVE TypeOK' /\ AtHand'
  BY <1>20 DEF Expire
<1>21. CASE UNCHANGED vars
  BY <1>21 DEF vars
<1> QED
  BY <1>1, <1>2, <1>3, <1>4, <1>5, <1>6, <1>7, <1>8, <1>9, <1>10, <1>11, <1>12,
     <1>13, <1>14, <1>15, <1>16, <1>17, <1>18, <1>19, <1>20, <1>21
     DEF Next, Serve, CleanUp

(* A session is used, or expires.                                          *)
LEMMA AliveStep ==
  ASSUME IInv, [Next]_vars
  PROVE  AliveIsNotOld'
<1> USE NoneAssumption, BoundAssumption
    DEF IInv, TypeOK, AtHand, AliveIsNotOld, store, local, ghost, history, Goto, Answer
<1>1. ASSUME NEW t \in Threads, CreateSession(t) PROVE AliveIsNotOld'
  BY <1>1 DEF CreateSession, Request
<1>2. ASSUME NEW t \in Threads, UseSession(t) PROVE AliveIsNotOld'
  BY <1>2 DEF UseSession, Request
<1>3. ASSUME NEW t \in Threads, EndSession(t) PROVE AliveIsNotOld'
  BY <1>3 DEF EndSession, Request
<1>4. ASSUME NEW t \in Threads, Select(t) PROVE AliveIsNotOld'
  BY <1>4 DEF Select, Stale
<1>5. ASSUME NEW t \in Threads, RemoveExpired(t) PROVE AliveIsNotOld'
  BY <1>5 DEF RemoveExpired
<1>6. ASSUME NEW t \in Threads, Forget(t) PROVE AliveIsNotOld'
  BY <1>6 DEF Forget, Pop
<1>7. ASSUME NEW t \in Threads, List(t) PROVE AliveIsNotOld'
  BY <1>7 DEF List
<1>8. ASSUME NEW t \in Threads, LookAtEntry(t) PROVE AliveIsNotOld'
  BY <1>8 DEF LookAtEntry, Stray
<1>9. ASSUME NEW t \in Threads, RemoveStray(t) PROVE AliveIsNotOld'
  BY <1>9 DEF RemoveStray
<1>10. ASSUME NEW t \in Threads, CleanedUp(t) PROVE AliveIsNotOld'
  BY <1>10 DEF CleanedUp
<1>11. ASSUME NEW t \in Threads, Exists(t) PROVE AliveIsNotOld'
  BY <1>11 DEF Exists, Note
<1>12. ASSUME NEW t \in Threads, Touch(t) PROVE AliveIsNotOld'
  BY <1>12 DEF Touch
<1>13. ASSUME NEW t \in Threads, SetTime(t) PROVE AliveIsNotOld'
  BY <1>13 DEF SetTime, Note
<1>14. ASSUME NEW t \in Threads, Work(t) PROVE AliveIsNotOld'
  BY <1>14 DEF Work
<1>15. ASSUME NEW t \in Threads, MakeDirs(t) PROVE AliveIsNotOld'
  BY <1>15 DEF MakeDirs
<1>16. ASSUME NEW t \in Threads, Created(t) PROVE AliveIsNotOld'
  BY <1>16 DEF Created, Note
<1>17. ASSUME NEW t \in Threads, Drop(t) PROVE AliveIsNotOld'
  BY <1>17 DEF Drop
<1>18. ASSUME NEW t \in Threads, Dropped(t) PROVE AliveIsNotOld'
  BY <1>18 DEF Dropped, Pop
<1>19. ASSUME NEW t \in Threads, Restart(t) PROVE AliveIsNotOld'
  BY <1>19 DEF Restart
<1>20. ASSUME NEW s \in Sessions, Expire(s) PROVE AliveIsNotOld'
  BY <1>20 DEF Expire
<1>21. CASE UNCHANGED vars
  BY <1>21 DEF vars
<1> QED
  BY <1>1, <1>2, <1>3, <1>4, <1>5, <1>6, <1>7, <1>8, <1>9, <1>10, <1>11, <1>12,
     <1>13, <1>14, <1>15, <1>16, <1>17, <1>18, <1>19, <1>20, <1>21
     DEF Next, Serve, CleanUp

(* Clean-ups and requests, in any order.                                   *)
LEMMA SparedStep ==
  ASSUME IInv, [Next]_vars
  PROVE  Spared'
<1> USE NoneAssumption, BoundAssumption
    DEF IInv, TypeOK, AtHand, AliveIsNotOld, Spared, Cleaning, Ending, store, local, ghost, history, Goto, Answer
<1>1. ASSUME NEW t \in Threads, CreateSession(t) PROVE Spared'
  BY <1>1 DEF CreateSession, Request
<1>2. ASSUME NEW t \in Threads, UseSession(t) PROVE Spared'
  BY <1>2 DEF UseSession, Request
<1>3. ASSUME NEW t \in Threads, EndSession(t) PROVE Spared'
  BY <1>3 DEF EndSession, Request
<1>4. ASSUME NEW t \in Threads, Select(t) PROVE Spared'
  <2>1. /\ keep' = [keep EXCEPT ![t] = (alive \cap known) \ Doomed]
        /\ todo' = [todo EXCEPT ![t] = old] /\ pc' = [pc EXCEPT ![t] = "expired"]
        /\ UNCHANGED <<known, alive, ended, victim>> /\ Ending' = Ending
    BY <1>4 DEF Select, Stale
  <2>2. \A s \in (alive \cap known) \ Doomed : \A u \in Threads :
          /\ pc[u] \in {"expired", "forget"} => s \notin todo[u]
          /\ pc[u] \in {"forget", "rmtree"} => s # victim[u]
    <3>1. ASSUME NEW u \in Threads, pc[u] # "strays" PROVE todo[u] \cup {victim[u]} \subseteq Doomed
      <4>1. u \in {v \in Threads : pc[v] # "strays"}
        BY <3>1
      <4>2. todo[u] \cup {victim[u]} \in {todo[v] \cup {victim[v]} : v \in {w \in Threads : pc[w] # "strays"}}
        BY <4>1
      <4> QED
        BY <4>2, Zenon DEF Doomed
    <3> QED
      BY <3>1
  <2>3. \A v \in Threads : pc[v] \in Cleaning =>
          \A s \in (keep[v] \cap alive) \ Ending : s \in known /\ \A u \in Threads :
            /\ pc'[u] \in {"expired", "forget"} => s \notin todo'[u]
            /\ pc'[u] \in {"forget", "rmtree"} => s # victim'[u]
    BY <2>1
  <2>4. \A s \in keep'[t] : s \in alive /\ s \in known /\ \A u \in Threads :
          /\ pc'[u] \in {"expired", "forget"} => s \notin todo'[u]
          /\ pc'[u] \in {"forget", "rmtree"} => s # victim'[u]
    BY <2>1, <2>2
  <2> QED
    BY <2>1, <2>3, <2>4
<1>5. ASSUME NEW t \in Threads, RemoveExpired(t) PROVE Spared'
  BY <1>5 DEF RemoveExpired
<1>6. ASSUME NEW t \in Threads, Forget(t) PROVE Spared'
  BY <1>6 DEF Forget, Pop
<1>7. ASSUME NEW t \in Threads, List(t) PROVE Spared'
  BY <1>7 DEF List
<1>8. ASSUME NEW t \in Threads, LookAtEntry(t) PROVE Spared'
  BY <1>8 DEF LookAtEntry, Stray
<1>9. ASSUME NEW t \in Threads, RemoveStray(t) PROVE Spared'
  BY <1>9 DEF RemoveStray
<1>10. ASSUME NEW t \in Threads, CleanedUp(t) PROVE Spared'
  BY <1>10 DEF CleanedUp
<1>11. ASSUME NEW t \in Threads, Exists(t) PROVE Spared'
  BY <1>11 DEF Exists, Note
<1>12. ASSUME NEW t \in Threads, Touch(t) PROVE Spared'
  BY <1>12 DEF Touch
<1>13. ASSUME NEW t \in Threads, SetTime(t) PROVE Spared'
  BY <1>13 DEF SetTime, Note
<1>14. ASSUME NEW t \in Threads, Work(t) PROVE Spared'
  BY <1>14 DEF Work
<1>15. ASSUME NEW t \in Threads, MakeDirs(t) PROVE Spared'
  BY <1>15 DEF MakeDirs
<1>16. ASSUME NEW t \in Threads, Created(t) PROVE Spared'
  BY <1>16 DEF Created, Note
<1>17. ASSUME NEW t \in Threads, Drop(t) PROVE Spared'
  BY <1>17 DEF Drop
<1>18. ASSUME NEW t \in Threads, Dropped(t) PROVE Spared'
  BY <1>18 DEF Dropped, Pop
<1>19. ASSUME NEW t \in Threads, Restart(t) PROVE Spared'
  BY <1>19 DEF Restart
<1>20. ASSUME NEW s \in Sessions, Expire(s) PROVE Spared'
  BY <1>20 DEF Expire
<1>21. CASE UNCHANGED vars
  BY <1>21 DEF vars
<1> QED
  BY <1>1, <1>2, <1>3, <1>4, <1>5, <1>6, <1>7, <1>8, <1>9, <1>10, <1>11, <1>12,
     <1>13, <1>14, <1>15, <1>16, <1>17, <1>18, <1>19, <1>20, <1>21
     DEF Next, Serve, CleanUp

(* Requests one after the other.                                           *)
LEMMA InOrderStep ==
  ASSUME IInv, [Next]_vars
  PROVE  InOrder'
<1> USE NoneAssumption, BoundAssumption
    DEF IInv, TypeOK, Ops, PC, AtHand, AliveIsNotOld, InOrder, Alone, Told, store, local, ghost, history, Goto, Answer
<1>1. ASSUME NEW t \in Threads, CreateSession(t) PROVE InOrder'
  <2> SUFFICES ASSUME ~overlap' PROVE Alone' /\ Told'
    OBVIOUS
  <2>1. \A u \in Threads : op[u] = "none" /\ pc[u] = "idle"
    BY <1>1 DEF CreateSession, Request
  <2>2. known = dir /\ ~overlap
    BY <1>1, <2>1 DEF CreateSession, Request
  <2> QED
    BY <1>1, <2>1, <2>2 DEF CreateSession, Request
<1>2. ASSUME NEW t \in Threads, UseSession(t) PROVE InOrder'
  <2> SUFFICES ASSUME ~overlap' PROVE Alone' /\ Told'
    OBVIOUS
  <2>1. \A u \in Threads : op[u] = "none" /\ pc[u] = "idle"
    BY <1>2 DEF UseSession, Request
  <2>2. known = dir /\ ~overlap
    BY <1>2, <2>1 DEF UseSession, Request
  <2> QED
    BY <1>2, <2>1, <2>2 DEF UseSession, Request
<1>3. ASSUME NEW t \in Threads, EndSession(t) PROVE InOrder'
  <2> SUFFICES ASSUME ~overlap' PROVE Alone' /\ Told'
    OBVIOUS
  <2>1. \A u \in Threads : op[u] = "none" /\ pc[u] = "idle"
    BY <1>3 DEF EndSession, Request
  <2>2. known = dir /\ ~overlap
    BY <1>3, <2>1 DEF EndSession, Request
  <2> QED
    BY <1>3, <2>1, <2>2 DEF EndSession, Request
<1>4. ASSUME NEW t \in Threads, Select(t) PROVE InOrder'
  BY <1>4 DEF Select, Stale
<1>5. ASSUME NEW t \in Threads, RemoveExpired(t) PROVE InOrder'
  BY <1>5 DEF RemoveExpired
<1>6. ASSUME NEW t \in Threads, Forget(t) PROVE InOrder'
  BY <1>6 DEF Forget, Pop
<1>7. ASSUME NEW t \in Threads, List(t) PROVE InOrder'
  BY <1>7 DEF List
<1>8. ASSUME NEW t \in Threads, LookAtEntry(t) PROVE InOrder'
  BY <1>8 DEF LookAtEntry, Stray
<1>9. ASSUME NEW t \in Threads, RemoveStray(t) PROVE InOrder'
  BY <1>9 DEF RemoveStray
<1>10. ASSUME NEW t \in Threads, CleanedUp(t) PROVE InOrder'
  BY <1>10 DEF CleanedUp
<1>11. ASSUME NEW t \in Threads, Exists(t) PROVE InOrder'
  BY <1>11 DEF Exists, Note
<1>12. ASSUME NEW t \in Threads, Touch(t) PROVE InOrder'
  BY <1>12 DEF Touch
<1>13. ASSUME NEW t \in Threads, SetTime(t) PROVE InOrder'
  BY <1>13 DEF SetTime, Note
<1>14. ASSUME NEW t \in Threads, Work(t) PROVE InOrder'
  <2>1. ~overlap => sid[t] \in dir
    BY <1>14 DEF Work
  <2>2. dir' = dir \cup {sid[t]} \/ dir' = dir
    BY <1>14 DEF Work
  <2>3. ~overlap => dir' = dir
    <3> HIDE DEF IInv, TypeOK, Ops, PC, AtHand, AliveIsNotOld, InOrder, Alone, Told
    <3>1. ASSUME NEW S, NEW x \in S PROVE S \cup {x} = S
      OBVIOUS
    <3> QED
      BY <2>1, <2>2, <3>1
  <2> QED
    BY <1>14, <2>1, <2>3 DEF Work
<1>15. ASSUME NEW t \in Threads, MakeDirs(t) PROVE InOrder'
  BY <1>15 DEF MakeDirs
<1>16. ASSUME NEW t \in Threads, Created(t) PROVE InOrder'
  BY <1>16 DEF Created, Note
<1>17. ASSUME NEW t \in Threads, Drop(t) PROVE InOrder'
  BY <1>17 DEF Drop
<1>18. ASSUME NEW t \in Threads, Dropped(t) PROVE InOrder'
  BY <1>18 DEF Dropped, Pop
<1>19. ASSUME NEW t \in Threads, Restart(t) PROVE InOrder'
  BY <1>19 DEF Restart
<1>20. ASSUME NEW s \in Sessions, Expire(s) PROVE InOrder'
  BY <1>20 DEF Expire
<1>21. CASE UNCHANGED vars
  BY <1>21 DEF vars
<1> QED
  BY <1>1, <1>2, <1>3, <1>4, <1>5, <1>6, <1>7, <1>8, <1>9, <1>10, <1>11, <1>12,
     <1>13, <1>14, <1>15, <1>16, <1>17, <1>18, <1>19, <1>20, <1>21
     DEF Next, Serve, CleanUp

(* The invariant is inductive, and holds in every reachable state.           *)
THEOREM Invariance == Spec => []IInv
<1>1. IInv /\ [Next]_vars => IInv'
  BY TypeStep, AliveStep, SparedStep, InOrderStep DEF IInv
<1> QED
  BY InitInv, <1>1, PTL DEF Spec

(* Every variable has its type.                                             *)
THEOREM TypeCorrect == Spec => []TypeOK
<1>1. IInv => TypeOK
  BY DEF IInv
<1> QED
  BY Invariance, <1>1, PTL

(* As long as requests come one after the other, a session has its directory  *)
(* until it expires or is ended, one that was deleted has none, and between   *)
(* requests the bookkeeping and the directories agree.                       *)
THEOREM TheyAreAsTold == Spec => []SessionsAreAsTold
<1>1. IInv => SessionsAreAsTold
  BY DEF IInv, TypeOK, AtHand, AliveIsNotOld, InOrder, Alone, Told, Ending, SessionsAreAsTold
<1> QED
  BY Invariance, <1>1, PTL

(* Whatever any number of other threads do, a clean-up removes no directory   *)
(* of a session in use since it began.                                      *)
THEOREM CleanUpSpares == Spec => CleanUpSparesSessionsInUse
<1> DEFINE Sparing == \A t \in Threads :
             pc[t] \in {"expired", "rmtree"} /\ pc'[t] # pc[t] => InUse(t) \ dir' = {}
<1>1. IInv /\ [Next]_vars => Sparing
  <2> SUFFICES ASSUME IInv, [Next]_vars, NEW t \in Threads,
                      pc[t] \in {"expired", "rmtree"}, pc'[t] # pc[t],
                      NEW s \in InUse(t)
               PROVE  s \in dir'
    OBVIOUS
  <2> USE DEF IInv, TypeOK, Spared, Cleaning, InUse, ghost, local, store, history, Goto
  <2>1. /\ s \in dir
        /\ pc[t] = "expired" => s \notin todo[t]
        /\ pc[t] = "rmtree" => s # victim[t]
    OBVIOUS
  <2>2. ASSUME NEW u \in Threads, Serve(u), u # t PROVE FALSE
    BY <2>2 DEF Serve, CleanUp, CreateSession, UseSession, EndSession, Request, Select, RemoveExpired,
                Forget, List, LookAtEntry, RemoveStray, CleanedUp, Exists, Touch, SetTime, Work,
                MakeDirs, Created, Drop, Dropped, Answer
  <2>3. CASE Serve(t)
    BY <2>1, <2>3 DEF Serve, CleanUp, CreateSession, UseSession, EndSession, Request, Select, RemoveExpired,
                Forget, List, LookAtEntry, RemoveStray, CleanedUp, Exists, Touch, SetTime, Work,
                MakeDirs, Created, Drop, Dropped, AtHand
  <2>4. CASE \/ \E u \in Threads : Restart(u)
             \/ \E x \in Sessions : Expire(x)
             \/ UNCHANGED vars
    BY <2>1, <2>4 DEF Restart, Expire, vars
  <2> QED
    BY <2>2, <2>3, <2>4 DEF Next
<1> QED
  BY Invariance, <1>1, PTL DEF Spec, CleanUpSparesSessionsInUse

=============================================================================
