---------------------------- MODULE SessionStore ----------------------------
(***************************************************************************)
(* The browser sessions of the web process: class SessionStore of app.py,  *)
(* the endpoints that create, use and end a session, and the clean-up at   *)
(* start.  Endpoints run on a pool of threads and take no lock, so they     *)
(* interleave at every access to the file system or to `sessions`.         *)
(***************************************************************************)
EXTENDS Naturals, FiniteSets

CONSTANTS
  Sessions,    \* session identifiers
  Threads,     \* threads that serve requests
  None,        \* no session
  MaxRestarts  \* bound: restarts of the container, which keep its /tmp

ASSUME NoneAssumption == None \notin Sessions

ASSUME BoundAssumption == MaxRestarts \in Nat

VARIABLES
  dir,     \* sessions whose directory exists
  known,   \* the keys of SessionStore.sessions
  old,     \* those of them whose time of last use is before the cutoff
  used,    \* identifiers that were given out
  op,      \* what a thread serves: "none", "create", "use", "end", "startup"
  pc,      \* where it is
  sid,     \* the session of its request
  todo,    \* sessions its clean-up has still to look at
  victim,  \* the session it is removing
  alive,   \* sessions a client was told of that have not expired since
  ended,   \* sessions a client was told are deleted
  keep,    \* sessions in use when the clean-up of a thread began, and since
  overlap, \* two requests were served at once, or the process restarted
  restarts

store == <<dir, known, old, used>>
local == <<op, pc, sid, todo, victim>>
ghost == <<alive, ended, keep>>
history == <<overlap, restarts>>
vars == <<store, local, ghost, history>>

Init ==
  /\ dir = {} /\ known = {} /\ old = {} /\ used = {}
  /\ op = [t \in Threads |-> "none"]
  /\ pc = [t \in Threads |-> "idle"]
  /\ sid = [t \in Threads |-> None]
  /\ todo = [t \in Threads |-> {}]
  /\ victim = [t \in Threads |-> None]
  /\ alive = {} /\ ended = {}
  /\ keep = [t \in Threads |-> {}]
  /\ overlap = FALSE
  /\ restarts = 0

-----------------------------------------------------------------------------
(***************************************************************************)
(* Threads.                                                                *)
(***************************************************************************)

Goto(t, l) == pc' = [pc EXCEPT ![t] = l]

(* The request is answered, or refused with 404.                           *)
Answer(t) ==
  /\ Goto(t, "idle")
  /\ op' = [op EXCEPT ![t] = "none"]
  /\ sid' = [sid EXCEPT ![t] = None]

Serving == \A t \in Threads : op[t] # "startup"

(* A request comes in: create_session with the identifier the browser       *)
(* remembers or none, an endpoint that works in a session, end_session.    *)
Request(t, o, s, l) ==
  /\ Serving
  /\ op[t] = "none"
  /\ op' = [op EXCEPT ![t] = o]
  /\ sid' = [sid EXCEPT ![t] = s]
  /\ Goto(t, l)
  /\ overlap' = (overlap \/ \E u \in Threads : op[u] # "none")
  /\ UNCHANGED <<store, todo, victim, ghost, restarts>>

CreateSession(t) == \E s \in used \cup {None} : Request(t, "create", s, "stale")
UseSession(t) == \E s \in used : Request(t, "use", s, "exists")
EndSession(t) == \E s \in used : Request(t, "end", s, "drop")

-----------------------------------------------------------------------------
(***************************************************************************)
(* cleanup_stale.                                                          *)
(***************************************************************************)

Stale == old

(* Sessions that another clean-up or an end_session is about to remove.     *)
Doomed == UNION {todo[t] \cup {victim[t]} : t \in {u \in Threads : pc[u] # "strays"}}
            \cup {sid[t] : t \in {u \in Threads : op[u] = "end"}}

Select(t) ==
  /\ pc[t] = "stale"
  /\ todo' = [todo EXCEPT ![t] = Stale]
  /\ keep' = [keep EXCEPT ![t] = (alive \cap known) \ Doomed]
  /\ Goto(t, "expired")
  /\ UNCHANGED <<store, op, sid, victim, alive, ended, history>>

(* drop: first the directory goes, then the bookkeeping.                   *)
RemoveExpired(t) ==
  /\ pc[t] = "expired"
  /\ \E s \in todo[t] :
       /\ dir' = dir \ {s}
       /\ victim' = [victim EXCEPT ![t] = s]
       /\ todo' = [todo EXCEPT ![t] = @ \ {s}]
  /\ Goto(t, "forget")
  /\ UNCHANGED <<known, old, used, op, sid, ghost, history>>

Pop(s) == known' = known \ {s} /\ old' = old \ {s}

Forget(t) ==
  /\ pc[t] = "forget"
  /\ Pop(victim[t])
  /\ victim' = [victim EXCEPT ![t] = None]
  /\ Goto(t, "expired")
  /\ UNCHANGED <<dir, used, op, sid, todo, ghost, history>>

(* os.listdir.                                                             *)
List(t) ==
  /\ pc[t] = "expired" /\ todo[t] = {}
  /\ todo' = [todo EXCEPT ![t] = dir]
  /\ Goto(t, "strays")
  /\ UNCHANGED <<store, op, sid, victim, ghost, history>>

(* A directory without bookkeeping.                                        *)
Stray(s) == s \in dir /\ s \notin known

LookAtEntry(t) ==
  /\ pc[t] = "strays"
  /\ \E s \in todo[t] :
       /\ todo' = [todo EXCEPT ![t] = @ \ {s}]
       /\ IF Stray(s)
            THEN victim' = [victim EXCEPT ![t] = s] /\ Goto(t, "rmtree")
            ELSE UNCHANGED <<victim, pc>>
  /\ UNCHANGED <<store, op, sid, ghost, history>>

RemoveStray(t) ==
  /\ pc[t] = "rmtree"
  /\ dir' = dir \ {victim[t]}
  /\ victim' = [victim EXCEPT ![t] = None]
  /\ Goto(t, "strays")
  /\ UNCHANGED <<known, old, used, op, sid, todo, ghost, history>>

(* The clean-up is over: the process serves, or create_session goes on.     *)
CleanedUp(t) ==
  /\ pc[t] = "strays" /\ todo[t] = {}
  /\ IF op[t] = "startup"
       THEN Answer(t)
       ELSE /\ Goto(t, IF sid[t] = None THEN "makedirs" ELSE "exists")
            /\ UNCHANGED <<op, sid>>
  /\ UNCHANGED <<store, todo, victim, ghost, history>>

CleanUp(t) ==
  \/ Select(t) \/ RemoveExpired(t) \/ Forget(t)
  \/ List(t) \/ LookAtEntry(t) \/ RemoveStray(t) \/ CleanedUp(t)

-----------------------------------------------------------------------------
(***************************************************************************)
(* exists, touch, ensure, create, drop.                                    *)
(***************************************************************************)

(* sessions[s] = utc_now().                                                *)
Note(s) == known' = known \cup {s} /\ old' = old \ {s}

(* exists: a directory without bookkeeping is taken in again.  If there is  *)
(* no directory, create_session creates another session; others answer 404. *)
Exists(t) ==
  /\ pc[t] = "exists"
  /\ IF sid[t] \in dir
       THEN /\ IF sid[t] \in known THEN UNCHANGED <<known, old>> ELSE Note(sid[t])
            /\ Goto(t, "touch")
            /\ UNCHANGED <<op, sid>>
       ELSE /\ UNCHANGED <<known, old>>
            /\ IF op[t] = "create"
                 THEN Goto(t, "makedirs") /\ UNCHANGED <<op, sid>>
                 ELSE Answer(t)
  /\ UNCHANGED <<dir, used, todo, victim, ghost, history>>

(* touch looks again; what exists notes here, the next step notes anyway.   *)
Touch(t) ==
  /\ pc[t] = "touch"
  /\ IF sid[t] \in dir THEN Goto(t, "set") /\ UNCHANGED <<op, sid>>
                       ELSE Answer(t)
  /\ UNCHANGED <<store, todo, victim, ghost, history>>

(* Variant: the time of last use is set only for a session that is unknown. *)
SetTime_Once(t) ==
  /\ pc[t] = "set"
  /\ known' = known \cup {sid[t]}
  /\ alive' = alive \cup {sid[t]}
  /\ IF op[t] = "use" THEN Goto(t, "work") /\ UNCHANGED <<op, sid>>
                      ELSE Answer(t)
  /\ UNCHANGED <<dir, old, used, todo, victim, ended, keep, history>>

SetTime(t) ==
  /\ pc[t] = "set"
  /\ Note(sid[t])
  /\ alive' = alive \cup {sid[t]}
  /\ IF op[t] = "use" THEN Goto(t, "work") /\ UNCHANGED <<op, sid>>
                      ELSE Answer(t)
  /\ UNCHANGED <<dir, used, todo, victim, ended, keep, history>>

(* The endpoint writes into the session; many make the directory of their   *)
(* outputs with its parents.                                               *)
Work(t) ==
  /\ pc[t] = "work"
  /\ dir' = dir \cup {sid[t]} \/ UNCHANGED dir
  /\ Answer(t)
  /\ UNCHANGED <<known, old, used, todo, victim, ghost, history>>

(* Variant: create takes the identifier of the request.                     *)
MakeDirs_Incoming(t) ==
  /\ pc[t] = "makedirs"
  /\ dir' = dir \cup {sid[t]}
  /\ used' = used \cup {sid[t]}
  /\ Goto(t, "created")
  /\ UNCHANGED <<known, old, op, sid, todo, victim, ghost, history>>

MakeDirs(t) ==
  /\ pc[t] = "makedirs"
  /\ \E s \in Sessions \ used :
       /\ dir' = dir \cup {s}
       /\ used' = used \cup {s}
       /\ sid' = [sid EXCEPT ![t] = s]
  /\ Goto(t, "created")
  /\ UNCHANGED <<known, old, op, todo, victim, ghost, history>>

Created(t) ==
  /\ pc[t] = "created"
  /\ Note(sid[t])
  /\ alive' = alive \cup {sid[t]}
  /\ Answer(t)
  /\ UNCHANGED <<dir, used, todo, victim, ended, keep, history>>

(* Variant: drop forgets the session and leaves its directory.             *)
Drop_PopOnly(t) ==
  /\ pc[t] = "drop"
  /\ Goto(t, "pop")
  /\ UNCHANGED <<store, op, sid, todo, victim, ghost, history>>

Drop(t) ==
  /\ pc[t] = "drop"
  /\ dir' = dir \ {sid[t]}
  /\ Goto(t, "pop")
  /\ UNCHANGED <<known, old, used, op, sid, todo, victim, ghost, history>>

Dropped(t) ==
  /\ pc[t] = "pop"
  /\ Pop(sid[t])
  /\ alive' = alive \ {sid[t]}
  /\ ended' = ended \cup {sid[t]}
  /\ Answer(t)
  /\ UNCHANGED <<dir, used, todo, victim, keep, history>>

Serve(t) ==
  \/ CreateSession(t) \/ UseSession(t) \/ EndSession(t)
  \/ CleanUp(t)
  \/ Exists(t) \/ Touch(t) \/ SetTime(t) \/ Work(t)
  \/ MakeDirs(t) \/ Created(t)
  \/ Drop(t) \/ Dropped(t)

-----------------------------------------------------------------------------
(* FILE_RETENTION_MINUTES have passed since the last use of a session.     *)
Expire(s) ==
  /\ s \in known \ old
  /\ old' = old \cup {s}
  /\ alive' = alive \ {s}
  /\ keep' = [t \in Threads |-> keep[t] \ {s}]
  /\ UNCHANGED <<dir, known, used, local, ended, history>>

(* The container restarts: directories stay, the bookkeeping is new, and    *)
(* startup_cleanup runs before anything is served.                         *)
Restart(t) ==
  /\ restarts < MaxRestarts
  /\ restarts' = restarts + 1
  /\ overlap' = TRUE
  /\ known' = {} /\ old' = {}
  /\ op' = [u \in Threads |-> IF u = t THEN "startup" ELSE "none"]
  /\ pc' = [u \in Threads |-> IF u = t THEN "stale" ELSE "idle"]
  /\ sid' = [u \in Threads |-> None]
  /\ todo' = [u \in Threads |-> {}]
  /\ victim' = [u \in Threads |-> None]
  /\ UNCHANGED <<dir, used, ghost>>

Next ==
  \/ \E t \in Threads : Serve(t) \/ Restart(t)
  \/ \E s \in Sessions : Expire(s)

Spec == Init /\ [][Next]_vars

-----------------------------------------------------------------------------
(***************************************************************************)
(* Properties.                                                             *)
(***************************************************************************)

Ops == {"none", "create", "use", "end", "startup"}
PC == {"idle", "stale", "expired", "forget", "strays", "rmtree", "exists",
       "touch", "set", "work", "makedirs", "created", "drop", "pop"}

(* The types of the variables.                                             *)
TypeOK ==
  /\ dir \subseteq used /\ known \subseteq used /\ old \subseteq known
  /\ used \subseteq Sessions
  /\ op \in [Threads -> Ops]
  /\ pc \in [Threads -> PC]
  /\ sid \in [Threads -> used \cup {None}]
  /\ todo \in [Threads -> SUBSET used]
  /\ victim \in [Threads -> used \cup {None}]
  /\ alive \subseteq used /\ ended \subseteq used
  /\ keep \in [Threads -> SUBSET used]
  /\ overlap \in BOOLEAN
  /\ restarts \in 0..MaxRestarts

(* The sessions a client has ended, or is ending.                          *)
Ending == ended \cup {sid[t] : t \in {u \in Threads : op[u] = "end"}}

(* As long as requests come one after the other, sessions are what clients  *)
(* were told: a session has its directory until it expires or the client    *)
(* ends it, and one that was deleted has none again, which `exists` would   *)
(* take in; and between requests the bookkeeping and the directories agree, *)
(* so that no directory is forgotten and none is taken for stray.           *)
SessionsAreAsTold ==
  ~overlap =>
    /\ (alive \ Ending) \subseteq dir
    /\ ended \cap dir = {}
    /\ (\A t \in Threads : op[t] = "none") => known = dir

(* Said by shutdown_cleanup ("preserving local sessions for possible        *)
(* same-pod container restart"): restarts do not take sessions away.       *)
SessionsSurviveRestarts == (alive \ Ending) \subseteq dir

(* Sessions in use when the clean-up of a thread began, and ever since: one  *)
(* that expired meanwhile and came back can be removed by two clean-ups, the *)
(* first of which takes it for expired and the second for a stray.          *)
InUse(t) == (keep[t] \cap alive \cap dir) \ Ending

(* A clean-up removes no directory of a session that was known and          *)
(* unexpired, and that nobody was removing, when it began, whatever the     *)
(* other threads do meanwhile.                                             *)
CleanUpSparesSessionsInUse ==
  [][\A t \in Threads :
       pc[t] \in {"expired", "rmtree"} /\ pc'[t] # pc[t]
         => InUse(t) \ dir' = {}]_vars
=============================================================================
