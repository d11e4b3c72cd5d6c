----------------------------- MODULE LevelEdits -----------------------------
(***************************************************************************)
(* The level manager of app.py.  A page lists the levels of an IFC file,   *)
(* queues actions on them (update, delete, add, reassign) and sends them   *)
(* as one batch, which apply_level_actions works off one by one: each      *)
(* opens a file, changes the model and writes it to {base}_levels_work.ifc,*)
(* which the next one opens.  The last version is copied to                *)
(* {base}_levels_batch.ifc.  Handlers run in a thread each, and two pages  *)
(* may send batches for one file.                                          *)
(*                                                                         *)
(* An element is contained in a storey by a relationship; a space belongs  *)
(* to the storey it decomposes.  The height of a thing is the z of the     *)
(* point of its placement.  No action touches what the placement is        *)
(* relative to: that stays the storey the thing was made in, so heights    *)
(* say nothing of where a thing is in the world.  The point is changed in  *)
(* place, and the placement of another thing may have the same one.        *)
(***************************************************************************)
EXTENDS Integers, Sequences, FiniteSets

CONSTANTS
  Storeys,    \* the levels of the file
  Things,     \* the elements and spaces of the file
  Spaces,     \* those that are spaces
  NewLevels,  \* bound: ids for levels that are added
  Pages,      \* browser pages with the file
  MaxHeight,  \* bound: heights typed by the user are 0..MaxHeight
  MaxActions  \* bound: actions queued in all

VARIABLES
  original,   \* the file the pages have listed
  workFile,   \* {base}_levels_work.ifc; NoModel before
  batchFile,  \* {base}_levels_batch.ifc
  queue,      \* per page: its pendingActions
  batch,      \* per page: where its request is, the next action, the model
  alone,      \* per page: no other batch ran since it was sent
  settable,   \* the library lets inverse attributes be assigned
  twin        \* per thing: the one its point is shared with, or itself

levelVars == <<original, workFile, batchFile, queue, batch, alone, settable, twin>>

ASSUME SpacesAreThings == Spaces \subseteq Things
ASSUME LevelAssumption ==
  /\ Storeys # {} /\ NewLevels \cap Storeys = {} /\ "none" \notin Storeys \cup NewLevels
  /\ MaxHeight \in Int

Levels == Storeys \cup NewLevels
NoModel == [levels |-> {}]
Ready == [at |-> "queueing", next |-> 1, model |-> NoModel]

(* Heights of storeys differ, so that it matters where something is.        *)
Models(in, filled) ==
  [levels |-> Storeys, elevation |-> [s \in Levels |-> IF s = CHOOSE t \in Storeys : TRUE THEN 0 ELSE 1],
   holds |-> [x \in Things |-> IF x \in Spaces THEN {} ELSE {in[x]}],
   parent |-> [x \in Spaces |-> in[x]],
   filled |-> {in[x] : x \in Things \ Spaces} \cup filled,
   height |-> [x \in Things |-> 0]]

(* Bound: two placements share a point at the most.                         *)
Twins == {t \in [Things -> Things] : \A x \in Things : t[t[x]] = x}

LevelStart(f, s, t) ==
  /\ original = f /\ settable = s /\ twin = t
  /\ workFile = NoModel /\ batchFile = NoModel
  /\ queue = [p \in Pages |-> <<>>]
  /\ batch = [p \in Pages |-> Ready]
  /\ alone = [p \in Pages |-> FALSE]

LevelInit ==
  \E in \in [Things -> Storeys], filled \in SUBSET Storeys, s \in BOOLEAN, t \in Twins :
    LevelStart(Models(in, filled), s, t)

LevelTypeOK ==
  /\ original.levels = Storeys /\ twin \in Twins
  /\ \A f \in {original, workFile, batchFile} \ {NoModel} :
       /\ f.levels \subseteq Levels
       /\ f.holds \in [Things -> SUBSET f.levels]
       /\ f.parent \in [Spaces -> f.levels \cup {"none"}]
       /\ f.height \in [Things -> Int]
  /\ \A p \in Pages : /\ batch[p].at \in {"queueing", "read", "write", "copy", "ok", "error"}
                      /\ batch[p].next \in 1..(Len(queue[p]) + 1)
  /\ alone \in [Pages -> BOOLEAN]

-----------------------------------------------------------------------------
(* list_storey_objects: contained elements, and spaces that decompose it.   *)
Listed(f, s) == {x \in Things : s \in f.holds[x] \/ (x \in Spaces /\ f.parent[x] = s)}

(* An empty list of objects stands for all of them.                         *)
Chosen(f, s, objects) == IF objects = {} THEN Listed(f, s) ELSE Listed(f, s) \cap objects

(* adjust_local_placement_z, for what each thing is to go by: it changes    *)
(* the point of the placement, and so moves what shares it.                 *)
Adjusted(f, by) ==
  [x \in Things |-> IF twin[x] = x THEN f.height[x] + by[x] ELSE f.height[x] + by[x] + by[twin[x]]]

(* Variant: the heights of the storeys are subtracted the other way round.  *)
Shifted_Reversed(f, objects, from, to) ==
  Adjusted(f, [x \in Things |-> IF x \in objects THEN f.elevation[to] - f.elevation[from] ELSE 0])

Shifted(f, objects, from, to) ==
  Adjusted(f, [x \in Things |-> IF x \in objects THEN f.elevation[from] - f.elevation[to] ELSE 0])

(* move_objects_to_storey: objects leave the containment in the source      *)
(* storey only; a target that contains nothing needs a relationship first,  *)
(* which is assigned to an inverse attribute.                               *)
Moved(f, objects, from, to) ==
  IF to \notin f.filled /\ ~settable THEN {}
  ELSE {[f EXCEPT !.holds = [x \in Things |-> IF x \in objects THEN (@[x] \ {from}) \cup {to} ELSE @[x]],
                  !.height = Shifted(f, objects, from, to),
                  !.filled = @ \cup {to}]}

(* cleanup_empty_containment, which assigns one too and ignores failures.   *)
Cleaned(f, s) ==
  [f EXCEPT !.filled = IF settable /\ \A x \in Things : s \notin f.holds[x] THEN @ \ {s} ELSE @]

Reassigned(f, a) ==
  IF {a.of, a.to} \subseteq f.levels
  THEN {Cleaned(g, a.of) : g \in Moved(f, Chosen(f, a.of, a.objects), a.of, a.to)}
  ELSE {}

(* delete_level: what is not moved stays related to a storey that is gone.  *)
Deleted(f, a) ==
  {[g EXCEPT !.levels = @ \ {a.of},
             !.holds = [x \in Things |-> @[x] \ {a.of}],
             !.parent = [x \in Spaces |-> IF @[x] = a.of THEN "none" ELSE @[x]],
             !.filled = @ \ {a.of}] : g \in Reassigned(f, a)}

(* add_level: the height of the storey an object was found in first counts. *)
(* The id of the new level is one that no level has.                        *)
Added(f, a) ==
  LET new == CHOOSE s \in NewLevels : s \notin f.levels
      g == [f EXCEPT !.levels = @ \cup {new}, !.elevation[new] = a.elevation]
      origins == {o \in [a.objects -> f.levels \cup {"none"}] :
                    \A x \in a.objects : IF f.holds[x] = {} THEN o[x] = "none" ELSE o[x] \in f.holds[x]}
  IN  IF NewLevels \subseteq f.levels THEN {}
      ELSE IF a.objects = {} THEN {g}
      ELSE IF ~settable THEN {}
      ELSE {[g EXCEPT !.holds = [x \in Things |-> IF x \in a.objects THEN {new} ELSE @[x]],
                      !.height = Adjusted(f, [x \in Things |->
                         IF x \in a.objects /\ o[x] # "none" THEN f.elevation[o[x]] - a.elevation ELSE 0]),
                      !.filled = @ \cup {new}] : o \in origins}

Updated(f, a) ==
  IF a.of \in f.levels THEN {[f EXCEPT !.elevation[a.of] = a.elevation]} ELSE {}

(* One action of apply_level_actions; no outcome is an error.               *)
Outcomes(f, a) ==
  CASE a.kind = "update"   -> Updated(f, a)
    [] a.kind = "delete"   -> Deleted(f, a)
    [] a.kind = "add"      -> Added(f, a)
    [] a.kind = "reassign" -> Reassigned(f, a)

-----------------------------------------------------------------------------
(* What the page offers is what it listed when it loaded the file.          *)
Offered ==
  [kind : {"update"}, of : Storeys, elevation : {MaxHeight}]
    \cup {a \in [kind : {"delete", "reassign"}, of : Storeys, to : Storeys, objects : SUBSET Things] :
            /\ a.of # a.to /\ a.objects \subseteq Listed(original, a.of)
            /\ a.kind = "reassign" => a.objects # {}}
    \cup [kind : {"add"}, elevation : {MaxHeight}, objects : SUBSET Things]

Queued == UNION {{p} \X DOMAIN queue[p] : p \in Pages}

QueueAction(p) ==
  /\ batch[p].at \in {"queueing", "error"} /\ Cardinality(Queued) < MaxActions
  /\ \E a \in Offered : queue' = [queue EXCEPT ![p] = Append(@, a)]
  /\ batch' = [batch EXCEPT ![p] = Ready]
  /\ UNCHANGED <<original, workFile, batchFile, alone, settable, twin>>

Running == {p \in Pages : batch[p].at \in {"read", "write", "copy"}}

ApplyChanges(p) ==
  /\ batch[p].at \in {"queueing", "error"} /\ queue[p] # <<>>
  /\ batch' = [batch EXCEPT ![p] = [Ready EXCEPT !.at = "read"]]
  /\ alone' = [q \in Pages |-> q = p /\ Running = {}]
  /\ UNCHANGED <<original, workFile, batchFile, queue, settable, twin>>

(* The first action opens the original, the others the work file.           *)
ReadModel(p) ==
  /\ batch[p].at = "read"
  /\ LET f == IF batch[p].next = 1 THEN original ELSE workFile
         results == Outcomes(f, queue[p][batch[p].next])
     IN  IF results = {} THEN batch' = [batch EXCEPT ![p].at = "error"]
         ELSE \E g \in results : batch' = [batch EXCEPT ![p] = [@ EXCEPT !.at = "write", !.model = g]]
  /\ UNCHANGED <<original, workFile, batchFile, queue, alone, settable, twin>>

WriteModel(p) ==
  /\ batch[p].at = "write"
  /\ workFile' = batch[p].model
  /\ batch' = [batch EXCEPT ![p] =
       [at |-> IF @.next = Len(queue[p]) THEN "copy" ELSE "read", next |-> @.next + 1, model |-> NoModel]]
  /\ UNCHANGED <<original, batchFile, queue, alone, settable, twin>>

CopyResult(p) ==
  /\ batch[p].at = "copy"
  /\ batchFile' = workFile
  /\ batch' = [batch EXCEPT ![p].at = "ok"]
  /\ UNCHANGED <<original, workFile, queue, alone, settable, twin>>

(* Any step may raise: the answer is an error, and the page keeps its queue. *)
BatchFails(p) ==
  /\ p \in Running
  /\ batch' = [batch EXCEPT ![p] = [@ EXCEPT !.at = "error", !.model = NoModel]]
  /\ UNCHANGED <<original, workFile, batchFile, queue, alone, settable, twin>>

LevelNext ==
  \E p \in Pages : \/ QueueAction(p) \/ ApplyChanges(p) \/ ReadModel(p)
                  \/ WriteModel(p) \/ CopyResult(p) \/ BatchFails(p)

LevelSpec == LevelInit /\ [][LevelNext]_levelVars

-----------------------------------------------------------------------------
(* An action of a batch that leaves an object of a deleted level behind.    *)
LeavesBehind(p, x) ==
  \E i \in DOMAIN queue[p] : LET a == queue[p][i] IN a.kind = "delete" /\ a.objects # {} /\ x \notin a.objects

(* A batch that is answered with success and ran undisturbed has moved the  *)
(* elements as a whole: every one is in exactly one level and that exists,  *)
(* however levels were deleted, added and emptied in between, unless a      *)
(* delete named others only; and one that none of the actions concerned is  *)
(* in the level it was in.  If its point is its own, it has the same z; and *)
(* the z of one that was moved, over however many levels, has gone by the   *)
(* difference of the level it left and the one it has, as long as no        *)
(* elevation was edited.                                                    *)
ElementsKeepTheirLevel ==
  \A p \in Pages, x \in Things \ Spaces :
    batch[p].at = "ok" /\ alone[p] =>
      LET now == batchFile.holds[x]
          then == original.holds[x]
          actions == {queue[p][i] : i \in DOMAIN queue[p]}
          total(f, s) == f.height[x] + f.elevation[s]
      IN  /\ ~LeavesBehind(p, x) =>
               /\ Cardinality(now) = 1 /\ now \subseteq batchFile.levels
               /\ (twin[x] = x /\ \A a \in actions : a.kind # "update") =>
                    \A s \in now, t \in then : total(batchFile, s) = total(original, t)
          /\ (\A a \in actions : a.kind = "add" => x \notin a.objects)
               /\ (\A a \in actions, s \in then : a.kind \in {"delete", "reassign"} => a.of # s)
               => now = then /\ (twin[x] = x => batchFile.height[x] = original.height[x])
===========================================================================
