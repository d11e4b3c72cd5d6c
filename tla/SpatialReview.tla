--------------------------- MODULE SpatialReview ---------------------------
(***************************************************************************)
(* The review of spaces and zones (Regulation38Repository) beside a        *)
(* re-scan that refreshes them (insert_result of the worker).              *)
(*                                                                         *)
(* A space row carries what the IFC says and the working fields a reviewer *)
(* may change; the model keeps, per space, whose working fields it has.    *)
(* An editor's update of a zone and the worker's refresh are several       *)
(* requests each, any of which may fail.                                   *)
(***************************************************************************)
EXTENDS Naturals, FiniteSets

CONSTANTS
  Spaces,
  Editors,     \* bound: people who edit at a time
  MaxEdits,    \* bound: edits of spaces and zones
  MaxScans,    \* bound: re-scans
  MaxRefusals  \* bound: requests that fail

ASSUME SpatialBoundsAssumption ==
  MaxEdits \in Nat /\ MaxScans \in Nat /\ MaxRefusals \in Nat

VARIABLES
  working,    \* per space: the number of the edit its fields come from, 0: the IFC
  edited,     \* spaces with working_fields_edited
  zones,      \* the rows of project_zones for the one zone of the model
  members,    \* its rows in project_zone_members
  selection,  \* per editor: the space_ids of the form
  editor,     \* per editor: the next request of create_zone or update_zone
  old,        \* per editor: the members it read
  refresh,    \* "idle", "read", "write": the worker in insert_result
  kept,       \* the curated values the worker read
  waiting,    \* spaces whose row the worker has not written yet
  edits, scans, refusals,
  asked       \* history: per space, its last edit a refresh has to keep

spaceVars == <<working, edited, asked>>
zoneVars == <<zones, members, selection, editor, old>>
refreshVars == <<refresh, kept, waiting, scans>>
spatialVars == <<spaceVars, zoneVars, refreshVars, edits, refusals>>

SpatialInit ==
  /\ working = [s \in Spaces |-> 0]
  /\ edited = {}
  /\ zones = FALSE /\ members = {}
  /\ selection = [e \in Editors |-> {}]
  /\ editor = [e \in Editors |-> "idle"]
  /\ old = [e \in Editors |-> {}]
  /\ refresh = "idle" /\ kept = [s \in Spaces |-> 0] /\ waiting = {}
  /\ edits = 0 /\ scans = 0 /\ refusals = 0
  /\ asked = [s \in Spaces |-> 0]

SpatialTypeOK ==
  /\ working \in [Spaces -> 0..MaxEdits]
  /\ edited \subseteq Spaces
  /\ zones \in BOOLEAN /\ (members # {} => zones)
  /\ members \subseteq Spaces
  /\ selection \in [Editors -> SUBSET Spaces]
  /\ old \in [Editors -> SUBSET Spaces]
  /\ editor \in [Editors -> {"idle", "insert", "name", "list", "remove", "add"}]
  /\ refresh \in {"idle", "read", "write"}
  /\ kept \in [Spaces -> 0..MaxEdits]
  /\ waiting \subseteq Spaces /\ (refresh # "write" => waiting = {})
  /\ edits \in 0..MaxEdits /\ scans \in 0..MaxScans /\ refusals \in 0..MaxRefusals
  (* only fields marked as edited differ from the IFC *)
  /\ \A s \in Spaces : working[s] # 0 => s \in edited

-----------------------------------------------------------------------------
(***************************************************************************)
(* Spaces.                                                                 *)
(***************************************************************************)

MayEdit == edits < MaxEdits /\ edits' = edits + 1

(* Variant: working_fields_edited is forgotten.                             *)
Marks_Not(s) == edited' = edited

Marks(s) == edited' = edited \cup {s}

(* update_space: one PATCH, which also sets working_fields_edited.  A form  *)
(* with an open polygon or a negative capacity is refused before.  The      *)
(* reviewer may expect to find the edit again, if the worker is not in the  *)
(* middle of a refresh that read the row before.                            *)
UpdateSpace(s) ==
  /\ MayEdit
  /\ working' = [working EXCEPT ![s] = edits']
  /\ Marks(s)
  /\ asked' = [asked EXCEPT ![s] = IF refresh = "write" THEN 0 ELSE edits']
  /\ UNCHANGED <<zoneVars, refreshVars, refusals>>

(* A re-scan of the same file arrives at project_spaces.                    *)
BeginRefresh ==
  /\ refresh = "idle" /\ scans < MaxScans
  /\ refresh' = "read" /\ scans' = scans + 1
  /\ UNCHANGED <<spaceVars, zoneVars, kept, waiting, edits, refusals>>

(* Variant: the extracted fields win.                                       *)
Curated_None == [s \in Spaces |-> 0]

(* Fields of rows with working_fields_edited are taken over; the others are *)
(* the IFC's.                                                               *)
Curated == [s \in Spaces |-> IF s \in edited THEN working[s] ELSE 0]

ReadWorking ==
  /\ refresh = "read"
  /\ refresh' = "write" /\ kept' = Curated /\ waiting' = Spaces
  /\ UNCHANGED <<spaceVars, zoneVars, scans, edits, refusals>>

(* A batch is merged into project_spaces: the curated columns are written,  *)
(* working_fields_edited is not.                                            *)
WriteBatch ==
  /\ refresh = "write"
  /\ \E batch \in SUBSET waiting \ {{}} :
       /\ working' = [s \in Spaces |-> IF s \in batch THEN kept[s] ELSE working[s]]
       /\ waiting' = waiting \ batch
       /\ refresh' = IF waiting' = {} THEN "idle" ELSE "write"
  /\ UNCHANGED <<edited, asked, zoneVars, kept, scans, edits, refusals>>

(* A request of the worker fails: the job fails, and may be retried.        *)
RefreshFails ==
  /\ refresh # "idle" /\ refusals < MaxRefusals
  /\ refusals' = refusals + 1
  /\ refresh' = "idle" /\ waiting' = {}
  /\ UNCHANGED <<spaceVars, zoneVars, kept, scans, edits>>

-----------------------------------------------------------------------------
(***************************************************************************)
(* Zones.                                                                  *)
(***************************************************************************)

ZoneStep(e, pc) ==
  /\ editor' = [editor EXCEPT ![e] = pc]
  /\ UNCHANGED <<spaceVars, refreshVars>>

(* create_zone and update_zone refuse a selection the project does not      *)
(* have; create_zone refuses an empty one.                                  *)
SubmitZone(e) ==
  /\ editor[e] = "idle" /\ MayEdit
  /\ \E chosen \in SUBSET Spaces :
       /\ selection' = [selection EXCEPT ![e] = chosen]
       /\ zones \/ chosen # {}
  /\ ZoneStep(e, IF zones THEN "name" ELSE "insert")
  /\ UNCHANGED <<zones, members, old, refusals>>

(* POST project_zones, then POST project_zone_members.  A second creator    *)
(* makes another zone, which is not followed.                               *)
InsertZone(e) ==
  /\ editor[e] = "insert" /\ ~zones
  /\ zones' = TRUE
  /\ old' = [old EXCEPT ![e] = {}]
  /\ ZoneStep(e, "add")
  /\ UNCHANGED <<members, selection, edits, refusals>>

(* PATCH project_zones, then GET project_zone_members.                      *)
NameZone(e) ==
  /\ editor[e] = "name"
  /\ ZoneStep(e, "list")
  /\ UNCHANGED <<zones, members, selection, old, edits, refusals>>

ListMembers(e) ==
  /\ editor[e] = "list"
  /\ old' = [old EXCEPT ![e] = members]
  /\ ZoneStep(e, "remove")
  /\ UNCHANGED <<zones, members, selection, edits, refusals>>

(* for sid in old - new: one DELETE each.                                   *)
Removals(e) == old[e] \ selection[e]

RemoveMember(e) ==
  /\ editor[e] = "remove"
  /\ \E s \in Removals(e) :
       /\ members' = members \ {s}
       /\ old' = [old EXCEPT ![e] = @ \ {s}]
  /\ ZoneStep(e, "remove")
  /\ UNCHANGED <<zones, selection, edits, refusals>>

(* One POST of new - old; a pair that is there already is refused, and so   *)
(* is the whole request.                                                    *)
AddMembers(e) ==
  LET additions == selection[e] \ old[e]
  IN  /\ \/ editor[e] = "add"
         \/ editor[e] = "remove" /\ Removals(e) = {}
      /\ members' = IF additions \cap members = {} THEN members \cup additions
                    ELSE members
      /\ ZoneStep(e, "idle")
      /\ UNCHANGED <<zones, selection, old, edits, refusals>>

(* A request fails and the rest of the update is not made.                  *)
ZoneRequestFails(e) ==
  /\ editor[e] # "idle" /\ refusals < MaxRefusals
  /\ refusals' = refusals + 1
  /\ ZoneStep(e, "idle")
  /\ UNCHANGED <<zones, members, selection, old, edits>>

SpatialNext ==
  \/ \E s \in Spaces : UpdateSpace(s)
  \/ BeginRefresh \/ ReadWorking \/ WriteBatch \/ RefreshFails
  \/ \E e \in Editors :
       \/ SubmitZone(e) \/ InsertZone(e) \/ NameZone(e) \/ ListMembers(e)
       \/ RemoveMember(e) \/ AddMembers(e) \/ ZoneRequestFails(e)

SpatialSpec == SpatialInit /\ [][SpatialNext]_spatialVars

-----------------------------------------------------------------------------
(***************************************************************************)
(* Properties.                                                             *)
(***************************************************************************)

(* A reviewer's work is kept.  An edit of a space outlives every re-scan    *)
(* that began to read after it, also one that stops half way; and an update *)
(* of a zone removes nobody's choice: a space that whoever is updating the  *)
(* zone has selected stays a member.                                        *)
ReviewIsKept ==
  /\ [][\A s \in Spaces : asked'[s] # 0 => working'[s] = asked'[s]]_spatialVars
  /\ [][\A s \in Spaces :
          s \in members /\ (\A e \in Editors : editor[e] # "idle" => s \in selection[e])
            => s \in members']_spatialVars

=============================================================================
