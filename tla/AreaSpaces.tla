----------------------------- MODULE AreaSpaces -----------------------------
(***************************************************************************)
(* Purging area spaces: app.py, ifc_area_spaces.py and its worker process. *)
(* A page scans an IFC file of the session for spaces whose layers or      *)
(* properties speak of areas, the user unticks some of those found, and a  *)
(* child process writes a copy without the others and a report, which      *)
(* fails at its first row.  The handlers block the event loop while they   *)
(* scan or wait for the child, so requests follow one another; the child   *)
(* may be killed for its time or its memory at any point.                  *)
(*                                                                         *)
(* A purged file is a file of the session like any other: purging version  *)
(* v writes version v + 1, with ".area-spaces-purged" once more in its     *)
(* name.                                                                   *)
(***************************************************************************)
EXTENDS Naturals, FiniteSets

CONSTANTS
  SpaceNumbers,  \* the spaces, by the numbers of their STEP entities
  Relations,     \* relationships that list spaces
  MaxVersion,    \* bound: purges of purged files
  MaxReplaced    \* bound: uploads that replace a file of the session

VARIABLES
  content,  \* per version: what the file holds; Missing
  listed,   \* the relations whose types cleanup_space_relationships knows
  page,     \* the version scanned, the candidates shown, those ticked
  child,    \* the worker: where it is, its arguments, the model it opened
  replied,  \* the answer the page has got last
  replaced  \* uploads so far

areaVars == <<content, listed, page, child, replied, replaced>>

ASSUME SpacesAreNumbers == SpaceNumbers \subseteq Nat

ASSUME AreaBoundsAssumption == MaxVersion \in Nat /\ MaxReplaced \in Nat

Purges == 0..MaxVersion
Missing == [whole |-> FALSE, exists |-> FALSE]
Truncated == [whole |-> FALSE, exists |-> TRUE]
NoPage == [of |-> 0, rows |-> {}, ticked |-> {}]
NoChild == [at |-> "none"]

(* area: the spaces with a signal; onLine: those whose entity is on one     *)
(* line; large: above the size up to which files are opened for the scan,   *)
(* and whether one of its lines speaks of an area layer; within: the space  *)
(* an element is contained in or part of.                                   *)
Contents(spaces) ==
  {f \in [whole : {TRUE}, exists : {TRUE}, spaces : {spaces}, area : SUBSET spaces,
          onLine : SUBSET spaces, large : {"no", "silent", "speaks"},
          related : [Relations -> SUBSET spaces], within : spaces \cup {0}] :
     f.large # "speaks" => f.onLine = spaces}

AreaStart(f, l) ==
  /\ content = [v \in Purges |-> IF v = 0 THEN f ELSE Missing]
  /\ listed = l
  /\ page = NoPage /\ child = NoChild
  /\ replied = "nothing" /\ replaced = 0

AreaInit == \E f \in Contents(SpaceNumbers), l \in SUBSET Relations : AreaStart(f, l)

AreaTypeOK ==
  /\ \A v \in Purges : content[v].whole =>
       /\ content[v].exists
       /\ content[v].area \subseteq content[v].spaces /\ content[v].within \in content[v].spaces \cup {0}
       /\ \A r \in DOMAIN content[v].related : content[v].related[r] \subseteq content[v].spaces
  /\ page.ticked \subseteq page.rows
  /\ child.at \in {"none", "read", "write", "report"}
  /\ replied \in {"nothing", "ok", "error"} /\ replaced \in 0..MaxReplaced

-----------------------------------------------------------------------------
(* is_area_space_candidate, of every space of the model.                    *)
Candidates(f) == {[space |-> s, by |-> "guid", key |-> s] : s \in f.area}

(* scan_ifc_area_spaces_chunked: one line with an area layer makes every    *)
(* space a candidate; one that spans lines has no GlobalId, and its place   *)
(* among the spaces for a STEP id.                                          *)
Chunked(f) ==
  IF f.large = "silent" THEN {}
  ELSE {IF s \in f.onLine THEN [space |-> s, by |-> "guid", key |-> s]
        ELSE [space |-> s, by |-> "step", key |-> Cardinality({t \in f.spaces : t <= s})] : s \in f.spaces}

(* Variant: the worker trusts the rows of the page.                         *)
Doomed_Any(f, keys) == {s \in f.spaces : <<"guid", s>> \in keys \/ <<"step", s>> \in keys}

(* What the worker removes: candidates of its own that are named.           *)
Doomed(f, keys) == {s \in f.area : <<"guid", s>> \in keys \/ <<"step", s>> \in keys}

(* cleanup_space_relationships: an emptied relation of a known type goes.   *)
Pruned(f, gone) ==
  [r \in {r \in DOMAIN f.related : r \notin listed \/ f.related[r] = {} \/ ~(f.related[r] \subseteq gone)}
     |-> f.related[r] \ gone]

(* The library clears what still refers to a removed space.                 *)
Purged(f, gone) ==
  [f EXCEPT !.spaces = @ \ gone, !.area = @ \ gone, !.onLine = @ \ gone,
            !.related = Pruned(f, gone), !.within = IF @ \in gone THEN 0 ELSE @]

-----------------------------------------------------------------------------
(* runScan: the rows and ticks of an earlier scan stay if it fails.         *)
Scan(v) ==
  /\ child = NoChild /\ content[v].exists
  /\ IF content[v].whole
     THEN LET found == IF content[v].large = "no" THEN Candidates(content[v]) ELSE Chunked(content[v])
          IN  page' = [of |-> v, rows |-> found, ticked |-> found]
     ELSE UNCHANGED page
  /\ replied' = "nothing"
  /\ UNCHANGED <<content, listed, child, replaced>>

Untick(row) ==
  /\ child = NoChild /\ row \in page.ticked
  /\ page' = [page EXCEPT !.ticked = @ \ {row}]
  /\ replied' = "nothing"
  /\ UNCHANGED <<content, listed, child, replaced>>

(* area_spaces_purge of the file selected now: refused when no row is of    *)
(* it, or for its size or the memory left.                                  *)
Purge(v) ==
  /\ child = NoChild /\ page.ticked # {} /\ content[v].exists
  /\ \/ /\ v = page.of /\ v < MaxVersion
        /\ child' = [at |-> "read", of |-> v, keys |-> {<<r.by, r.key>> : r \in page.ticked}]
        /\ replied' = "nothing"
     \/ replied' = "error" /\ UNCHANGED child
  /\ UNCHANGED <<content, listed, page, replaced>>

(* run_worker up to the opening of the output file.                         *)
OpenAndRemove ==
  /\ child.at = "read" /\ content[child.of].whole
  /\ LET source == content[child.of]
         gone == Doomed(source, child.keys)
     IN  /\ child' = [at |-> "write", of |-> child.of, gone |-> gone,
                      source |-> source, model |-> Purged(source, gone)]
         /\ content' = [content EXCEPT ![child.of + 1] = Truncated]
  /\ UNCHANGED <<listed, page, replied, replaced>>

WriteOutput ==
  /\ child.at = "write"
  /\ content' = [content EXCEPT ![child.of + 1] = child.model]
  /\ child' = [child EXCEPT !.at = "report"]
  /\ UNCHANGED <<listed, page, replied, replaced>>

(* Every area space has a row, and a row has a field the header lacks: the   *)
(* writer raises, and the child fails.                                      *)
WriteReport ==
  /\ child.at = "report"
  /\ replied' = IF child.source.area = {} THEN "ok" ELSE "error"
  /\ child' = NoChild
  /\ UNCHANGED <<content, listed, page, replaced>>

(* The source cannot be opened, or the child runs out of time or memory.    *)
ChildDies ==
  /\ child # NoChild
  /\ child' = NoChild /\ replied' = "error"
  /\ UNCHANGED <<content, listed, page, replaced>>

(* Another file is uploaded under the name: some spaces, other layers.      *)
Replace(v) ==
  /\ child = NoChild /\ content[v].exists /\ replaced < MaxReplaced
  /\ \E spaces \in SUBSET SpaceNumbers : \E f \in Contents(spaces) :
       /\ f.large = "no" /\ f.within = 0 /\ f.related = [r \in Relations |-> spaces]
       /\ content' = [content EXCEPT ![v] = f]
  /\ replaced' = replaced + 1 /\ replied' = "nothing"
  /\ UNCHANGED <<listed, page, child>>

AreaNext ==
  \/ \E v \in Purges : Scan(v) \/ Purge(v) \/ Replace(v)
  \/ \E row \in page.rows : Untick(row)
  \/ OpenAndRemove \/ WriteOutput \/ WriteReport \/ ChildDies

AreaSpec == AreaInit /\ [][AreaNext]_areaVars

-----------------------------------------------------------------------------
(* What the worker writes is the file as it is, without those of its area   *)
(* spaces that were ticked and with every other space and relation, less    *)
(* the relations that only held what was removed.  Rows that a chunked scan  *)
(* could name by their place only are excepted: see the hazards.  When the  *)
(* page is told that a purge is complete, there was nothing to purge, and   *)
(* the output is the file.                                                  *)
PurgeIsExact ==
  LET source == content[page.of]
      output == content[page.of + 1]
      gone == {r.space : r \in page.ticked} \cap source.area
  IN  /\ child.at = "report" /\ (\A r \in page.ticked : r.by = "guid") =>
           /\ output.whole /\ output.spaces = source.spaces \ gone
           /\ \A r \in DOMAIN source.related :
                IF r \in listed /\ source.related[r] # {} /\ source.related[r] \subseteq gone
                THEN r \notin DOMAIN output.related
                ELSE output.related[r] = source.related[r] \ gone
      /\ replied = "ok" => source.area = {} /\ output = source
===========================================================================
