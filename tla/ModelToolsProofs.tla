-------------------------- MODULE ModelToolsProofs --------------------------
(***************************************************************************)
(* Theorems about the tools that work on the files of a session, one part    *)
(* for each, for any files and any bounds: the check of a COBie workbook     *)
(* (CobieReport), the bootstrap of the COBieQC assets (CobieAssets), the     *)
(* purge of area spaces (AreaSpaces), the types of things (TypeEdits), the   *)
(* levels of a file (LevelEdits), its layers (LayerEdits) and the write-back *)
(* of a workbook (WriteBack).  Each tool has an inductive invariant of its   *)
(* own; names that several would use begin with that of the tool.  Last, the *)
(* tools side by side (MCModelTools).                                        *)
(***************************************************************************)
EXTENDS MCModelTools, FiniteSetTheorems, TLAPS

-----------------------------------------------------------------------------
(***************************************************************************)
(* The check of a COBie workbook.                                          *)
(***************************************************************************)

(* What the check keeps, with the shape of groups and pages.                 *)
Grouping ==
  [phase : Phases \cup {Default, "fallback"}, pattern : Entities \cup {""}, role : Roles,
   failed : SUBSET elements, error : BOOLEAN]

ReportShape ==
  /\ ReportTypeOK
  /\ config \in Configs
  /\ groups \subseteq Grouping
  /\ html \in [by : {"nobody", "jar", "native", "legacy"}, shows : SUBSET groups,
               notes : SUBSET warnings]

(* The answer comes last, the page after the groups, the groups after the   *)
(* choice of the phases, and the Java reporter knows neither.               *)
ReportInOrder ==
  /\ stage # "end" => answer = "none"
  /\ stage \in {"start", "xml", "inspect", "phases"} => done = {} /\ groups = {}
  /\ stage \in {"start", "xml", "inspect", "phases", "compile", "apply", "merge",
                "normalise", "render"} => html = NoHtml
  /\ config.engine = "java" => stage \in {"start", "end"}

(* Python's check goes on and has not failed.                               *)
ReportRuns == config.engine = "python" /\ answer # "error"

(* No row but a blank one is left out, and a date that is dropped is told.  *)
RowsAreKept ==
  ReportRuns /\ stage \notin {"start", "xml"} =>
    /\ elements = Kept(workbook)
    /\ (\E r \in elements : r.cells = "undated") => "date" \in warnings

(* A phase that was applied left its failures among the groups.              *)
PhasesAreCovered ==
  /\ \A p \in done, r \in elements :
       r.entity \in Activated(p) /\ r.cells # "good" =>
         \E g \in groups : g.phase = p /\ r \in g.failed
  /\ \A g \in groups : g.error => groups = {g}
  /\ (\E g \in groups : g.error) => done = {}
  /\ ReportRuns /\ stage \in {"merge", "normalise", "render", "integrity", "override", "end"} =>
       "fallback" \in warnings \/ done # {}
  /\ stage \in {"compile", "apply", "merge"} => \A g \in groups : ~g.error

(* A page shows all failures, or, a stylesheet's, some if there are any;      *)
(* the one that is about to be replaced does not matter.                     *)
PageShows ==
  /\ stage = "override" => Failing(groups) # {}
  /\ stage = "integrity" \/ (stage = "end" /\ answer = "ok" /\ config.engine = "python") =>
       /\ html.by = "native" =>
            html.shows = Failing(groups) /\ warnings \ {"transform"} \subseteq html.notes
       /\ html.by # "native" /\ stage = "end" /\ Failing(groups) # {} => html.shows # {}
       /\ html.by \in {"native", "legacy"}

ReportInv == ReportShape /\ ReportInOrder /\ RowsAreKept /\ PhasesAreCovered /\ PageShows

LEMMA ReportInitInv == ReportInit => ReportInv
<1> SUFFICES ASSUME ReportInit PROVE ReportInv
  OBVIOUS
<1>1. PICK c \in Configs, w \in {w \in SUBSET SheetRows : Cardinality(w) <= MaxRows} : ReportStart(c, w)
  BY DEF ReportInit
<1>2. ReportShape
  <2>1. ReportTypeOK
    BY <1>1 DEF ReportStart, ReportTypeOK, NoHtml
  <2>2. html \in [by : {"nobody", "jar", "native", "legacy"}, shows : SUBSET groups,
                  notes : SUBSET warnings]
    BY <1>1 DEF ReportStart, NoHtml
  <2>3. QED
    BY <1>1, <2>1, <2>2 DEF ReportStart, ReportShape
<1>3. ReportInOrder
  BY <1>1 DEF ReportStart, ReportInOrder
<1>4. RowsAreKept /\ PhasesAreCovered /\ PageShows
  BY <1>1 DEF ReportStart, RowsAreKept, PhasesAreCovered, PageShows
<1>5. QED
  BY <1>2, <1>3, <1>4 DEF ReportInv

(* A group keeps everything but its role when it is given one.               *)
LEMMA WithRoleKeeps ==
  ASSUME NEW g \in Grouping
  PROVE  /\ WithRole(g) \in Grouping /\ WithRole(g).phase = g.phase
         /\ WithRole(g).failed = g.failed /\ WithRole(g).error = g.error
         /\ g.error => WithRole(g) = g
  BY DEF Grouping, WithRole, Roles

(* What a phase adds: groups of rows of the XML, its failing rows among them. *)
LEMMA CheckedCovers ==
  ASSUME ReportShape, NEW p \in Phases \cup {Default}, NEW role \in [Entities -> Roles]
  PROVE  /\ Checked(p, role) \subseteq Grouping
         /\ \A g \in Checked(p, role) : ~g.error
         /\ \A r \in elements : r.entity \in Activated(p) /\ r.cells # "good" =>
              \E g \in Checked(p, role) : g.phase = p /\ r \in g.failed
<1> DEFINE Fired == {x \in Activated(p) : \E r \in elements : r.entity = x}
           Grouped(e) == [phase |-> p, pattern |-> e, role |-> role[e], error |-> FALSE,
                        failed |-> {r \in elements : r.entity = e /\ r.cells # "good"}]
<1>1. Activated(p) \subseteq Entities
  BY DEF Activated, ReportShape, ReportTypeOK
<1>2. Checked(p, role) = {Grouped(e) : e \in Fired}
  BY DEF Checked
<1>3. ASSUME NEW e \in Fired
      PROVE  Grouped(e) \in Grouping /\ ~Grouped(e).error
  BY <1>1 DEF Grouping
<1>4. ASSUME NEW r \in elements, r.entity \in Activated(p), r.cells # "good"
      PROVE  \E g \in Checked(p, role) : g.phase = p /\ r \in g.failed
  <2>1. r.entity \in Fired
    BY <1>4
  <2>2. Grouped(r.entity).phase = p /\ r \in Grouped(r.entity).failed
    BY <1>4
  <2>3. Grouped(r.entity) \in Checked(p, role)
    BY <1>2, <2>1
  <2> HIDE DEF Fired, Grouped
  <2>4. QED
    BY <2>2, <2>3
<1> HIDE DEF Fired, Grouped
<1>5. QED
  BY <1>2, <1>3, <1>4

LEMMA ReportStutter == ReportInv /\ UNCHANGED reportVars => ReportInv'
<1> SUFFICES ASSUME ReportInv, UNCHANGED reportVars
             PROVE  ReportInv'
  OBVIOUS
<1> USE DEF reportVars, ReportInv
<1>1. ReportShape'
  BY DEF ReportShape, ReportTypeOK, Grouping
<1>2. ReportInOrder' /\ RowsAreKept'
  BY DEF ReportInOrder, RowsAreKept, ReportRuns
<1>3. PhasesAreCovered'
  BY DEF PhasesAreCovered, ReportRuns, Activated
<1>4. PageShows'
  BY DEF PageShows, Failing
<1>5. QED
  BY <1>1, <1>2, <1>3, <1>4

(* The steps before the phases, that write neither groups nor pages.         *)
LEMMA ReportBefore ==
  ASSUME ReportInv, Choose \/ Build \/ Inspect \/ LoadPhases
  PROVE  ReportInv'
<1> USE DEF ReportInv
<1>1. ReportShape'
  <2>1. groups = {} /\ groups' = {} /\ html = NoHtml /\ html' = NoHtml /\ config' = config
    BY DEF ReportInOrder, Choose, Build, Inspect, LoadPhases
  <2>2. html' \in [by : {"nobody", "jar", "native", "legacy"}, shows : SUBSET groups',
                   notes : SUBSET warnings']
    BY <2>1 DEF NoHtml
  <2>3. ReportTypeOK'
    <3>1. CASE Choose \/ Inspect
      BY <3>1 DEF Choose, Inspect, ReportShape, ReportTypeOK
    <3>2. CASE Build
      BY <2>1, <3>2 DEF Build, Kept, NoHtml, ReportShape, ReportTypeOK
    <3>3. CASE LoadPhases
      <4>1. PICK ids \in SUBSET Phases, configured \in {{}, Phases}, named \in SUBSET Phases :
               named \subseteq ids /\ remaining' \in Selected(ids, configured, named)
        BY <3>3 DEF LoadPhases
      <4>2. remaining' \subseteq Phases \cup {Default}
        BY <4>1 DEF Selected
      <4>3. active' \in [Phases -> SUBSET Entities]
        BY <3>3 DEF LoadPhases
      <4>4. QED
        BY <3>3, <4>2, <4>3 DEF LoadPhases, ReportShape, ReportTypeOK
    <3>4. QED
      BY <3>1, <3>2, <3>3
  <2>4. QED
    BY <2>1, <2>2, <2>3 DEF ReportShape
<1>2. ReportInOrder'
  BY DEF ReportInOrder, Choose, Build, Inspect, LoadPhases
<1>3. RowsAreKept'
  <2>1. CASE Build
    BY <2>1 DEF Build, RowsAreKept, ReportRuns, Kept
  <2>2. CASE Choose \/ Inspect \/ LoadPhases
    BY <2>2 DEF Choose, Inspect, LoadPhases, RowsAreKept, ReportRuns, Kept
  <2>3. QED
    BY <2>1, <2>2
<1>4. PhasesAreCovered'
  BY DEF PhasesAreCovered, ReportInOrder, ReportRuns, Choose, Build, Inspect, LoadPhases
<1>5. PageShows'
  BY DEF PageShows, ReportInOrder, Choose, Build, Inspect, LoadPhases
<1>6. QED
  BY <1>1, <1>2, <1>3, <1>4, <1>5

(* An error, and whatever the jar did.                                       *)
LEMMA ReportGivesUp ==
  ASSUME ReportInv, Fail \/ JavaRun
  PROVE  ReportInv'
<1> USE DEF ReportInv, End
<1>1. ReportShape'
  <2>1. CASE Fail
    BY <2>1 DEF Fail, ReportShape, ReportTypeOK, Grouping
  <2>2. CASE JavaRun
    <3>1. html' \in [by : {"nobody", "jar", "native", "legacy"}, shows : {{}}, notes : {{}}]
      BY <2>2 DEF JavaRun, ReportInOrder, NoHtml
    <3>2. html'.shows = {} /\ html'.notes = {}
      BY <3>1
    <3>3. html' \in [by : {"nobody", "jar", "native", "legacy"}, shows : SUBSET groups',
                     notes : SUBSET warnings']
      BY <3>1
    <3>4. ReportTypeOK'
      BY <2>2, <3>2 DEF JavaRun, ReportShape, ReportTypeOK
    <3>5. config' \in Configs /\ groups' \subseteq Grouping'
      BY <2>2 DEF JavaRun, ReportShape, Grouping
    <3>6. QED
      BY <3>3, <3>4, <3>5 DEF ReportShape
  <2>3. QED
    BY <2>1, <2>2
<1>2. ReportInOrder'
  BY DEF ReportInOrder, Fail, JavaRun
<1>3. RowsAreKept'
  BY DEF RowsAreKept, ReportRuns, Fail, JavaRun
<1>4. PhasesAreCovered'
  BY DEF PhasesAreCovered, ReportRuns, Activated, Fail, JavaRun
<1>5. PageShows'
  BY DEF PageShows, Fail, JavaRun
<1>6. QED
  BY <1>1, <1>2, <1>3, <1>4, <1>5

(* The phases, or what replaces them, and their results together.            *)
LEMMA ReportPhases ==
  ASSUME ReportInv, FallBack \/ Compile \/ ApplyPhase \/ Merge
  PROVE  ReportInv'
<1> USE DEF ReportInv
<1>1. stage \in {"phases", "compile", "apply", "merge"} /\ html = NoHtml /\ html' = NoHtml
       /\ config' = config /\ workbook' = workbook /\ elements' = elements
       /\ active' = active /\ answer' = answer /\ warnings \subseteq warnings'
  BY DEF ReportInOrder, FallBack, Fallback, Compile, ApplyPhase, Merge
<1>2. stage' \in {"compile", "apply", "merge", "normalise"}
  BY DEF FallBack, Fallback, Compile, ApplyPhase, Merge
<1>3. html' \in [by : {"nobody", "jar", "native", "legacy"}, shows : SUBSET groups',
                 notes : SUBSET warnings']
  BY <1>1 DEF NoHtml
<1>4. ReportInOrder'
  BY <1>1, <1>2 DEF ReportInOrder
<1>5. RowsAreKept'
  BY <1>1, <1>2 DEF RowsAreKept, ReportRuns
<1>6. PageShows'
  BY <1>2 DEF PageShows
<1>7. CASE FallBack
  <2>1. PICK E \in SUBSET {"error"} : Fallback(E)
    BY <1>7 DEF FallBack
  <2> DEFINE G == [phase |-> "fallback", pattern |-> "", role |-> "", failed |-> {}, error |-> TRUE]
  <2>2. groups' = {} \/ groups' = {G}
    BY <2>1 DEF Fallback
  <2>3. G \in Grouping' /\ G.role \in Roles /\ G.failed = {}
    BY DEF Grouping, Roles
  <2> HIDE DEF G
  <2>4. ReportShape'
    <3>1. ReportTypeOK'
      BY <1>1, <1>2, <2>1, <2>2, <2>3 DEF Fallback, NoHtml, ReportShape, ReportTypeOK
    <3>2. groups' \subseteq Grouping'
      BY <2>2, <2>3
    <3>3. QED
      BY <1>1, <1>3, <3>1, <3>2 DEF ReportShape
  <2>5. PhasesAreCovered'
    BY <1>1, <2>1, <2>2 DEF Fallback, PhasesAreCovered
  <2>6. QED
    BY <1>4, <1>5, <1>6, <2>4, <2>5
<1>8. CASE Compile \/ Merge
  <2>1. ReportShape'
    BY <1>3, <1>8 DEF Compile, Merge, ReportShape, ReportTypeOK, Grouping
  <2>2. PhasesAreCovered'
    BY <1>8 DEF Compile, Merge, PhasesAreCovered, ReportRuns, Activated
  <2>3. QED
    BY <1>4, <1>5, <1>6, <2>1, <2>2
<1>9. CASE ApplyPhase
  <2>1. PICK p \in remaining, role \in [Entities -> Roles] :
           /\ groups' = groups \cup Checked(p, role)
           /\ remaining' = remaining \ {p} /\ done' = done \cup {p}
    BY <1>9 DEF ApplyPhase
  <2>2. p \in Phases \cup {Default}
    BY <2>1 DEF ReportShape, ReportTypeOK
  <2>3. /\ Checked(p, role) \subseteq Grouping
        /\ \A g \in Checked(p, role) : ~g.error
        /\ \A r \in elements : r.entity \in Activated(p) /\ r.cells # "good" =>
             \E g \in Checked(p, role) : g.phase = p /\ r \in g.failed
    BY <2>2, CheckedCovers
  <2>4. groups' \subseteq Grouping
    BY <2>1, <2>3 DEF ReportShape
  <2>5. Grouping' = Grouping
    BY <1>1 DEF Grouping
  <2>6. \A g \in groups' : g.role \in Roles /\ g.failed \subseteq elements
    BY <2>4 DEF Grouping
  <2>7. ReportShape'
    <3>1. ReportTypeOK'
      BY <1>1, <1>2, <1>9, <2>1, <2>2, <2>6 DEF ApplyPhase, NoHtml, ReportShape, ReportTypeOK
    <3>2. QED
      BY <1>1, <1>3, <2>4, <2>5, <3>1 DEF ReportShape
  <2>8. \A g \in groups' : ~g.error
    BY <1>9, <2>1, <2>3 DEF ApplyPhase, PhasesAreCovered
  <2>9. \A q \in done', r \in elements' :
          r.entity \in Activated(q)' /\ r.cells # "good" =>
            \E g \in groups' : g.phase = q /\ r \in g.failed
    <3> SUFFICES ASSUME NEW q \in done', NEW r \in elements,
                        r.entity \in Activated(q), r.cells # "good"
                 PROVE  \E g \in groups' : g.phase = q /\ r \in g.failed
      BY <1>1 DEF Activated
    <3>1. CASE q = p
      BY <2>1, <2>3, <3>1
    <3>2. CASE q \in done
      BY <2>1, <3>2 DEF PhasesAreCovered
    <3>3. QED
      BY <2>1, <3>1, <3>2
  <2>10. PhasesAreCovered'
    BY <2>1, <2>8, <2>9 DEF PhasesAreCovered
  <2>11. QED
    BY <1>4, <1>5, <1>6, <2>7, <2>10
<1>10. QED
  BY <1>7, <1>8, <1>9

(* Groups get their roles, and keep what they hold.                          *)
LEMMA ReportNormalises ==
  ASSUME ReportInv, Normalise
  PROVE  ReportInv'
<1> USE DEF ReportInv
<1>1. /\ stage = "normalise" /\ stage' = "render" /\ html = NoHtml /\ html' = NoHtml
      /\ groups' = {WithRole(g) : g \in groups} /\ warnings \subseteq warnings'
      /\ warnings' \subseteq warnings \cup {"unfired"}
      /\ UNCHANGED <<config, workbook, elements, active, remaining, done, answer>>
  BY DEF ReportInOrder, Normalise
<1>2. Grouping' = Grouping /\ \A q : Activated(q)' = Activated(q)
  BY <1>1 DEF Grouping, Activated
<1>3. ASSUME NEW g \in groups
      PROVE  /\ g \in Grouping /\ WithRole(g) \in Grouping /\ WithRole(g).phase = g.phase
             /\ WithRole(g).failed = g.failed /\ WithRole(g).error = g.error
             /\ g.error => WithRole(g) = g
  <2>1. g \in Grouping
    BY DEF ReportShape
  <2>2. QED
    BY <2>1, WithRoleKeeps
<1>4. groups' \subseteq Grouping
  BY <1>1, <1>3
<1>5. ReportShape'
  <2>1. \A g \in groups' : g.role \in Roles /\ g.failed \subseteq elements
    BY <1>4 DEF Grouping
  <2>2. html' \in [by : {"nobody", "jar", "native", "legacy"}, shows : SUBSET groups',
                   notes : SUBSET warnings']
    BY <1>1 DEF NoHtml
  <2>3. ReportTypeOK'
    BY <1>1, <2>1 DEF NoHtml, ReportShape, ReportTypeOK
  <2>4. QED
    BY <1>1, <1>2, <1>4, <2>2, <2>3 DEF ReportShape
<1>6. ReportInOrder'
  BY <1>1 DEF ReportInOrder
<1>7. RowsAreKept'
  BY <1>1 DEF RowsAreKept, ReportRuns
<1>8. PhasesAreCovered'
  <2>1. \A p \in done, r \in elements :
          r.entity \in Activated(p) /\ r.cells # "good" =>
            \E g \in groups' : g.phase = p /\ r \in g.failed
    <3> SUFFICES ASSUME NEW p \in done, NEW r \in elements,
                        r.entity \in Activated(p), r.cells # "good"
                 PROVE  \E g \in groups' : g.phase = p /\ r \in g.failed
      OBVIOUS
    <3>1. PICK g \in groups : g.phase = p /\ r \in g.failed
      BY DEF PhasesAreCovered
    <3>2. WithRole(g) \in groups' /\ WithRole(g).phase = p /\ r \in WithRole(g).failed
      BY <1>1, <1>3, <3>1
    <3>3. QED
      BY <3>2
  <2>2. \A h \in groups' : h.error => groups' = {h} /\ h \in groups
    <3> SUFFICES ASSUME NEW g \in groups, WithRole(g).error
                 PROVE  groups' = {WithRole(g)} /\ WithRole(g) \in groups
      BY <1>1
    <3>1. g.error /\ WithRole(g) = g
      BY <1>3
    <3>2. groups = {g}
      BY <3>1 DEF PhasesAreCovered
    <3>3. groups' = {WithRole(x) : x \in {g}}
      BY <1>1, <3>2
    <3>4. {WithRole(x) : x \in {g}} = {WithRole(g)}
      OBVIOUS
    <3>5. QED
      BY <3>1, <3>2, <3>3, <3>4
  <2>3. (\E h \in groups' : h.error) => done = {}
    BY <2>2 DEF PhasesAreCovered
  <2>4. ReportRuns => "fallback" \in warnings' \/ done # {}
    BY <1>1 DEF PhasesAreCovered
  <2>5. QED
    BY <1>1, <1>2, <2>1, <2>2, <2>3, <2>4 DEF PhasesAreCovered, ReportRuns
<1>9. PageShows'
  BY <1>1 DEF PageShows
<1>10. QED
  BY <1>5, <1>6, <1>7, <1>8, <1>9

(* The page is written, looked at, and answered with.                        *)
LEMMA ReportShows ==
  ASSUME ReportInv, Render \/ CheckIntegrity
  PROVE  ReportInv'
<1> USE DEF ReportInv
<1> DEFINE Page(g, w) == [by : {"nobody", "jar", "native", "legacy"}, shows : SUBSET g, notes : SUBSET w]
<1>1. /\ stage \in {"render", "integrity", "override"} /\ stage' \in {"integrity", "override", "end"}
      /\ warnings \subseteq warnings' /\ warnings' \subseteq warnings \cup {"transform", "mismatch"}
      /\ UNCHANGED <<config, workbook, elements, active, remaining, done, groups>>
      /\ config.engine = "python" /\ answer = "none" /\ answer' \in {"none", "ok"}
      /\ stage' # "end" => answer' = "none"
  BY DEF ReportShape, Configs, ReportInOrder, Render, CheckIntegrity, End
<1>2. ASSUME NEW w, w \subseteq warnings'
      PROVE  /\ Native(w) \in Page(groups, warnings') /\ Native(w).shows = Failing(groups)
             /\ Native(w).notes = w /\ Native(w).by = "native"
  BY <1>2 DEF Native, Failing
<1>3. /\ Legacy \in Page(groups, warnings') /\ Legacy.shows \subseteq Failing(groups)
      /\ Legacy.by = "legacy"
  BY DEF Legacy, Failing
<1>4. html \in Page(groups, warnings')
  BY <1>1 DEF ReportShape
<1>5. html' = html \/ (\E w \in SUBSET warnings' : html' = Native(w)) \/ html' = Legacy
  BY <1>1 DEF Render, CheckIntegrity
<1>6. html' \in Page(groups, warnings')
  BY <1>2, <1>3, <1>4, <1>5
<1>7. ReportShape'
  <2>1. Grouping' = Grouping
    BY <1>1 DEF Grouping
  <2>2. html'.shows \subseteq groups /\ html'.notes \subseteq warnings'
    BY <1>6
  <2>3. ReportTypeOK'
    BY <1>1, <2>2 DEF ReportShape, ReportTypeOK
  <2>4. QED
    BY <1>1, <1>6, <2>1, <2>3 DEF ReportShape
<1>8. ReportInOrder'
  BY <1>1 DEF ReportInOrder
<1>9. RowsAreKept'
  BY <1>1 DEF RowsAreKept, ReportRuns
<1>10. PhasesAreCovered'
  BY <1>1 DEF PhasesAreCovered, ReportRuns, Activated
<1>11. PageShows'
  <2>1. Failing(groups)' = Failing(groups)
    BY <1>1 DEF Failing
  <2>2. CASE Render
    <3>1. CASE /\ html' = Native(warnings) /\ stage' = "integrity"
               /\ warnings' \subseteq warnings \cup {"transform"}
      BY <1>1, <1>2, <2>1, <3>1 DEF PageShows
    <3>2. CASE Failing(groups) # {} /\ stage' = "override"
      BY <2>1, <3>2 DEF PageShows
    <3>3. CASE html' = Legacy /\ stage' = "integrity"
      BY <1>3, <2>1, <3>3 DEF PageShows
    <3>4. QED
      BY <2>2, <3>1, <3>2, <3>3 DEF Render
  <2>3. CASE CheckIntegrity
    <3>1. CASE Failing(groups) # {} /\ (stage = "override" \/ SaysNoErrors(html))
      BY <1>2, <2>1, <2>3, <3>1 DEF CheckIntegrity, End, PageShows
    <3>2. CASE ~(Failing(groups) # {} /\ (stage = "override" \/ SaysNoErrors(html)))
      BY <1>1, <2>1, <2>3, <3>2 DEF CheckIntegrity, End, PageShows, SaysNoErrors
    <3>3. QED
      BY <3>1, <3>2
  <2>4. QED
    BY <2>2, <2>3
<1>12. QED
  BY <1>7, <1>8, <1>9, <1>10, <1>11

(* The invariant of the check of a workbook: whatever its rows, its phases   *)
(* and the failures of the libraries it calls.                               *)
THEOREM ReportInvariance == ReportSpec => []ReportInv
<1>1. ReportInv /\ [ReportNext]_reportVars => ReportInv'
  BY ReportStutter, ReportBefore, ReportGivesUp, ReportPhases, ReportNormalises, ReportShows
  DEF ReportNext
<1>2. QED
  BY ReportInitInv, <1>1, PTL DEF ReportSpec

(* A check that is answered with success hides nothing of what is wrong with *)
(* the workbook: run_cobieqc and the fallbacks of the native engine.         *)
THEOREM FailuresAreShown == ReportSpec => []ReportShowsFailures
<1>1. ASSUME ReportInv, answer = "ok", config.engine = "python"
      PROVE  ReportShowsFailures
  <2> ReportShape /\ ReportInOrder /\ RowsAreKept /\ PhasesAreCovered /\ PageShows
    BY <1>1 DEF ReportInv
  <2>1. stage = "end" /\ ReportRuns
    BY <1>1 DEF ReportInOrder, ReportRuns
  <2>2. elements = Kept(workbook) /\ ((\E r \in elements : r.cells = "undated") => "date" \in warnings)
    BY <2>1 DEF RowsAreKept
  <2>3. \A r \in Faulty : r \in elements /\ r.cells # "good"
    BY <2>2 DEF Faulty, Kept
  <2>4. /\ html.by = "native" =>
             html.shows = Failing(groups) /\ warnings \ {"transform"} \subseteq html.notes
        /\ html.by # "native" /\ Failing(groups) # {} => html.shows # {}
    BY <1>1, <2>1 DEF PageShows
  <2>5. html.shows \subseteq groups
    BY DEF ReportShape, ReportTypeOK
  <2>6. ASSUME NEW p \in done, NEW r \in Faulty, r.entity \in Activated(p)
        PROVE  IF html.by = "native" THEN \E g \in html.shows : g.phase = p /\ r \in g.failed
                                     ELSE html.shows # {}
    <3>1. PICK g \in groups : g.phase = p /\ r \in g.failed
      BY <2>3, <2>6 DEF PhasesAreCovered
    <3>2. g \in Failing(groups)
      BY <3>1 DEF Failing
    <3>3. QED
      BY <2>4, <3>1, <3>2
  <2>7. ASSUME NEW g \in groups, g.error
        PROVE  g \in html.shows
    <3>1. groups = {g} /\ g \in Failing(groups)
      BY <2>7 DEF PhasesAreCovered, Failing
    <3>2. QED
      BY <2>4, <2>5, <3>1
  <2>8. "fallback" \in warnings \/ done # {}
    BY <2>1 DEF PhasesAreCovered
  <2>9. (\E r \in Faulty : r.cells = "undated") => "date" \in warnings
    BY <2>2, <2>3
  <2>10. QED
    BY <2>4, <2>6, <2>7, <2>8, <2>9 DEF ReportShowsFailures
<1>2. ReportInv => ReportShowsFailures
  BY <1>1 DEF ReportShowsFailures
<1>3. QED
  BY ReportInvariance, <1>2, PTL

-----------------------------------------------------------------------------
(***************************************************************************)
(* The COBieQC assets.                                                     *)
(***************************************************************************)

(* While the configured directory is being replaced there is another one to *)
(* take the copy from; once that is settled, packaged resources mean usable *)
(* ones.                                                                   *)
AssetsUsable ==
  /\ at = "swap" => Valid("packaged")
  /\ at \in {"urls", "decide"} /\ Valid("packaged") => Usable

(* What is missing has been noted by the bootstrap that found it missing.    *)
AssetsNoted ==
  /\ at \notin {"idle", "decide"} /\ (\E l \in Libraries : library[l] = "none") => errors # {}
  /\ at \in {"resolve", "swap", "urls"} /\ jar # "valid" => errors # {}

(* A job that waits has a complete directory to choose, and one that reads   *)
(* has the one it chose.                                                   *)
AssetsServe ==
  /\ job.state # "error"
  /\ job.state = "queued" => \E d \in Dirs : Valid(d)
  /\ job.state = "reading" => job.dir \in Dirs /\ Valid(job.dir)

(* What a bootstrap has reported is what the disk holds.                     *)
AssetsTold ==
  at = "decide" =>
    /\ status.resources <=> Usable
    /\ (~status.jar \/ ~status.resources \/ \E l \in Libraries : library[l] = "none")
         => status.errors # {}

AssetInv == AssetTypeOK /\ AssetsUsable /\ AssetsNoted /\ AssetsServe /\ AssetsTold

(* The initial state satisfies the invariant, whatever is on the disk.       *)
LEMMA AssetInitInv == AssetInit => AssetInv
BY MaxRunsAssumption
   DEF AssetInit, AssetStart, AssetInv, AssetTypeOK, AssetsUsable, AssetsNoted, AssetsServe,
       AssetsTold, NoStatus, NoJob, Dirs

(* The steps of a bootstrap up to the files keep the types.                  *)
LEMMA AssetTypeStep == AssetTypeOK /\ [AssetNext]_assetVars => AssetTypeOK'
<1> SUFFICES ASSUME AssetTypeOK, [AssetNext]_assetVars PROVE AssetTypeOK'
  OBVIOUS
<1> USE MaxRunsAssumption DEF AssetTypeOK, Dirs, NoStatus, NoJob
<1>1. CASE UNCHANGED assetVars
  BY <1>1 DEF assetVars
<1>2. CASE Begin
  BY <1>2 DEF Begin
<1>3. CASE CheckJar
  BY <1>3 DEF CheckJar
<1>4. CASE FetchJar
  BY <1>4 DEF FetchJar
<1>5. CASE Resolve
  BY <1>5 DEF Resolve, Environments
<1>6. CASE Swap
  BY <1>6 DEF Swap
<1>7. CASE FetchFile
  <2>1. PICK f \in todo :
          /\ todo' = todo \ {f}
          /\ files' \in {files, [files EXCEPT !["configured"] = @ \cup {f}]}
          /\ errors' \in {errors, errors \cup {"download"}}
    BY <1>7 DEF FetchFile, Download
  <2>2. files' \in [Dirs -> SUBSET Required]
    BY <2>1
  <2> QED
    BY <1>7, <2>1, <2>2 DEF FetchFile, Download
<1>8. CASE Report
  BY <1>8 DEF Report, Incomplete, Unavailable, Usable
<1>9. CASE Accept
  BY <1>9 DEF Accept
<1>10. CASE StartJob
  BY <1>10 DEF StartJob
<1>11. CASE ReadFile
  BY <1>11 DEF ReadFile
<1>12. CASE EndJob
  BY <1>12 DEF EndJob
<1>13. CASE Crash
  BY <1>13 DEF Crash
<1> QED
  BY <1>1, <1>2, <1>3, <1>4, <1>5, <1>6, <1>7, <1>8, <1>9, <1>10, <1>11, <1>12, <1>13
     DEF AssetNext

(* What is complete stays so, and only the configured directory changes,     *)
(* and only while a bootstrap works on it.                                 *)
LEMMA AssetFilesStep ==
  ASSUME AssetTypeOK, AssetsUsable, [AssetNext]_assetVars
  PROVE  /\ Valid("packaged")' <=> Valid("packaged")
         /\ Valid("preferred")' <=> Valid("preferred")
         /\ Valid("configured") => Valid("configured")'
         /\ files' = files \/ Resolve \/ Swap \/ FetchFile
<1> USE DEF AssetTypeOK, Valid, Dirs
<1>1. CASE Resolve
  BY <1>1 DEF Resolve
<1>2. CASE Swap
  BY <1>2 DEF Swap, AssetsUsable
<1>3. CASE FetchFile
  <2>1. PICK f \in todo : files' \in {files, [files EXCEPT !["configured"] = @ \cup {f}]}
    BY <1>3 DEF FetchFile, Download
  <2> QED
    BY <1>3, <2>1
<1>4. CASE UNCHANGED assetVars
  BY <1>4 DEF assetVars
<1>5. CASE Begin \/ CheckJar \/ FetchJar \/ Report \/ Accept \/ StartJob \/ ReadFile \/ EndJob \/ Crash
  BY <1>5 DEF Begin, CheckJar, FetchJar, Report, Incomplete, Unavailable, Accept, StartJob, ReadFile, EndJob, Crash
<1> QED
  BY <1>1, <1>2, <1>3, <1>4, <1>5 DEF AssetNext

(* A bootstrap that passes Resolve has usable resources if any are packaged. *)
LEMMA AssetUsableStep ==
  ASSUME AssetTypeOK, AssetsUsable, [AssetNext]_assetVars
  PROVE  AssetsUsable'
<1> USE AssetFilesStep DEF AssetsUsable, Usable
<1>1. CASE Resolve
  <2>1. CASE at' = "urls"
    BY <1>1, <2>1 DEF Resolve, Valid
  <2>2. CASE at' = "swap"
    BY <1>1, <2>2 DEF Resolve
  <2> QED
    BY <1>1, <2>1, <2>2 DEF Resolve
<1>2. CASE Swap
  <2>1. Valid("configured")'
    BY <1>2 DEF Swap, Valid, AssetTypeOK, Dirs
  <2> QED
    BY <1>2, <2>1 DEF Swap
<1>3. CASE FetchFile
  BY <1>3 DEF FetchFile, Download
<1>4. CASE Report
  BY <1>4 DEF Report, Incomplete, Unavailable
<1>5. CASE UNCHANGED assetVars
  BY <1>5 DEF assetVars
<1>6. CASE Begin \/ CheckJar \/ FetchJar \/ Accept \/ StartJob \/ ReadFile \/ EndJob \/ Crash
  BY <1>6 DEF Begin, CheckJar, FetchJar, Accept, StartJob, ReadFile, EndJob, Crash
<1> QED
  BY <1>1, <1>2, <1>3, <1>4, <1>5, <1>6 DEF AssetNext

(* No step loses an error before it is reported.                            *)
LEMMA AssetNotedStep ==
  ASSUME AssetTypeOK, AssetsNoted, [AssetNext]_assetVars
  PROVE  AssetsNoted'
<1> USE DEF AssetsNoted, AssetTypeOK
<1>1. CASE Begin
  BY <1>1 DEF Begin
<1>2. CASE FetchFile
  <2>1. errors \subseteq errors' /\ UNCHANGED <<at, jar, library>>
    BY <1>2 DEF FetchFile, Download
  <2> QED
    BY <2>1
<1>3. CASE CheckJar \/ FetchJar \/ Resolve \/ Swap
  BY <1>3 DEF CheckJar, FetchJar, Resolve, Swap
<1>4. CASE Report \/ Accept \/ Crash
  BY <1>4 DEF Report, Incomplete, Unavailable, Accept, Crash
<1>5. CASE StartJob \/ ReadFile \/ EndJob
  BY <1>5 DEF StartJob, ReadFile, EndJob
<1>6. CASE UNCHANGED assetVars
  BY <1>6 DEF assetVars
<1> QED
  BY <1>1, <1>2, <1>3, <1>4, <1>5, <1>6 DEF AssetNext

(* A directory that waits for a job, or is read by one, is not emptied: it   *)
(* is either not touched, or not the one Resolve moves aside.               *)
LEMMA AssetServeStep ==
  ASSUME AssetTypeOK, AssetsUsable, AssetsServe, [AssetNext]_assetVars
  PROVE  AssetsServe'
<1> USE DEF AssetsServe, AssetTypeOK
<1>1. ASSUME NEW d \in Dirs, Valid(d)
      PROVE  Valid(d)'
  BY <1>1, AssetFilesStep DEF Dirs
<1>2. CASE job' = job
  <2>1. ASSUME job'.state = "queued" PROVE \E d \in Dirs : Valid(d)'
    BY <1>1, <1>2, <2>1
  <2> QED
    BY <1>1, <1>2, <2>1
<1>3. CASE Accept /\ job' # job
  BY <1>3 DEF Accept, NoJob, Valid
<1>4. CASE StartJob
  <2>1. \E d \in Dirs : Valid(d)
    BY <1>4 DEF StartJob
  <2>2. PICK d \in Dirs : Candidate(d) /\ job' = [job EXCEPT !.state = "reading", !.dir = d]
    BY <1>4, <2>1 DEF StartJob
  <2>3. Valid(d)
    BY <2>2 DEF Candidate
  <2> QED
    BY <1>1, <2>2, <2>3
<1>5. CASE ReadFile
  <2>1. PICK f \in Required \ job.read :
          job' = IF f \in files[job.dir] THEN [job EXCEPT !.read = @ \cup {f}]
                 ELSE [job EXCEPT !.state = "error"]
    BY <1>5 DEF ReadFile
  <2>2. job.dir \in Dirs /\ Valid(job.dir) /\ f \in files[job.dir]
    BY <1>5, <2>1 DEF ReadFile, Valid
  <2>3. job'.state = job.state /\ job'.dir = job.dir /\ job.state = "reading"
    BY <1>5, <2>1, <2>2 DEF ReadFile
  <2> QED
    BY <1>1, <2>2, <2>3
<1>6. CASE EndJob
  BY <1>6 DEF EndJob
<1>7. CASE Crash
  BY <1>7 DEF Crash, NoJob
<1>8. CASE Begin \/ CheckJar \/ FetchJar \/ Resolve \/ Swap \/ FetchFile \/ Report
  BY <1>2, <1>8 DEF Begin, CheckJar, FetchJar, Resolve, Swap, FetchFile, Download, Report, Incomplete, Unavailable
<1>9. CASE UNCHANGED assetVars
  BY <1>2, <1>9 DEF assetVars
<1> QED
  BY <1>2, <1>3, <1>4, <1>5, <1>6, <1>7, <1>8, <1>9 DEF AssetNext

(* The status is what the disk held when it was built, and holds still.      *)
LEMMA AssetToldStep ==
  ASSUME AssetTypeOK, AssetsUsable, AssetsNoted, AssetsTold, [AssetNext]_assetVars
  PROVE  AssetsTold'
<1> USE DEF AssetsTold, AssetTypeOK
<1>1. CASE Report
  <2>1. status'.jar = (jar = "valid") /\ status'.resources = Usable
    BY <1>1 DEF Report, Incomplete, Unavailable
  <2>2. Usable' = Usable
    BY <1>1 DEF Report, Incomplete, Unavailable, Usable, Valid
  <2>3. ~Usable => "unavailable" \in status'.errors
    BY <1>1 DEF Report, Incomplete, Unavailable
  <2>4. errors \subseteq status'.errors
    BY <1>1 DEF Report, Incomplete, Unavailable
  <2>5. jar # "valid" \/ (\E l \in Libraries : library[l] = "none") => errors # {}
    BY <1>1 DEF Report, Incomplete, Unavailable, AssetsNoted
  <2>6. UNCHANGED library
    BY <1>1 DEF Report, Incomplete, Unavailable
  <2> QED
    BY <2>1, <2>2, <2>3, <2>4, <2>5, <2>6
<1>2. CASE UNCHANGED <<at, files, status, library>>
  BY <1>2 DEF Usable, Valid
<1>3. CASE at' # "decide"
  BY <1>3
<1>4. CASE Begin \/ CheckJar \/ FetchJar \/ Resolve \/ Swap \/ Accept \/ Crash
  BY <1>3, <1>4 DEF Begin, CheckJar, FetchJar, Resolve, Swap, Accept, Crash
<1>5. CASE FetchFile
  BY <1>3, <1>5 DEF FetchFile, Download
<1>6. CASE StartJob \/ ReadFile \/ EndJob \/ UNCHANGED assetVars
  BY <1>2, <1>6 DEF StartJob, ReadFile, EndJob, assetVars
<1> QED
  BY <1>1, <1>4, <1>5, <1>6 DEF AssetNext

(* The invariant is inductive.                                              *)
LEMMA AssetStepInv == AssetInv /\ [AssetNext]_assetVars => AssetInv'
BY AssetTypeStep, AssetUsableStep, AssetNotedStep, AssetServeStep, AssetToldStep DEF AssetInv

(* The invariant holds in every reachable state.                            *)
THEOREM AssetInvariance == AssetSpec => []AssetInv
BY AssetInitInv, AssetStepInv, PTL DEF AssetSpec

(* Whatever crashes and downloads fail, an accepted job finds complete       *)
(* resources and keeps them while it reads, and a bootstrap that ends has    *)
(* usable resources or says what is missing.                                *)
THEOREM JobsAreServed == AssetSpec => []JobsFindTheirResources
<1>1. AssetInv => JobsFindTheirResources
  BY DEF AssetInv, AssetsUsable, AssetsServe, AssetsTold, JobsFindTheirResources
<1> QED
  BY AssetInvariance, <1>1, PTL

-----------------------------------------------------------------------------
(***************************************************************************)
(* The purge of area spaces.                                               *)
(***************************************************************************)

(* Files that can be opened, with the spaces and relations they have left.   *)
AreaFiles ==
  {f \in [whole : {TRUE}, exists : {TRUE}, spaces : SUBSET SpaceNumbers, area : SUBSET SpaceNumbers,
          onLine : SUBSET SpaceNumbers, large : {"no", "silent", "speaks"},
          related : UNION {[R -> SUBSET SpaceNumbers] : R \in SUBSET Relations},
          within : SpaceNumbers \cup {0}] :
     /\ f.area \subseteq f.spaces /\ f.within \in f.spaces \cup {0}
     /\ \A r \in DOMAIN f.related : f.related[r] \subseteq f.spaces}

AreaContentOK ==
  /\ DOMAIN content = Purges
  /\ \A v \in Purges : content[v] \in AreaFiles \cup {Missing, Truncated}

(* A row that names its space by the GlobalId names that one.                *)
AreaPageOK ==
  /\ page.of \in Purges
  /\ page.ticked \subseteq page.rows
  /\ \A r \in page.rows : r.by = "guid" => r.key = r.space

Keys == {<<r.by, r.key>> : r \in page.ticked}

(* The worker works for the page: on the file it scanned, with the rows it   *)
(* has ticked, until it answers; nobody changes the file meanwhile.          *)
AreaChildOK ==
  /\ child = NoChild \/ child.at \in {"read", "write", "report"}
  /\ child # NoChild => child.of = page.of /\ page.of + 1 \in Purges
  /\ child.at = "read" =>
       child = [at |-> "read", of |-> page.of, keys |-> Keys]
  /\ child.at \in {"write", "report"} =>
       LET old == content[page.of]
           gone == Doomed(old, Keys)
       IN  /\ old \in AreaFiles
           /\ child = [at |-> child.at, of |-> page.of, gone |-> gone,
                       source |-> old, model |-> Purged(old, gone)]
  /\ child.at = "report" => content[page.of + 1] = child.model

(* What an answer "ok" is about is there, as long as the page shows it.      *)
AreaAnswerOK ==
  /\ replied \in {"nothing", "ok", "error"}
  /\ replied = "ok" =>
       LET old == content[page.of]
           gone == Doomed(old, Keys)
       IN  /\ child = NoChild /\ old \in AreaFiles
           /\ content[page.of + 1] = Purged(old, gone)
           /\ old.area = {}

AreaInv ==
  /\ AreaContentOK /\ AreaPageOK /\ AreaChildOK /\ AreaAnswerOK
  /\ replaced \in 0..MaxReplaced

(* What a file may hold is of a kind the tool can open.                      *)
LEMMA ContentsAreFiles ==
  ASSUME NEW spaces \in SUBSET SpaceNumbers
  PROVE  Contents(spaces) \subseteq AreaFiles
<1> SUFFICES ASSUME NEW f \in Contents(spaces)
             PROVE  f \in AreaFiles
  OBVIOUS
<1>1. f.related \in [Relations -> SUBSET SpaceNumbers] /\ \A r \in Relations : f.related[r] \subseteq spaces
  BY DEF Contents
<1>2. f.related \in UNION {[R -> SUBSET SpaceNumbers] : R \in SUBSET Relations}
  BY <1>1
<1>3. /\ f \in [whole : {TRUE}, exists : {TRUE}, spaces : {spaces}, area : SUBSET spaces,
                onLine : SUBSET spaces, large : {"no", "silent", "speaks"},
                related : [Relations -> SUBSET spaces], within : spaces \cup {0}]
  BY DEF Contents
<1> QED
  BY <1>1, <1>2, <1>3 DEF AreaFiles

(* A file without some of its spaces is one again.                          *)
LEMMA PurgedIsFile ==
  ASSUME NEW f \in AreaFiles, NEW gone
  PROVE  Purged(f, gone) \in AreaFiles
<1>1. PICK R \in SUBSET Relations : f.related \in [R -> SUBSET SpaceNumbers]
  BY DEF AreaFiles
<1> DEFINE Q == {r \in R : r \notin listed \/ f.related[r] = {} \/ ~(f.related[r] \subseteq gone)}
<1>2. Pruned(f, gone) = [r \in Q |-> f.related[r] \ gone]
  BY <1>1 DEF Pruned
<1>3. Pruned(f, gone) \in [Q -> SUBSET SpaceNumbers] /\ Q \in SUBSET Relations
  BY <1>1, <1>2
<1>4. \A r \in DOMAIN Pruned(f, gone) : Pruned(f, gone)[r] \subseteq f.spaces \ gone
  BY <1>1, <1>2 DEF AreaFiles
<1> HIDE DEF Q
<1>5. Pruned(f, gone) \in UNION {[S -> SUBSET SpaceNumbers] : S \in SUBSET Relations}
  BY <1>3
<1> QED
  BY <1>4, <1>5 DEF Purged, AreaFiles

(* The initial state satisfies the invariant.                               *)
LEMMA AreaInitInv == AreaInit => AreaInv
<1> SUFFICES ASSUME NEW f \in Contents(SpaceNumbers), NEW l \in SUBSET Relations, AreaStart(f, l)
             PROVE  AreaInv
  BY DEF AreaInit
<1>1. f \in AreaFiles /\ 0 \in Purges
  BY ContentsAreFiles, AreaBoundsAssumption DEF Purges
<1> QED
  BY <1>1, AreaBoundsAssumption
     DEF AreaStart, AreaInv, AreaContentOK, AreaPageOK, AreaChildOK, AreaAnswerOK, NoPage, NoChild

(* Which file the page has scanned, and what it has ticked, is its own.      *)
LEMMA AreaPageStep ==
  ASSUME AreaInv, [AreaNext]_areaVars
  PROVE  AreaPageOK' /\ replaced' \in 0..MaxReplaced
<1> USE AreaBoundsAssumption DEF AreaInv, AreaPageOK
<1>1. ASSUME NEW v \in Purges, Scan(v)
      PROVE  AreaPageOK' /\ UNCHANGED replaced
  <2>1. CASE content[v].whole
    <3>1. \A r \in Candidates(content[v]) : r.key = r.space
      BY DEF Candidates
    <3>2. ASSUME NEW r \in Chunked(content[v]), r.by = "guid"
          PROVE  r.key = r.space
      <4>1. PICK s \in content[v].spaces :
              \/ r = [space |-> s, by |-> "guid", key |-> s]
              \/ \E k : r = [space |-> s, by |-> "step", key |-> k]
        BY DEF Chunked
      <4> QED
        BY <3>2, <4>1
    <3> QED
      BY <1>1, <2>1, <3>1, <3>2 DEF Scan
  <2> QED
    BY <1>1, <2>1 DEF Scan
<1>2. ASSUME NEW row \in page.rows, Untick(row)
      PROVE  AreaPageOK' /\ UNCHANGED replaced
  BY <1>2 DEF Untick
<1>3. ASSUME NEW v \in Purges, Replace(v)
      PROVE  UNCHANGED page /\ replaced' \in 0..MaxReplaced
  BY <1>3 DEF Replace
<1>4. CASE \/ \E v \in Purges : Purge(v)
           \/ OpenAndRemove \/ WriteOutput \/ WriteReport \/ ChildDies
           \/ UNCHANGED areaVars
  BY <1>4 DEF Purge, OpenAndRemove, WriteOutput, WriteReport, ChildDies, areaVars
<1> QED
  BY <1>1, <1>2, <1>3, <1>4 DEF AreaNext

(* What a purge of the scanned file removes depends on that file, its        *)
(* relations and the page only.                                              *)
LEMMA PurgeUnchanged ==
  ASSUME UNCHANGED <<content, listed, page>>
  PROVE  /\ Doomed(content[page.of], Keys)' = Doomed(content[page.of], Keys)
         /\ Purged(content[page.of], Doomed(content[page.of], Keys))'
              = Purged(content[page.of], Doomed(content[page.of], Keys))
<1> DEFINE old == content[page.of]
           gone == Doomed(old, Keys)
<1>1. old' = old /\ Keys' = Keys /\ listed' = listed
  BY DEF Keys
<1>2. gone' = gone
  BY <1>1 DEF Doomed
<1>3. Pruned(old, gone)' = Pruned(old, gone)
  <2> HIDE DEF old, gone
  <2> QED
    BY <1>1, <1>2 DEF Pruned
<1>4. Purged(old, gone)' = Purged(old, gone)
  <2> HIDE DEF old, gone
  <2> QED
    BY <1>1, <1>2, <1>3 DEF Purged
<1> QED
  BY <1>2, <1>4

(* The files, the worker and the answers go together, step by step.          *)
LEMMA AreaWorkStep ==
  ASSUME AreaInv, [AreaNext]_areaVars
  PROVE  AreaContentOK' /\ AreaChildOK' /\ AreaAnswerOK'
<1> DEFINE Work == AreaContentOK /\ AreaChildOK /\ AreaAnswerOK
<1> USE DEF AreaInv, AreaContentOK, AreaChildOK, AreaAnswerOK, NoChild
<1>1. ASSUME NEW v \in Purges, Scan(v) PROVE Work'
  BY <1>1 DEF Scan
<1>2. ASSUME NEW row \in page.rows, Untick(row) PROVE Work'
  BY <1>2 DEF Untick
<1>3. ASSUME NEW v \in Purges, Purge(v) PROVE Work'
  <2>1. v < MaxVersion => v + 1 \in Purges
    BY AreaBoundsAssumption DEF Purges
  <2> QED
    BY <1>3, <2>1 DEF Purge, Keys
<1>4. CASE OpenAndRemove
  <2> DEFINE old == content[page.of]
             gone == Doomed(old, Keys)
  <2>1. child = [at |-> "read", of |-> page.of, keys |-> Keys] /\ old.whole
    BY <1>4 DEF OpenAndRemove
  <2>2. old \in AreaFiles /\ page.of + 1 \in Purges /\ page.of \in Purges
    BY <2>1 DEF Missing, Truncated, AreaPageOK
  <2>3. /\ child' = [at |-> "write", of |-> page.of, gone |-> gone,
                     source |-> old, model |-> Purged(old, gone)]
        /\ content' = [content EXCEPT ![page.of + 1] = Truncated]
        /\ UNCHANGED <<listed, page, replied>>
    BY <1>4, <2>1 DEF OpenAndRemove
  <2>4. content'[page.of] = old /\ Keys' = Keys /\ AreaContentOK'
    BY <2>2, <2>3 DEF Keys, Purges
  <2>5. Doomed(old, Keys)' = gone
    BY <2>3, <2>4 DEF Doomed
  <2>6. Purged(old, gone)' = Purged(old, gone)
    <3>1. old' = old /\ gone' = gone /\ listed' = listed
      BY <2>3, <2>4, <2>5
    <3>2. Pruned(old, gone)' = Pruned(old, gone)
      BY <3>1 DEF Pruned
    <3> HIDE DEF old, gone
    <3> QED
      BY <3>1, <3>2 DEF Purged
  <2> QED
    BY <2>1, <2>2, <2>3, <2>4, <2>5, <2>6
<1>5. CASE WriteOutput
  <2> DEFINE old == content[page.of]
             gone == Doomed(old, Keys)
  <2>1. /\ child = [at |-> "write", of |-> page.of, gone |-> gone,
                    source |-> old, model |-> Purged(old, gone)]
        /\ old \in AreaFiles /\ page.of + 1 \in Purges /\ page.of \in Purges
    BY <1>5 DEF WriteOutput, AreaPageOK
  <2>2. Purged(old, gone) \in AreaFiles
    BY <2>1, PurgedIsFile
  <2>3. /\ child' = [child EXCEPT !.at = "report"]
        /\ content' = [content EXCEPT ![page.of + 1] = Purged(old, gone)]
        /\ UNCHANGED <<listed, page, replied>>
    BY <1>5, <2>1 DEF WriteOutput
  <2>4. content'[page.of] = old /\ Keys' = Keys /\ AreaContentOK'
    <3>1. page.of + 1 # page.of
      BY <2>1 DEF Purges
    <3> QED
      BY <2>1, <2>2, <2>3, <3>1 DEF Keys
  <2>5. Doomed(old, Keys)' = gone
    BY <2>3, <2>4 DEF Doomed
  <2>6. Purged(old, gone)' = Purged(old, gone)
    <3>1. old' = old /\ gone' = gone /\ listed' = listed
      BY <2>3, <2>4, <2>5
    <3>2. Pruned(old, gone)' = Pruned(old, gone)
      BY <3>1 DEF Pruned
    <3> HIDE DEF old, gone
    <3> QED
      BY <3>1, <3>2 DEF Purged
  <2> QED
    BY <2>1, <2>3, <2>4, <2>5, <2>6
<1>6. CASE WriteReport
  <2> DEFINE old == content[page.of]
             gone == Doomed(old, Keys)
  <2>1. /\ child = [at |-> "report", of |-> page.of, gone |-> gone,
                    source |-> old, model |-> Purged(old, gone)]
        /\ old \in AreaFiles /\ content[page.of + 1] = Purged(old, gone)
    BY <1>6 DEF WriteReport
  <2>2. /\ child' = NoChild /\ replied' = IF old.area = {} THEN "ok" ELSE "error"
        /\ UNCHANGED <<content, listed, page>>
    BY <1>6, <2>1 DEF WriteReport
  <2>3. Purged(old, gone)' = Purged(old, gone) /\ Doomed(old, Keys)' = gone
    BY <2>2, PurgeUnchanged
  <2> QED
    BY <2>1, <2>2, <2>3
<1>7. CASE ChildDies
  BY <1>7 DEF ChildDies
<1>8. ASSUME NEW v \in Purges, Replace(v) PROVE Work'
  <2>1. PICK spaces \in SUBSET SpaceNumbers : \E f \in Contents(spaces) : content' = [content EXCEPT ![v] = f]
    BY <1>8 DEF Replace
  <2>2. AreaContentOK'
    BY <2>1, ContentsAreFiles
  <2> QED
    BY <1>8, <2>2 DEF Replace
<1>9. CASE UNCHANGED areaVars
  BY <1>9, PurgeUnchanged DEF areaVars, Keys
<1> QED
  BY <1>1, <1>2, <1>3, <1>4, <1>5, <1>6, <1>7, <1>8, <1>9 DEF AreaNext

(* The invariant is inductive, and holds in every reachable state.           *)
THEOREM AreaInvariance == AreaSpec => []AreaInv
<1>1. AreaInv /\ [AreaNext]_areaVars => AreaInv'
  BY AreaPageStep, AreaWorkStep DEF AreaInv
<1> QED
  BY AreaInitInv, <1>1, PTL DEF AreaSpec

(* A purge of nothing changes nothing.                                      *)
LEMMA PurgedNothing ==
  ASSUME NEW f \in AreaFiles
  PROVE  Purged(f, {}) = f
<1>1. PICK R \in SUBSET Relations : f.related \in [R -> SUBSET SpaceNumbers]
  BY DEF AreaFiles
<1>2. {r \in R : r \notin listed \/ f.related[r] = {} \/ ~(f.related[r] \subseteq {})} = R
  BY <1>1
<1>3. Pruned(f, {}) = [r \in R |-> f.related[r]]
  <2>1. \A r \in R : f.related[r] \ {} = f.related[r]
    BY <1>1
  <2>2. DOMAIN f.related = R
    BY <1>1
  <2> QED
    BY <1>2, <2>1, <2>2 DEF Pruned
<1>4. Pruned(f, {}) = f.related
  BY <1>1, <1>3
<1>5. /\ f.spaces \ {} = f.spaces /\ f.area \ {} = f.area /\ f.onLine \ {} = f.onLine
      /\ f.within \notin {}
  OBVIOUS
<1> QED
  BY <1>4, <1>5 DEF Purged, AreaFiles

(* What the worker writes lacks the ticked area spaces and what only they     *)
(* were related by, and nothing else, and a purge that is told to be         *)
(* complete had nothing to purge.                                           *)
THEOREM PurgesAreExact == AreaSpec => []PurgeIsExact
<1>1. ASSUME AreaInv PROVE PurgeIsExact
  <2> DEFINE old == content[page.of]
             made == content[page.of + 1]
             gone == {r.space : r \in page.ticked} \cap old.area
  <2>1. ASSUME child.at = "report", \A r \in page.ticked : r.by = "guid"
        PROVE  /\ made.whole /\ made.spaces = old.spaces \ gone
               /\ \A r \in DOMAIN old.related :
                    IF r \in listed /\ old.related[r] # {} /\ old.related[r] \subseteq gone
                    THEN r \notin DOMAIN made.related
                    ELSE made.related[r] = old.related[r] \ gone
    <3>1. \A r \in page.ticked : r.key = r.space
      BY <1>1, <2>1 DEF AreaInv, AreaPageOK
    <3>2. \A s : <<"guid", s>> \in Keys <=> \E r \in page.ticked : r.space = s
      BY <2>1, <3>1 DEF Keys
    <3>3. \A s : <<"step", s>> \notin Keys
      BY <2>1 DEF Keys
    <3>4. Doomed(old, Keys) = gone
      BY <3>2, <3>3 DEF Doomed
    <3>5. old \in AreaFiles /\ made = Purged(old, gone)
      BY <1>1, <2>1, <3>4 DEF AreaInv, AreaChildOK
    <3>6. old.whole
      BY <3>5 DEF AreaFiles
    <3> HIDE DEF old, made, gone
    <3>7. made.whole /\ made.spaces = old.spaces \ gone /\ made.related = Pruned(old, gone)
      BY <3>5, <3>6 DEF Purged, AreaFiles
    <3> QED
      BY <3>5, <3>7 DEF Pruned
  <2>2. ASSUME replied = "ok" PROVE old.area = {} /\ made = old
    <3>1. /\ old \in AreaFiles /\ old.area = {}
          /\ made = Purged(old, Doomed(old, Keys))
      BY <1>1, <2>2 DEF AreaInv, AreaAnswerOK
    <3>2. Doomed(old, Keys) = {}
      BY <3>1 DEF Doomed
    <3> QED
      BY <3>1, <3>2, PurgedNothing
  <2> QED
    BY <2>1, <2>2 DEF PurgeIsExact
<1> QED
  BY AreaInvariance, <1>1, PTL

-----------------------------------------------------------------------------
(***************************************************************************)
(* The types of things.                                                    *)
(***************************************************************************)

Typed == Objects \cup TypeObjects

TypedFiles ==
  [exists : {TRUE}, class : [Typed -> All], value : [Typed -> Words \cup {UserDefined, "unset"}],
   related : [Objects -> TypeObjects \cup {Unresolved}], legible : SUBSET TypeObjects,
   psets : SUBSET (Typed \X Classes \X Words)]

TablesOK == names \in TypeNames /\ literals \in Literals /\ element \in Occurrences

(* A type that is of the class its name resolves to, or of none, has a value *)
(* of its class, or what the rewriting writes when the name has none.       *)
Fits(f, o, t) ==
  /\ f.class[t] = Proxy => o.class[t] = Proxy
  /\ Has(f.class[t]) =>
       \/ f.value[t] \in literals[f.class[t]] \cup {"unset"}
       \/ /\ o.class[t] = Proxy /\ f.class[t] = names[t].class
          /\ f.value[t] = UserDefined /\ names[t].word \notin literals[f.class[t]]

(* Every variant is a file that has the uploaded one's relations, and values *)
(* of its classes.                                                         *)
VariantsOK ==
  /\ variants["uploaded"] \in TypedFiles
  /\ variants \in [Variants -> TypedFiles \cup {NoVariant}]
  /\ \A v \in Variants : variants[v].exists =>
       /\ variants[v].related = variants["uploaded"].related
       /\ variants[v].legible = variants["uploaded"].legible
       /\ \A t \in TypeObjects : Fits(variants[v], variants["uploaded"], t)

(* A proxy whose proxy type could be read follows it through every rewriting. *)
Follows(f, o, x) ==
  LET t == o.related[x]
  IN  t \in o.legible /\ o.class[x] = Proxy /\ o.class[t] = Proxy =>
        /\ f.class[t] = Proxy /\ names[t].class # Proxy => f.class[x] = Proxy
        /\ f.class[t] # Proxy => f.class[x] = element[f.class[t]]

ProxiesFollow ==
  \A v \in Variants, x \in Objects :
    variants[v].exists => Follows(variants[v], variants["uploaded"], x)

(* A row is of an object, and one that asks for a Pset knows the class that  *)
(* the name of the object's type resolves to.                               *)
RowsOK ==
  \A r \in ticked :
    /\ r.of \in Objects /\ r.target \in Typed
    /\ r.by \in {"literal", "pset"} /\ r.value \in Words \cup {UserDefined}
    /\ r.by = "pset" =>
         LET t == variants["uploaded"].related[r.of]
         IN  t \in TypeObjects /\ names[t].class \in Classes /\ r.value \in Words

TypeInv == TablesOK /\ VariantsOK /\ ProxiesFollow /\ RowsOK /\ reply \in {"none", "ok", "error"}

(* What the rewriting writes is a literal of the class, or USERDEFINED.      *)
LEMMA LiteralFits ==
  ASSUME NEW c, NEW word
  PROVE  \/ Literal(c, word) \in literals[c]
         \/ Literal(c, word) = UserDefined /\ word \notin literals[c]
BY DEF Literal

(* The initial state satisfies the invariant.                               *)
LEMMA TypeInitInv == TypeInit => TypeInv
<1> SUFFICES ASSUME NEW f \in IfcFiles, NEW n \in TypeNames, NEW l \in Literals,
                    NEW e \in Occurrences, NEW s, NEW t, TypeStart(f, n, l, e, s, t)
             PROVE  TypeInv
  BY DEF TypeInit
<1>1. f \in TypedFiles
  BY DEF IfcFiles, TypedFiles, Typed
<1>2. \A x \in Objects : Follows(f, f, x)
  BY <1>1 DEF Follows, TypedFiles, Typed
<1>3. /\ variants = [v \in Variants |-> IF v = "uploaded" THEN f ELSE NoVariant]
      /\ names = n /\ literals = l /\ element = e /\ ticked = {} /\ reply = "none"
      /\ \A x \in TypeObjects : Fits(f, f, x)
  BY DEF TypeStart, InSchema, Fits
<1>4. NoVariant.exists = FALSE /\ "uploaded" \in Variants
  BY DEF NoVariant, Variants
<1> QED
  BY <1>1, <1>2, <1>3, <1>4 DEF TypeInv, TablesOK, VariantsOK, ProxiesFollow, RowsOK

(* Rewriting keeps a file a file, with its relations, and types that fit.    *)
LEMMA RewrittenFits ==
  ASSUME TablesOK, NEW f \in TypedFiles, NEW o, \A t \in TypeObjects : Fits(f, o, t)
  PROVE  /\ Rewritten(f) \in TypedFiles
         /\ Rewritten(f).related = f.related /\ Rewritten(f).legible = f.legible
         /\ \A t \in TypeObjects : Fits(Rewritten(f), o, t)
<1> DEFINE g == Rewritten(f)
           cl(x) == IF x \in Converted(f) THEN names[x].class
                    ELSE IF x \in Retyped(f) THEN element[names[f.related[x]].class] ELSE f.class[x]
           val(x) == IF x \in Converted(f) THEN Literal(names[x].class, names[x].word) ELSE f.value[x]
<1>1. g = [f EXCEPT !.class = [x \in Typed |-> cl(x)], !.value = [x \in Typed |-> val(x)]]
  BY DEF Rewritten, Typed
<1>2. \A x \in Converted(f) : x \in TypeObjects /\ names[x].class \in Classes /\ names[x].word \in Words
  BY DEF Converted, TablesOK, TypeNames
<1>3. \A x \in Retyped(f) : x \in Objects /\ f.related[x] \in Converted(f)
  BY DEF Retyped
<1>4. \A x \in Typed : cl(x) \in All
  BY <1>2, <1>3 DEF TypedFiles, All, TablesOK, Occurrences
<1>5. \A x \in Typed : val(x) \in Words \cup {UserDefined, "unset"}
  BY <1>2 DEF TypedFiles, Literal
<1> HIDE DEF cl, val, g
<1>6. g \in TypedFiles /\ g.related = f.related /\ g.legible = f.legible
      /\ g.class = [x \in Typed |-> cl(x)] /\ g.value = [x \in Typed |-> val(x)]
  BY <1>1, <1>4, <1>5 DEF TypedFiles
<1>7. ASSUME NEW t \in TypeObjects
      PROVE  Fits(g, o, t)
  <2>1. t \in Typed /\ t \notin Objects /\ g.class[t] = cl(t) /\ g.value[t] = val(t)
    BY <1>6, ObjectsAreNotTypes DEF Typed
  <2>2. CASE t \in Converted(f)
    <3>1. cl(t) = names[t].class /\ val(t) = Literal(names[t].class, names[t].word)
      BY <2>2 DEF cl, val
    <3>2. o.class[t] = Proxy
      BY <2>2 DEF Converted, Fits
    <3> QED
      BY <2>1, <3>1, <3>2, LiteralFits DEF Fits
  <2>3. CASE t \notin Converted(f)
    <3>1. cl(t) = f.class[t] /\ val(t) = f.value[t]
      BY <1>3, <2>1, <2>3 DEF cl, val
    <3> QED
      BY <2>1, <3>1 DEF Fits
  <2> QED
    BY <2>2, <2>3
<1> QED
  BY <1>6, <1>7 DEF g

(* ... and when its class follows its type, it follows it still.             *)
LEMMA RewrittenFollows ==
  ASSUME TablesOK, NEW o \in TypedFiles, NEW f \in TypedFiles, f.related = o.related,
         f.legible = o.legible, NEW x \in Objects, Follows(f, o, x)
  PROVE  Follows(Rewritten(f), o, x)
<1> DEFINE g == Rewritten(f)
           t == o.related[x]
<1> SUFFICES ASSUME t \in o.legible, o.class[x] = Proxy, o.class[t] = Proxy
             PROVE  /\ g.class[t] = Proxy /\ names[t].class # Proxy => g.class[x] = Proxy
                    /\ g.class[t] # Proxy => g.class[x] = element[g.class[t]]
  BY DEF Follows
<1>1. /\ t \in TypeObjects /\ t \notin Objects /\ x \notin TypeObjects
      /\ x \in Typed /\ t \in Typed
      /\ f.class[t] = Proxy /\ names[t].class # Proxy => f.class[x] = Proxy
      /\ f.class[t] # Proxy => f.class[x] = element[f.class[t]]
      /\ f.related[x] = t /\ t \in f.legible
  BY ObjectsAreNotTypes DEF Follows, TypedFiles, Typed
<1>2. \A y \in Typed :
        g.class[y] = IF y \in Converted(f) THEN names[y].class
                     ELSE IF y \in Retyped(f) THEN element[names[f.related[y]].class]
                     ELSE f.class[y]
  BY DEF Rewritten, TypedFiles, Typed
<1>3. x \notin Converted(f) /\ t \notin Retyped(f)
  BY <1>1 DEF Converted, Retyped
<1>4. /\ g.class[t] = IF t \in Converted(f) THEN names[t].class ELSE f.class[t]
      /\ g.class[x] = IF x \in Retyped(f) THEN element[names[t].class] ELSE f.class[x]
  BY <1>1, <1>2, <1>3
<1>5. x \in Retyped(f) <=> t \in Converted(f) /\ f.class[x] = Proxy
  BY <1>1 DEF Retyped
<1>6. t \in Converted(f) => f.class[t] = Proxy
  BY DEF Converted
<1> HIDE DEF g, t
<1> QED
  BY <1>1, <1>4, <1>5, <1>6

(* Changing the files: a rewriting.                                         *)
LEMMA RewriteStep ==
  ASSUME TypeInv, NEW v \in Variants, Rewrite(v)
  PROVE  TypeInv'
<1> DEFINE f == variants[v]
           g == Rewritten(f)
<1> DEFINE o == variants["uploaded"]
<1>1. f \in TypedFiles /\ (\A t \in TypeObjects : Fits(f, o, t)) /\ TablesOK
  BY DEF TypeInv, VariantsOK, NoVariant, Rewrite
<1>2. /\ g \in TypedFiles /\ g.related = f.related /\ g.legible = f.legible
      /\ \A t \in TypeObjects : Fits(g, o, t)
  BY <1>1, RewrittenFits
<1>3. \A x \in Objects : Follows(g, variants["uploaded"], x)
  BY <1>1, RewrittenFollows DEF TypeInv, VariantsOK, ProxiesFollow, Rewrite
<1>4. /\ variants' = [variants EXCEPT !["typed"] = g]
      /\ UNCHANGED <<names, literals, element, ticked>> /\ reply' = "ok"
  BY DEF Rewrite
<1>5. /\ f.related = variants["uploaded"].related /\ f.legible = variants["uploaded"].legible
  BY DEF TypeInv, VariantsOK, Rewrite
<1> HIDE DEF f, g
<1>6. VariantsOK' /\ variants'["uploaded"] = variants["uploaded"]
  BY <1>2, <1>4, <1>5 DEF TypeInv, VariantsOK, Fits, Has, Variants
<1>7. ASSUME NEW w \in Variants, NEW x \in Objects, variants'[w].exists
      PROVE  Follows(variants[w], variants["uploaded"], x)'
  <2>1. variants'[w] = g \/ (variants'[w] = variants[w] /\ variants[w].exists)
    BY <1>4, <1>7 DEF TypeInv, VariantsOK, Variants
  <2>2. Follows(variants'[w], o, x)
    BY <1>3, <2>1 DEF TypeInv, ProxiesFollow
  <2> QED
    BY <1>4, <1>6, <2>2 DEF Follows
<1>8. RowsOK' /\ TablesOK'
  BY <1>4, <1>6 DEF TypeInv, RowsOK, TablesOK
<1> QED
  BY <1>4, <1>6, <1>7, <1>8 DEF TypeInv, ProxiesFollow

(* Reading them: the rows of a scan are of the objects scanned.              *)
LEMMA ScanStep ==
  ASSUME TypeInv, NEW v \in Variants, ScanTypes(v)
  PROVE  TypeInv'
<1> DEFINE f == variants[v]
<1>1. f \in TypedFiles /\ TablesOK /\ f.related = variants["uploaded"].related
  BY DEF TypeInv, VariantsOK, NoVariant, ScanTypes
<1>2. ASSUME NEW x \in Objects, NEW target \in Typed
      PROVE  LET r == Proposed(f, x, target)
                 t == f.related[x]
             IN  /\ r.of = x /\ r.target = target
                 /\ r.by \in {"literal", "pset"} /\ r.value \in Words \cup {UserDefined}
                 /\ r.by = "pset" =>
                      t \in TypeObjects /\ names[t].class \in Classes /\ r.value \in Words
  <2> DEFINE t == f.related[x]
             literal(value) == [of |-> x, target |-> target, by |-> "literal", value |-> value]
  <2>1. CASE t = Unresolved \/ names[t].class = Unresolved
    <3>1. Proposed(f, x, target) = literal(UserDefined)
      BY <2>1 DEF Proposed
    <3> QED
      BY <3>1
  <2>2. CASE ~(t = Unresolved \/ names[t].class = Unresolved)
    <3>1. t \in TypeObjects
      BY <1>1, <2>2 DEF TypedFiles
    <3>2. names[t].class \in Classes /\ names[t].word \in Words
      BY <1>1, <2>2, <3>1 DEF TablesOK, TypeNames
    <3>3. Proposed(f, x, target) \in
            {literal(names[t].word), literal(UserDefined), [literal(names[t].word) EXCEPT !.by = "pset"]}
      BY <2>2 DEF Proposed
    <3> QED
      BY <3>1, <3>2, <3>3
  <2> QED
    BY <2>1, <2>2
<1>3. \A r \in ticked' : \E x \in Objects, target \in Typed : r = Proposed(f, x, target)
  BY DEF ScanTypes, Typed
<1>4. UNCHANGED <<variants, names, literals, element>> /\ reply' = "none"
  BY DEF ScanTypes
<1>5. RowsOK'
  BY <1>1, <1>2, <1>3, <1>4 DEF RowsOK
<1> QED
  BY <1>4, <1>5 DEF TypeInv, TablesOK, VariantsOK, ProxiesFollow, Follows, Fits, Has

(* Changing the values: only to those of the class.                         *)
LEMMA ApplyStep ==
  ASSUME TypeInv, NEW v \in Variants, ApplyTypes(v)
  PROVE  TypeInv'
<1> DEFINE f == variants[v]
           literal == {r \in ticked : r.by = "literal" /\ Has(f.class[r.target])}
           targets == {r.target : r \in literal}
           psets == {<<r.target, names[f.related[r.of]].class, r.value>> :
                       r \in ticked \ {s \in ticked : s.by = "literal"}}
<1>1. f.exists /\ UNCHANGED <<names, literals, element, ticked>> /\ reply' \in {"ok", "error"}
  BY DEF ApplyTypes
<1>a. \A t \in TypeObjects : Fits(f, variants["uploaded"], t)
  BY <1>1 DEF TypeInv, VariantsOK
<1>2. /\ f \in TypedFiles /\ TablesOK
      /\ f.related = variants["uploaded"].related /\ f.legible = variants["uploaded"].legible
  BY <1>1 DEF TypeInv, VariantsOK, NoVariant
<1>3. CASE UNCHANGED variants
  BY <1>1, <1>3 DEF TypeInv, TablesOK, VariantsOK, ProxiesFollow, Follows, Fits, Has, RowsOK
<1>4. CASE ~UNCHANGED variants
  <2>1. PICK last \in [targets -> literal] :
          /\ \A r \in literal : r.value \in literals[f.class[r.target]] \cup {f.value[r.target]}
          /\ \A t \in targets : last[t].target = t
          /\ variants' = [variants EXCEPT !["predefined"] =
               [f EXCEPT !.value = [x \in Objects \cup TypeObjects |-> IF x \in targets THEN last[x].value ELSE @[x]],
                         !.psets = @ \cup psets]]
    BY <1>4 DEF ApplyTypes
  <2> DEFINE val == [x \in Typed |-> IF x \in targets THEN last[x].value ELSE f.value[x]]
             g == [f EXCEPT !.value = val, !.psets = @ \cup psets]
  <2>2. variants' = [variants EXCEPT !["predefined"] = g]
    BY <2>1 DEF Typed
  <2>3. psets \subseteq Typed \X Classes \X Words
    BY <1>2 DEF TypeInv, RowsOK
  <2>4. val \in [Typed -> Words \cup {UserDefined, "unset"}]
    BY <1>2 DEF TypeInv, RowsOK, TypedFiles
  <2>5. \A t \in targets : last[t].value \in literals[f.class[t]] \/ last[t].value = f.value[t]
    BY <2>1
  <2>6. /\ g \in TypedFiles /\ g.related = f.related /\ g.legible = f.legible
        /\ g.class = f.class /\ g.value = val
    <3> HIDE DEF val, psets, f
    <3> QED
      BY <1>2, <2>3, <2>4 DEF TypedFiles
  <2>7. \A t \in TypeObjects : Fits(g, variants["uploaded"], t)
    <3> TAKE t \in TypeObjects
    <3>1. g.value[t] = IF t \in targets THEN last[t].value ELSE f.value[t]
      BY <2>6 DEF Typed
    <3>2. g.value[t] \in literals[f.class[t]] \/ g.value[t] = f.value[t]
      BY <2>5, <3>1
    <3>3. Fits(f, variants["uploaded"], t) /\ g.class = f.class
      BY <1>a, <2>6
    <3> HIDE DEF g, f
    <3> QED
      BY <3>2, <3>3 DEF Fits
  <2> HIDE DEF g, f, psets, targets, literal, val
  <2>8. VariantsOK' /\ variants'["uploaded"] = variants["uploaded"]
    BY <1>1, <1>2, <2>2, <2>6, <2>7 DEF TypeInv, VariantsOK, Fits, Has, Variants
  <2>9. \A x \in Objects : Follows(g, variants["uploaded"], x)
    BY <1>1, <2>6 DEF TypeInv, ProxiesFollow, Follows, f
  <2>10. ASSUME NEW w \in Variants, NEW x \in Objects, variants'[w].exists
         PROVE  Follows(variants[w], variants["uploaded"], x)'
    <3>1. variants'[w] = g \/ (variants'[w] = variants[w] /\ variants[w].exists)
      BY <2>2, <2>10 DEF TypeInv, VariantsOK, Variants
    <3>2. Follows(variants'[w], variants["uploaded"], x)
      BY <2>9, <3>1 DEF TypeInv, ProxiesFollow
    <3> QED
      BY <1>1, <2>8, <3>2 DEF Follows
  <2>11. RowsOK' /\ TablesOK'
    BY <1>1, <2>8 DEF TypeInv, RowsOK, TablesOK
  <2> QED
    BY <1>1, <2>8, <2>10, <2>11 DEF TypeInv, ProxiesFollow
<1> QED
  BY <1>3, <1>4

(* The invariant is inductive, and holds in every reachable state.           *)
THEOREM TypeInvariance == TypeEditsSpec => []TypeInv
<1>1. TypeInv /\ [TypeEditsNext]_typeVars => TypeInv'
  <2> SUFFICES ASSUME TypeInv, [TypeEditsNext]_typeVars PROVE TypeInv'
    OBVIOUS
  <2>1. ASSUME NEW r \in ticked, UntickRow(r) PROVE TypeInv'
    BY <2>1 DEF UntickRow, TypeInv, TablesOK, VariantsOK, ProxiesFollow, Follows, Fits, Has, RowsOK
  <2>2. CASE UNCHANGED typeVars
    BY <2>2 DEF typeVars, TypeInv, TablesOK, VariantsOK, ProxiesFollow, Follows, Fits, Has, RowsOK
  <2> QED
    BY <2>1, <2>2, RewriteStep, ScanStep, ApplyStep DEF TypeEditsNext
<1> QED
  BY TypeInitInv, <1>1, PTL DEF TypeEditsSpec

(* Whatever is rewritten, scanned and applied to which file, a type has a    *)
(* value its class defines, unless it was converted to one that lacks its    *)
(* name's, and a proxy whose type was converted is of the class for it.      *)
THEOREM TypesAreKept == TypeEditsSpec => []ThingsFitTheirTypes
<1>1. ASSUME TypeInv, NEW v \in Variants, variants[v].exists
      PROVE  LET f == variants[v]
                 converted == {t \in TypeObjects :
                                 variants["uploaded"].class[t] = Proxy /\ f.class[t] = names[t].class}
             IN  /\ \A t \in TypeObjects : Has(f.class[t]) =>
                      \/ f.value[t] \in literals[f.class[t]] \cup {"unset"}
                      \/ /\ t \in converted /\ f.value[t] = UserDefined
                         /\ names[t].word \notin literals[f.class[t]]
                 /\ \A x \in Objects :
                      (/\ variants["uploaded"].class[x] = Proxy
                       /\ f.related[x] \in converted \cap f.legible /\ f.class[f.related[x]] # Proxy)
                        => f.class[x] = element[f.class[f.related[x]]]
  <2> DEFINE f == variants[v]
             o == variants["uploaded"]
  <2>1. /\ f.related = o.related /\ f.legible = o.legible
        /\ \A t \in TypeObjects : Fits(f, o, t)
    BY <1>1 DEF TypeInv, VariantsOK
  <2>2. \A x \in Objects : Follows(f, o, x)
    BY <1>1 DEF TypeInv, ProxiesFollow
  <2> HIDE DEF f, o
  <2>3. \A x \in Objects :
          (/\ o.class[x] = Proxy /\ f.related[x] \in f.legible
           /\ o.class[f.related[x]] = Proxy /\ f.class[f.related[x]] # Proxy)
            => f.class[x] = element[f.class[f.related[x]]]
    <3> TAKE x \in Objects
    <3>1. f.related[x] = o.related[x] /\ f.legible = o.legible
      BY <2>1
    <3> QED
      BY <2>2, <3>1 DEF Follows
  <2>4. \A t \in TypeObjects : Has(f.class[t]) =>
          \/ f.value[t] \in literals[f.class[t]] \cup {"unset"}
          \/ /\ o.class[t] = Proxy /\ f.class[t] = names[t].class /\ f.value[t] = UserDefined
             /\ names[t].word \notin literals[f.class[t]]
    BY <2>1 DEF Fits
  <2> QED
    BY <2>3, <2>4 DEF f, o
<1>2. TypeInv => ThingsFitTheirTypes
  BY <1>1 DEF ThingsFitTheirTypes
<1> QED
  BY TypeInvariance, <1>2, PTL

-----------------------------------------------------------------------------
(***************************************************************************)
(* The levels of an IFC file.                                              *)
(***************************************************************************)

(* A file whose things are on levels it has.                                 *)
LevelModels ==
  [levels : SUBSET Levels, elevation : [Levels -> Int], holds : [Things -> SUBSET Levels],
   parent : [Spaces -> Levels \cup {"none"}], filled : SUBSET Levels, height : [Things -> Int]]

LevelModel(f) ==
  /\ f \in LevelModels
  /\ \A x \in Things : f.holds[x] \subseteq f.levels
  /\ \A x \in Spaces : f.parent[x] \in f.levels \cup {"none"}

(* What the actions say of an element: one leaves it behind, one edits       *)
(* elevations, one concerns what is on the levels given.                     *)
Leaves(a, x) == a.kind = "delete" /\ a.objects # {} /\ x \notin a.objects
Concerns(a, x, levels) ==
  \/ a.kind = "add" /\ x \in a.objects
  \/ a.kind \in {"delete", "reassign"} /\ a.of \in levels

(* The first k actions of q have made f of the file o: each element is on    *)
(* one level, unless they say otherwise, and has gone by the difference of   *)
(* the levels if its point is its own.                                       *)
Carried(o, q, k, f, pairs) ==
  \A x \in Things \ Spaces :
    /\ (\A i \in 1..k : ~Leaves(q[i], x)) =>
         \E s \in f.levels :
           /\ f.holds[x] = {s}
           /\ (pairs[x] = x /\ \A i \in 1..k : q[i].kind # "update") =>
                \A t \in o.holds[x] : f.height[x] + f.elevation[s] = o.height[x] + o.elevation[t]
    /\ (\A i \in 1..k : ~Concerns(q[i], x, o.holds[x])) =>
         f.holds[x] = o.holds[x] /\ (pairs[x] = x => f.height[x] = o.height[x])

BatchTypes ==
  /\ batch \in [Pages -> [at : {"queueing", "read", "write", "copy", "ok", "error"}, next : Nat \ {0},
                         model : LevelModels \cup {NoModel}]]
  /\ queue \in [Pages -> Seq(Offered)]
  /\ alone \in [Pages -> BOOLEAN]
  /\ settable \in BOOLEAN
  /\ twin \in Twins

FileTypes ==
  /\ LevelModel(original) /\ original.levels = Storeys
  /\ \A x \in Things \ Spaces : \E s \in original.levels : original.holds[x] = {s}
  /\ workFile = NoModel \/ LevelModel(workFile)
  /\ batchFile = NoModel \/ LevelModel(batchFile)

(* Where a batch is, and that what it reads and writes is there.             *)
BatchInOrder ==
  \A p \in Pages :
    /\ batch[p].at \in {"queueing", "error"} => batch[p].next <= Len(queue[p]) + 1
    /\ batch[p].at \in {"read", "write"} => batch[p].next <= Len(queue[p])
    /\ batch[p].at \in {"copy", "ok"} => batch[p].next = Len(queue[p]) + 1
    /\ batch[p].at = "write" => LevelModel(batch[p].model)
    /\ batch[p].at \in {"read", "copy"} /\ batch[p].next # 1 => LevelModel(workFile)
    /\ batch[p].at = "ok" => LevelModel(batchFile)
    /\ batch[p].at = "copy" => batch[p].next # 1

(* An undisturbed batch finds the files as it left them.                     *)
BatchIsCarried ==
  \A p \in Pages :
    alone[p] =>
      /\ Running \subseteq {p}
      /\ batch[p].at = "read" =>
           Carried(original, queue[p], batch[p].next - 1,
                   IF batch[p].next = 1 THEN original ELSE workFile, twin)
      /\ batch[p].at = "write" => Carried(original, queue[p], batch[p].next, batch[p].model, twin)
      /\ batch[p].at = "copy" => Carried(original, queue[p], Len(queue[p]), workFile, twin)
      /\ batch[p].at = "ok" => Carried(original, queue[p], Len(queue[p]), batchFile, twin)

LevelInv == BatchTypes /\ FileTypes /\ BatchInOrder /\ BatchIsCarried

LEMMA OfferedActions ==
  ASSUME NEW a \in Offered
  PROVE  /\ a.kind \in {"update", "delete", "add", "reassign"}
         /\ a.kind = "update" => a.of \in Storeys /\ a.elevation = MaxHeight
         /\ a.kind = "add" => a.elevation = MaxHeight /\ a.objects \subseteq Things
         /\ a.kind \in {"delete", "reassign"} =>
              a.of \in Storeys /\ a.to \in Storeys /\ a.of # a.to /\ a.objects \subseteq Things
<1>1. CASE a \in [kind : {"update"}, of : Storeys, elevation : {MaxHeight}]
  BY <1>1
<1>2. CASE a \in [kind : {"delete", "reassign"}, of : Storeys, to : Storeys, objects : SUBSET Things]
           /\ a.of # a.to
  BY <1>2
<1>3. CASE a \in [kind : {"add"}, elevation : {MaxHeight}, objects : SUBSET Things]
  BY <1>3
<1>4. QED
  BY <1>1, <1>2, <1>3 DEF Offered

(* Heights go by what is said of a thing, whose point nothing shares.         *)
LEMMA AdjustedHeights ==
  ASSUME NEW f, f \in LevelModels, NEW by \in [Things -> Int], twin \in Twins
  PROVE  /\ Adjusted(f, by) \in [Things -> Int]
         /\ \A x \in Things : twin[x] = x => Adjusted(f, by)[x] = f.height[x] + by[x]
<1>1. f.height \in [Things -> Int]
  BY DEF LevelModels
<1>2. \A x \in Things : twin[x] \in Things /\ f.height[x] \in Int /\ by[x] \in Int /\ by[twin[x]] \in Int
  BY <1>1 DEF Twins
<1>3. QED
  BY <1>2 DEF Adjusted

LEMMA ShiftedHeights ==
  ASSUME NEW f, f \in LevelModels, NEW C, NEW from \in Levels, NEW to \in Levels, twin \in Twins
  PROVE  /\ Shifted(f, C, from, to) \in [Things -> Int]
         /\ \A x \in Things : twin[x] = x =>
              /\ x \in C => Shifted(f, C, from, to)[x] = f.height[x] + f.elevation[from] - f.elevation[to]
              /\ x \notin C => Shifted(f, C, from, to)[x] = f.height[x]
<1> DEFINE by == [x \in Things |-> IF x \in C THEN f.elevation[from] - f.elevation[to] ELSE 0]
<1>1. f.elevation[from] \in Int /\ f.elevation[to] \in Int /\ f.height \in [Things -> Int]
  BY DEF LevelModels
<1>2. by \in [Things -> Int]
  BY <1>1
<1>3. \A x \in Things : /\ x \in C => by[x] = f.elevation[from] - f.elevation[to]
                        /\ x \notin C => by[x] = 0
  OBVIOUS
<1>4. Shifted(f, C, from, to) = Adjusted(f, by)
  BY DEF Shifted
<1> HIDE DEF by
<1>5. QED
  BY <1>1, <1>2, <1>3, <1>4, AdjustedHeights

(* What a reassignment makes of a file: nothing else than this changes.      *)
LEMMA ReassignedFile ==
  ASSUME twin \in Twins, NEW f, LevelModel(f), NEW a, a.of \in Levels, a.to \in Levels, NEW g \in Reassigned(f, a)
  PROVE  /\ g \in LevelModels /\ a.of \in f.levels /\ a.to \in f.levels
         /\ g.levels = f.levels /\ g.elevation = f.elevation /\ g.parent = f.parent
         /\ g.holds = [x \in Things |-> IF x \in Chosen(f, a.of, a.objects)
                                        THEN (f.holds[x] \ {a.of}) \cup {a.to} ELSE f.holds[x]]
         /\ g.height = Shifted(f, Chosen(f, a.of, a.objects), a.of, a.to)
<1> DEFINE C == Chosen(f, a.of, a.objects)
           Holds == [x \in Things |-> IF x \in C THEN (f.holds[x] \ {a.of}) \cup {a.to} ELSE f.holds[x]]
           Height == Shifted(f, C, a.of, a.to)
<1>1. f \in LevelModels
  BY DEF LevelModel
<1>2. a.of \in f.levels /\ a.to \in f.levels
  BY DEF Reassigned
<1>3. PICK h \in Moved(f, C, a.of, a.to) : g = Cleaned(h, a.of)
  BY <1>2 DEF Reassigned
<1>4. h = [f EXCEPT !.holds = Holds, !.height = Height, !.filled = @ \cup {a.to}]
  BY <1>3 DEF Moved
<1>5. Holds \in [Things -> SUBSET Levels]
  BY <1>1 DEF LevelModels
<1>6. Height \in [Things -> Int]
  BY <1>1, <1>2, ShiftedHeights DEF LevelModels
<1> HIDE DEF Holds, Height, C
<1>7. /\ h \in LevelModels /\ h.levels = f.levels /\ h.elevation = f.elevation
      /\ h.parent = f.parent /\ h.holds = Holds /\ h.height = Height
  BY <1>1, <1>4, <1>5, <1>6 DEF LevelModels
<1>8. PICK F \in SUBSET Levels : g = [h EXCEPT !.filled = F]
  <2>1. g = [h EXCEPT !.filled = IF settable /\ \A x \in Things : a.of \notin h.holds[x]
                                 THEN @ \ {a.of} ELSE @]
    BY <1>3 DEF Cleaned
  <2>2. h.filled \in SUBSET Levels /\ h.filled \ {a.of} \in SUBSET Levels
    BY <1>7 DEF LevelModels
  <2>3. CASE settable /\ \A x \in Things : a.of \notin h.holds[x]
    BY <2>1, <2>2, <2>3
  <2>4. CASE ~(settable /\ \A x \in Things : a.of \notin h.holds[x])
    BY <2>1, <2>2, <2>4
  <2>5. QED
    BY <2>3, <2>4
<1>9. /\ g \in LevelModels /\ g.levels = h.levels /\ g.elevation = h.elevation
      /\ g.parent = h.parent /\ g.holds = h.holds /\ g.height = h.height
  BY <1>7, <1>8 DEF LevelModels
<1>10. QED
  BY <1>2, <1>7, <1>9 DEF Holds, Height, C

LEMMA DeletedFile ==
  ASSUME twin \in Twins, NEW f, LevelModel(f), NEW a, a.of \in Levels, a.to \in Levels, NEW h \in Deleted(f, a)
  PROVE  \E g \in Reassigned(f, a) :
           /\ h \in LevelModels
           /\ h.levels = g.levels \ {a.of} /\ h.elevation = g.elevation
           /\ h.holds = [x \in Things |-> g.holds[x] \ {a.of}]
           /\ h.parent = [x \in Spaces |-> IF g.parent[x] = a.of THEN "none" ELSE g.parent[x]]
           /\ h.height = g.height
<1>1. PICK g \in Reassigned(f, a) :
        h = [g EXCEPT !.levels = @ \ {a.of},
                      !.holds = [x \in Things |-> @[x] \ {a.of}],
                      !.parent = [x \in Spaces |-> IF @[x] = a.of THEN "none" ELSE @[x]],
                      !.filled = @ \ {a.of}]
  BY DEF Deleted
<1>2. g \in LevelModels
  BY ReassignedFile
<1> DEFINE Holds == [x \in Things |-> g.holds[x] \ {a.of}]
           Parent == [x \in Spaces |-> IF g.parent[x] = a.of THEN "none" ELSE g.parent[x]]
<1>3. Holds \in [Things -> SUBSET Levels] /\ Parent \in [Spaces -> Levels \cup {"none"}]
  BY <1>2 DEF LevelModels
<1>4. h = [g EXCEPT !.levels = @ \ {a.of}, !.holds = Holds, !.parent = Parent, !.filled = @ \ {a.of}]
  BY <1>1
<1> HIDE DEF Holds, Parent
<1>5. /\ h \in LevelModels /\ h.levels = g.levels \ {a.of} /\ h.elevation = g.elevation
      /\ h.holds = Holds /\ h.parent = Parent /\ h.height = g.height
  BY <1>2, <1>3, <1>4 DEF LevelModels
<1>6. QED
  BY <1>5 DEF Holds, Parent

(* What an added level makes of a file; things come from their first level.  *)
AddsLevel(f, a, h, new) ==
  /\ new \notin f.levels /\ h \in LevelModels /\ h.levels = f.levels \cup {new}
  /\ h.elevation[new] = a.elevation /\ h.parent = f.parent
  /\ \A s \in f.levels : h.elevation[s] = f.elevation[s]
  /\ h.holds = [x \in Things |-> IF x \in a.objects THEN {new} ELSE f.holds[x]]
  /\ \A x \in Things \ a.objects : twin[x] = x => h.height[x] = f.height[x]
  /\ \A x \in a.objects : twin[x] = x /\ f.holds[x] # {} =>
       \E s \in f.holds[x] : h.height[x] = f.height[x] + f.elevation[s] - a.elevation

LEMMA AddedFile ==
  ASSUME twin \in Twins, NEW f, LevelModel(f), NEW a, a.objects \subseteq Things, a.elevation \in Int,
         NEW h \in Added(f, a)
  PROVE  \E new \in NewLevels : AddsLevel(f, a, h, new)
<1> DEFINE new == CHOOSE s \in NewLevels : s \notin f.levels
           g == [f EXCEPT !.levels = @ \cup {new}, !.elevation[new] = a.elevation]
           Holds == [x \in Things |-> IF x \in a.objects THEN {new} ELSE f.holds[x]]
           By(o) == [x \in Things |-> IF x \in a.objects /\ o[x] # "none"
                                      THEN f.elevation[o[x]] - a.elevation ELSE 0]
           Height(o) == Adjusted(f, By(o))
           Origins == {o \in [a.objects -> f.levels \cup {"none"}] :
                         \A x \in a.objects : IF f.holds[x] = {} THEN o[x] = "none"
                                              ELSE o[x] \in f.holds[x]}
<1>1. f \in LevelModels /\ \A x \in Things : f.holds[x] \subseteq f.levels
  BY DEF LevelModel
<1>2. new \in NewLevels /\ new \notin f.levels /\ new \in Levels
  BY DEF Added, Levels
<1> HIDE DEF new
<1>3. /\ g \in LevelModels /\ g.levels = f.levels \cup {new}
      /\ g.elevation[new] = a.elevation /\ g.parent = f.parent
      /\ \A s \in f.levels : g.elevation[s] = f.elevation[s]
      /\ g.holds = f.holds /\ g.height = f.height /\ g.filled = f.filled
  BY <1>1, <1>2 DEF LevelModels
<1> HIDE DEF g
<1> USE DEF AddsLevel
<1>4. CASE a.objects = {}
  <2>1. h = g
    BY <1>4 DEF Added, new, g
  <2>2. Holds = f.holds
    BY <1>1, <1>4 DEF LevelModels
  <2>3. QED
    BY <1>2, <1>3, <1>4, <2>1, <2>2
<1>5. CASE a.objects # {}
  <2>1. PICK o \in Origins :
           h = [g EXCEPT !.holds = [x \in Things |-> IF x \in a.objects THEN {new} ELSE @[x]],
                         !.height = Adjusted(f, [x \in Things |->
                            IF x \in a.objects /\ o[x] # "none"
                            THEN f.elevation[o[x]] - a.elevation ELSE 0]),
                         !.filled = @ \cup {new}]
    BY <1>5 DEF Added, new, g
  <2>2. h = [g EXCEPT !.holds = Holds, !.height = Height(o), !.filled = @ \cup {new}]
    BY <1>3, <2>1
  <2>3. Holds \in [Things -> SUBSET Levels]
    BY <1>1, <1>2 DEF LevelModels
  <2>4. By(o) \in [Things -> Int]
    <3>1. \A x \in a.objects : o[x] # "none" => o[x] \in Levels
      BY <1>1 DEF LevelModels
    <3>2. QED
      BY <1>1, <3>1 DEF LevelModels
  <2>9. /\ Height(o) \in [Things -> Int]
        /\ \A x \in Things : twin[x] = x => Height(o)[x] = f.height[x] + By(o)[x]
    <3> HIDE DEF By
    <3>1. QED
      BY <1>1, <2>4, AdjustedHeights
  <2> HIDE DEF Holds, Height, By
  <2>5. /\ h \in LevelModels /\ h.levels = g.levels /\ h.elevation = g.elevation
        /\ h.parent = g.parent /\ h.holds = Holds /\ h.height = Height(o)
    BY <1>2, <1>3, <2>2, <2>3, <2>9 DEF LevelModels
  <2>6. ASSUME NEW x \in Things \ a.objects, twin[x] = x
        PROVE  h.height[x] = f.height[x]
    <3>1. By(o)[x] = 0 /\ f.height[x] \in Int
      BY <1>1 DEF By, LevelModels
    <3>2. QED
      BY <2>5, <2>6, <2>9, <3>1
  <2>7. ASSUME NEW x \in a.objects, twin[x] = x, f.holds[x] # {}
        PROVE  \E s \in f.holds[x] : h.height[x] = f.height[x] + f.elevation[s] - a.elevation
    <3>1. o[x] \in f.holds[x] /\ o[x] \in f.levels /\ x \in Things
      BY <1>1, <2>7
    <3>2. o[x] # "none"
      BY <1>1, <3>1, LevelAssumption DEF LevelModels, Levels
    <3>3. By(o)[x] = f.elevation[o[x]] - a.elevation
      BY <3>1, <3>2 DEF By
    <3>4. f.height[x] \in Int /\ f.elevation[o[x]] \in Int
      BY <1>1, <3>1 DEF LevelModels
    <3>5. QED
      BY <2>5, <2>7, <2>9, <3>1, <3>3, <3>4
  <2>8. QED
    BY <1>2, <1>3, <2>5, <2>6, <2>7, ZenonT(60) DEF Holds
<1>6. QED
  BY <1>4, <1>5

(* What every action does to an element: it stays on one level, unless it is *)
(* left behind, and on the same one unless it is concerned.                  *)
CarriesOver(f, a, g) ==
  \A x \in Things \ Spaces, s \in f.levels : f.holds[x] = {s} =>
    /\ ~Leaves(a, x) => \E t \in g.levels :
         /\ g.holds[x] = {t}
         /\ (twin[x] = x /\ a.kind # "update") => g.height[x] + g.elevation[t] = f.height[x] + f.elevation[s]
    /\ ~Concerns(a, x, {s}) => g.holds[x] = {s} /\ (twin[x] = x => g.height[x] = f.height[x])

LEMMA ActionCarries ==
  ASSUME twin \in Twins, NEW f, LevelModel(f), NEW a \in Offered, NEW g \in Outcomes(f, a)
  PROVE  LevelModel(g) /\ CarriesOver(f, a, g)
<1> USE DEF CarriesOver
<1>1. /\ f \in LevelModels /\ (\A x \in Things : f.holds[x] \subseteq f.levels)
      /\ \A x \in Spaces : f.parent[x] \in f.levels \cup {"none"}
  BY DEF LevelModel
<1> DEFINE C == Chosen(f, a.of, a.objects)
<1>2. ASSUME NEW x \in Things \ Spaces, NEW s \in f.levels, f.holds[x] = {s}
      PROVE  x \in C <=> s = a.of /\ (a.objects = {} \/ x \in a.objects)
  BY <1>2 DEF Chosen, Listed
<1>3. f.height \in [Things -> Int] /\ f.elevation \in [Levels -> Int] /\ f.levels \subseteq Levels
  BY <1>1 DEF LevelModels
<1>4. CASE a.kind = "update"
  <2>1. a.of \in f.levels /\ g = [f EXCEPT !.elevation[a.of] = a.elevation]
    BY <1>4 DEF Outcomes, Updated
  <2>2. a.elevation \in Int /\ a.of \in Levels
    BY <1>4, OfferedActions, LevelAssumption DEF Levels
  <2>3. /\ g \in LevelModels /\ g.levels = f.levels /\ g.holds = f.holds
        /\ g.parent = f.parent /\ g.height = f.height
    BY <1>1, <2>1, <2>2 DEF LevelModels
  <2>4. LevelModel(g)
    BY <1>1, <2>3 DEF LevelModel
  <2>5. QED
    BY <1>4, <2>3, <2>4
<1>5. ASSUME NEW h \in Reassigned(f, a), a.kind \in {"delete", "reassign"}
      PROVE  /\ h \in LevelModels /\ h.levels = f.levels /\ h.parent = f.parent
             /\ a.of \in f.levels /\ a.to \in f.levels /\ a.of # a.to
             /\ \A x \in Things : h.holds[x] \subseteq f.levels
             /\ \A x \in Things \ Spaces, s \in f.levels : f.holds[x] = {s} =>
                  IF s = a.of /\ (a.objects = {} \/ x \in a.objects)
                  THEN /\ h.holds[x] = {a.to}
                       /\ twin[x] = x => h.height[x] + h.elevation[a.to] = f.height[x] + f.elevation[s]
                  ELSE /\ h.holds[x] = {s} /\ (twin[x] = x => h.height[x] = f.height[x])
                       /\ h.elevation[s] = f.elevation[s]
  <2>1. a.of \in Levels /\ a.to \in Levels /\ a.of # a.to
    BY <1>5, OfferedActions DEF Levels
  <2>2. /\ h \in LevelModels /\ a.of \in f.levels /\ a.to \in f.levels
        /\ h.levels = f.levels /\ h.elevation = f.elevation /\ h.parent = f.parent
        /\ h.holds = [x \in Things |-> IF x \in C THEN (f.holds[x] \ {a.of}) \cup {a.to} ELSE f.holds[x]]
        /\ h.height = Shifted(f, C, a.of, a.to)
    BY <1>5, <2>1, ReassignedFile
  <2> HIDE DEF C
  <2>3. \A x \in Things : h.holds[x] \subseteq f.levels
    BY <1>1, <2>2
  <2>4. ASSUME NEW x \in Things \ Spaces, NEW s \in f.levels, f.holds[x] = {s}
        PROVE  IF s = a.of /\ (a.objects = {} \/ x \in a.objects)
               THEN /\ h.holds[x] = {a.to}
                    /\ twin[x] = x => h.height[x] + h.elevation[a.to] = f.height[x] + f.elevation[s]
               ELSE /\ h.holds[x] = {s} /\ (twin[x] = x => h.height[x] = f.height[x])
                    /\ h.elevation[s] = f.elevation[s]
    <3>1. x \in C <=> s = a.of /\ (a.objects = {} \/ x \in a.objects)
      BY <1>2, <2>4
    <3>2. CASE x \in C
      <4>1. h.holds[x] = {a.to}
        BY <2>2, <2>4, <3>1, <3>2
      <4>2. twin[x] = x => h.height[x] = f.height[x] + f.elevation[a.of] - f.elevation[a.to]
        BY <1>1, <2>1, <2>2, <3>2, ShiftedHeights
      <4>3. f.height[x] \in Int /\ f.elevation[a.of] \in Int /\ f.elevation[a.to] \in Int
        BY <1>3, <2>1
      <4>4. twin[x] = x => h.height[x] + h.elevation[a.to] = f.height[x] + f.elevation[s]
        BY <2>2, <3>1, <3>2, <4>2, <4>3
      <4>5. QED
        BY <3>1, <3>2, <4>1, <4>4
    <3>3. CASE x \notin C
      <4>1. h.holds[x] = {s} /\ h.elevation[s] = f.elevation[s]
        BY <2>2, <2>4, <3>3
      <4>2. twin[x] = x => h.height[x] = f.height[x]
        BY <1>1, <2>1, <2>2, <3>3, ShiftedHeights
      <4>3. QED
        BY <3>1, <3>3, <4>1, <4>2
    <3>4. QED
      BY <3>2, <3>3
  <2>5. QED
    BY <2>1, <2>2, <2>3, <2>4
<1>6. CASE a.kind = "reassign"
  <2>1. g \in Reassigned(f, a)
    BY <1>6 DEF Outcomes
  <2>2. LevelModel(g)
    BY <1>1, <1>5, <1>6, <2>1 DEF LevelModel
  <2>3. \A x \in Things \ Spaces, s \in f.levels : f.holds[x] = {s} =>
          /\ \E t \in g.levels : /\ g.holds[x] = {t}
                                 /\ twin[x] = x => g.height[x] + g.elevation[t] = f.height[x] + f.elevation[s]
          /\ a.of # s => g.holds[x] = {s} /\ (twin[x] = x => g.height[x] = f.height[x])
    BY <1>5, <1>6, <2>1
  <2>4. QED
    BY <1>6, <2>2, <2>3 DEF Concerns
<1>7. CASE a.kind = "delete"
  <2>1. g \in Deleted(f, a)
    BY <1>7 DEF Outcomes
  <2>2. a.of \in Levels /\ a.to \in Levels
    BY <1>7, OfferedActions DEF Levels
  <2>3. PICK h \in Reassigned(f, a) :
           /\ g \in LevelModels
           /\ g.levels = h.levels \ {a.of} /\ g.elevation = h.elevation
           /\ g.holds = [x \in Things |-> h.holds[x] \ {a.of}]
           /\ g.parent = [x \in Spaces |-> IF h.parent[x] = a.of THEN "none" ELSE h.parent[x]]
           /\ g.height = h.height
    BY <2>1, <2>2, DeletedFile
  <2>4. LevelModel(g)
    <3>1. \A x \in Things : g.holds[x] \subseteq g.levels
      BY <1>5, <1>7, <2>3
    <3>2. \A x \in Spaces : g.parent[x] \in g.levels \cup {"none"}
      BY <1>1, <1>5, <1>7, <2>3
    <3>3. QED
      BY <2>3, <3>1, <3>2 DEF LevelModel
  <2>5. ASSUME NEW x \in Things \ Spaces, NEW s \in f.levels, f.holds[x] = {s}
        PROVE  /\ a.objects = {} \/ x \in a.objects \/ a.of # s =>
                    \E t \in g.levels :
                      /\ g.holds[x] = {t}
                      /\ twin[x] = x => g.height[x] + g.elevation[t] = f.height[x] + f.elevation[s]
               /\ a.of # s => g.holds[x] = {s} /\ (twin[x] = x => g.height[x] = f.height[x])
    <3>1. g.holds[x] = h.holds[x] \ {a.of} /\ g.levels = f.levels \ {a.of}
      BY <1>5, <1>7, <2>3
    <3>2. CASE s = a.of /\ (a.objects = {} \/ x \in a.objects)
      <4>1. /\ h.holds[x] = {a.to} /\ a.to \in f.levels /\ a.of # a.to
            /\ twin[x] = x => h.height[x] + h.elevation[a.to] = f.height[x] + f.elevation[s]
        BY <1>5, <1>7, <2>5, <3>2
      <4>2. a.to \in g.levels /\ g.holds[x] = {a.to}
        BY <3>1, <4>1
      <4>3. QED
        BY <2>3, <3>2, <4>1, <4>2
    <3>3. CASE a.of # s
      <4>1. h.holds[x] = {s} /\ (twin[x] = x => h.height[x] = f.height[x]) /\ h.elevation[s] = f.elevation[s]
        BY <1>5, <1>7, <2>5, <3>3
      <4>2. s \in g.levels /\ g.holds[x] = {s}
        BY <3>1, <3>3, <4>1
      <4>3. QED
        BY <2>3, <4>1, <4>2
    <3>4. QED
      BY <3>2, <3>3
  <2>6. QED
    BY <1>7, <2>4, <2>5 DEF Leaves, Concerns
<1>8. CASE a.kind = "add"
  <2>1. g \in Added(f, a) /\ a.elevation \in Int /\ a.objects \subseteq Things
    BY <1>8, OfferedActions, LevelAssumption DEF Outcomes
  <2>2. PICK new \in NewLevels : AddsLevel(f, a, g, new)
    BY <2>1, AddedFile
  <2> USE DEF AddsLevel
  <2>3. LevelModel(g)
    BY <1>1, <2>2 DEF LevelModel
  <2>4. ASSUME NEW x \in Things \ Spaces, NEW s \in f.levels, f.holds[x] = {s}
        PROVE  /\ \E t \in g.levels : /\ g.holds[x] = {t}
                                      /\ twin[x] = x => g.height[x] + g.elevation[t] = f.height[x] + f.elevation[s]
               /\ x \notin a.objects => g.holds[x] = {s} /\ (twin[x] = x => g.height[x] = f.height[x])
    <3>1. CASE x \in a.objects
      <4>1. g.holds[x] = {new} /\ new \in g.levels /\ new \in Levels
        BY <2>2, <3>1 DEF Levels
      <4>2. twin[x] = x => g.height[x] = f.height[x] + f.elevation[s] - a.elevation
        BY <2>2, <2>4, <3>1
      <4>3. g.elevation[new] = a.elevation
        BY <2>2
      <4>4. f.height[x] \in Int /\ f.elevation[s] \in Int
        BY <1>3
      <4>5. QED
        BY <2>1, <3>1, <4>1, <4>2, <4>3, <4>4
    <3>2. CASE x \notin a.objects
      <4>1. g.holds[x] = {s} /\ s \in g.levels /\ (twin[x] = x => g.height[x] = f.height[x])
        BY <2>2, <2>4, <3>2
      <4>2. g.elevation[s] = f.elevation[s]
        BY <2>2
      <4>3. QED
        BY <4>1, <4>2
    <3>3. QED
      BY <3>1, <3>2
  <2>5. QED
    BY <1>8, <2>3, <2>4 DEF Concerns
<1>9. QED
  BY <1>4, <1>6, <1>7, <1>8, OfferedActions

(* One action more.                                                          *)
LEMMA CarriedOn ==
  ASSUME twin \in Twins, FileTypes, NEW q \in Seq(Offered), NEW i \in 1..Len(q),
         NEW f, LevelModel(f), Carried(original, q, i - 1, f, twin), NEW g \in Outcomes(f, q[i])
  PROVE  LevelModel(g) /\ Carried(original, q, i, g, twin)
<1>1. q[i] \in Offered
  OBVIOUS
<1> DEFINE a == q[i]
<1>2. LevelModel(g) /\ CarriesOver(f, a, g)
  BY <1>1, ActionCarries
<1> USE DEF CarriesOver
<1> HIDE DEF a
<1>3. ASSUME NEW x \in Things \ Spaces, \A j \in 1..i : ~Leaves(q[j], x)
      PROVE  \E s \in g.levels :
               /\ g.holds[x] = {s}
               /\ (twin[x] = x /\ \A j \in 1..i : q[j].kind # "update") =>
                    \A t \in original.holds[x] :
                      g.height[x] + g.elevation[s] = original.height[x] + original.elevation[t]
  <2>1. \A j \in 1..(i - 1) : j \in 1..i
    OBVIOUS
  <2>2. PICK s \in f.levels :
          /\ f.holds[x] = {s}
          /\ (twin[x] = x /\ \A j \in 1..(i - 1) : q[j].kind # "update") =>
               \A t \in original.holds[x] :
                 f.height[x] + f.elevation[s] = original.height[x] + original.elevation[t]
    BY <1>3, <2>1 DEF Carried
  <2>3. ~Leaves(a, x)
    BY <1>3 DEF a
  <2>4. PICK t \in g.levels :
          /\ g.holds[x] = {t}
          /\ (twin[x] = x /\ a.kind # "update") => g.height[x] + g.elevation[t] = f.height[x] + f.elevation[s]
    <3>1. f.holds[x] = {s} =>
            /\ ~Leaves(a, x) => \E t \in g.levels :
                 /\ g.holds[x] = {t}
                 /\ (twin[x] = x /\ a.kind # "update") => g.height[x] + g.elevation[t] = f.height[x] + f.elevation[s]
            /\ ~Concerns(a, x, {s}) => g.holds[x] = {s} /\ (twin[x] = x => g.height[x] = f.height[x])
      BY <1>2, Zenon
    <3>2. f.holds[x] = {s}
      BY <2>2, Zenon
    <3>3. QED
      BY <2>3, <3>1, <3>2, Zenon
  <2>5. ASSUME twin[x] = x, \A j \in 1..i : q[j].kind # "update", NEW u \in original.holds[x]
        PROVE  g.height[x] + g.elevation[t] = original.height[x] + original.elevation[u]
    <3>1. twin[x] = x /\ a.kind # "update"
      BY <2>5 DEF a
    <3>2. f.height[x] + f.elevation[s] = original.height[x] + original.elevation[u]
      BY <2>1, <2>2, <2>5
    <3>3. QED
      BY <2>4, <3>1, <3>2
  <2>6. QED
    BY <2>4, <2>5
<1>4. ASSUME NEW x \in Things \ Spaces, \A j \in 1..i : ~Concerns(q[j], x, original.holds[x])
      PROVE  g.holds[x] = original.holds[x] /\ (twin[x] = x => g.height[x] = original.height[x])
  <2>1. f.holds[x] = original.holds[x] /\ (twin[x] = x => f.height[x] = original.height[x])
    <3>1. \A j \in 1..(i - 1) : ~Concerns(q[j], x, original.holds[x])
      BY <1>4
    <3>2. QED
      BY <3>1 DEF Carried
  <2>2. PICK s \in original.levels : original.holds[x] = {s}
    BY DEF FileTypes
  <2>3. s \in f.levels
    BY <2>1, <2>2 DEF LevelModel
  <2>4. ~Concerns(a, x, {s})
    <3>1. i \in 1..i
      OBVIOUS
    <3>2. ~Concerns(a, x, original.holds[x])
      BY <1>4, <3>1 DEF a
    <3>3. QED
      BY <2>2, <3>2
  <2>5. QED
    BY <1>2, <2>1, <2>2, <2>3, <2>4
<1>5. QED
  BY <1>2, <1>3, <1>4 DEF Carried

LEMMA NothingCarried ==
  ASSUME FileTypes, NEW q
  PROVE  Carried(original, q, 0, original, twin)
<1> SUFFICES ASSUME NEW x \in Things \ Spaces
             PROVE  \E s \in original.levels :
                      /\ original.holds[x] = {s}
                      /\ \A t \in original.holds[x] :
                           original.height[x] + original.elevation[s]
                             = original.height[x] + original.elevation[t]
  BY DEF Carried
<1>1. PICK s \in original.levels : original.holds[x] = {s}
  BY DEF FileTypes
<1>2. QED
  BY <1>1

LEMMA LevelInitInv == LevelInit => LevelInv
<1> SUFFICES ASSUME NEW in \in [Things -> Storeys], NEW filled \in SUBSET Storeys, NEW s \in BOOLEAN,
                    NEW pairs \in Twins, LevelStart(Models(in, filled), s, pairs)
             PROVE  LevelInv
  BY DEF LevelInit
<1> DEFINE f == Models(in, filled)
<1>1. /\ f.levels = Storeys /\ f \in LevelModels
      /\ f.holds = [x \in Things |-> IF x \in Spaces THEN {} ELSE {in[x]}]
      /\ f.parent = [x \in Spaces |-> in[x]]
  <2> DEFINE Elevation == [t \in Levels |-> IF t = CHOOSE u \in Storeys : TRUE THEN 0 ELSE 1]
             Holds == [x \in Things |-> IF x \in Spaces THEN {} ELSE {in[x]}]
             Parent == [x \in Spaces |-> in[x]]
             Height == [x \in Things |-> 0]
             Filled == {in[x] : x \in Things \ Spaces} \cup filled
  <2>1. Elevation \in [Levels -> Int] /\ Height \in [Things -> Int]
    OBVIOUS
  <2>2. Holds \in [Things -> SUBSET Levels] /\ Filled \in SUBSET Levels
    BY DEF Levels
  <2>3. Parent \in [Spaces -> Levels \cup {"none"}]
    BY SpacesAreThings DEF Levels
  <2>4. f = [levels |-> Storeys, elevation |-> Elevation, holds |-> Holds, parent |-> Parent,
             filled |-> Filled, height |-> Height]
    BY DEF Models
  <2> HIDE DEF Elevation, Holds, Parent, Height, Filled, f
  <2>5. f \in LevelModels /\ f.levels = Storeys /\ f.holds = Holds /\ f.parent = Parent
    BY <2>1, <2>2, <2>3, <2>4 DEF LevelModels, Levels
  <2>6. QED
    BY <2>5 DEF Holds, Parent
<1> HIDE DEF f
<1>2. LevelModel(f)
  BY <1>1, SpacesAreThings DEF LevelModel
<1>3. \A x \in Things \ Spaces : \E t \in f.levels : f.holds[x] = {t}
  BY <1>1
<1>4. FileTypes
  BY <1>1, <1>2, <1>3 DEF LevelStart, FileTypes, f
<1>5. BatchTypes
  BY DEF LevelStart, BatchTypes, Ready
<1>6. BatchInOrder /\ BatchIsCarried
  BY DEF LevelStart, BatchInOrder, BatchIsCarried, Ready
<1>7. QED
  BY <1>4, <1>5, <1>6 DEF LevelInv

LEMMA LevelStutter == LevelInv /\ UNCHANGED levelVars => LevelInv'
<1> SUFFICES ASSUME LevelInv, UNCHANGED levelVars
             PROVE  LevelInv'
  OBVIOUS
<1>1. UNCHANGED <<original, workFile, batchFile, queue, batch, alone, settable, twin>>
  BY DEF levelVars
<1>2. Offered' = Offered /\ Running' = Running
  BY <1>1 DEF Offered, Listed, Running
<1>3. BatchTypes'
  BY <1>1, <1>2 DEF LevelInv, BatchTypes
<1>4. FileTypes'
  BY <1>1 DEF LevelInv, FileTypes
<1>5. BatchInOrder'
  BY <1>1 DEF LevelInv, BatchInOrder
<1>6. BatchIsCarried'
  BY <1>1, <1>2 DEF LevelInv, BatchIsCarried
<1>7. QED
  BY <1>3, <1>4, <1>5, <1>6 DEF LevelInv

(* What a step of one batch leaves alone.                                    *)
LEMMA BatchStep ==
  ASSUME LevelInv, NEW p \in Pages,
         QueueAction(p) \/ ApplyChanges(p) \/ ReadModel(p) \/ WriteModel(p) \/ CopyResult(p)
           \/ BatchFails(p)
  PROVE  /\ original' = original /\ settable' = settable /\ twin' = twin /\ Offered' = Offered
         /\ \A q \in Pages \ {p} : batch'[q] = batch[q] /\ queue'[q] = queue[q]
         /\ Running' \subseteq Running \cup {p}
<1>1. original' = original /\ settable' = settable /\ twin' = twin
  BY DEF QueueAction, ApplyChanges, ReadModel, WriteModel, CopyResult, BatchFails
<1>2. \E r : batch' = [batch EXCEPT ![p] = r]
  <2>1. CASE ReadModel(p)
    BY <2>1 DEF ReadModel
  <2>2. CASE QueueAction(p) \/ ApplyChanges(p) \/ WriteModel(p) \/ CopyResult(p) \/ BatchFails(p)
    BY <2>2 DEF QueueAction, ApplyChanges, WriteModel, CopyResult, BatchFails
  <2>3. QED
    BY <2>1, <2>2
<1>3. queue' = queue \/ \E r : queue' = [queue EXCEPT ![p] = r]
  BY DEF QueueAction, ApplyChanges, ReadModel, WriteModel, CopyResult, BatchFails
<1>4. batch \in [Pages -> [at : {"queueing", "read", "write", "copy", "ok", "error"}, next : Nat \ {0},
                         model : LevelModels \cup {NoModel}]] /\ queue \in [Pages -> Seq(Offered)]
  BY DEF LevelInv, BatchTypes
<1>5. \A q \in Pages \ {p} : batch'[q] = batch[q] /\ queue'[q] = queue[q]
  BY <1>2, <1>3, <1>4
<1>6. QED
  BY <1>1, <1>5 DEF Offered, Listed, Running

(* A page that others may disturb: it runs alone while one of its steps is    *)
(* the step of somebody else's batch.                                        *)
LEMMA NobodyElse ==
  ASSUME LevelInv, NEW p \in Pages, p \in Running, NEW q \in Pages, alone[q]
  PROVE  q = p
  BY DEF LevelInv, BatchIsCarried

LEMMA QueueActionInv ==
  ASSUME LevelInv, NEW p \in Pages, QueueAction(p)
  PROVE  LevelInv'
<1> USE DEF LevelInv
<1>1. /\ original' = original /\ settable' = settable /\ twin' = twin /\ Offered' = Offered
      /\ \A q \in Pages \ {p} : batch'[q] = batch[q] /\ queue'[q] = queue[q]
      /\ batch'[p] = Ready
      /\ UNCHANGED <<workFile, batchFile, alone>>
  BY BatchStep DEF QueueAction, BatchTypes
<1>2. PICK a \in Offered : queue' = [queue EXCEPT ![p] = Append(@, a)]
  BY DEF QueueAction
<1>3. BatchTypes'
  <2>1. queue' \in [Pages -> Seq(Offered)]
    BY <1>2 DEF BatchTypes
  <2>2. batch' = [batch EXCEPT ![p] = Ready]
    BY DEF QueueAction
  <2>3. QED
    BY <1>1, <2>1, <2>2 DEF BatchTypes, Ready
<1>4. FileTypes'
  BY <1>1 DEF FileTypes
<1>5. BatchInOrder'
  <2>1. Len(queue'[p]) \in Nat
    BY <1>3 DEF BatchTypes
  <2>2. QED
    BY <1>1, <2>1 DEF BatchInOrder, Ready
<1>6. BatchIsCarried'
  <2>1. Running' \subseteq Running
    BY <1>1 DEF Running, Ready
  <2>2. QED
    BY <1>1, <2>1 DEF BatchIsCarried, Ready
<1>7. QED
  BY <1>3, <1>4, <1>5, <1>6

LEMMA ApplyChangesInv ==
  ASSUME LevelInv, NEW p \in Pages, ApplyChanges(p)
  PROVE  LevelInv'
<1> USE DEF LevelInv
<1> DEFINE r == [at |-> "read", next |-> 1, model |-> NoModel]
<1>1. batch' = [batch EXCEPT ![p] = r]
  <2>1. [Ready EXCEPT !.at = "read"] = r
    BY DEF Ready
  <2>2. QED
    BY <2>1 DEF ApplyChanges
<1>2. /\ original' = original /\ settable' = settable /\ twin' = twin /\ Offered' = Offered
      /\ \A q \in Pages \ {p} : batch'[q] = batch[q]
      /\ batch'[p] = r
      /\ UNCHANGED <<workFile, batchFile, queue>>
      /\ Running' \subseteq Running \cup {p}
  BY <1>1, BatchStep DEF ApplyChanges, BatchTypes
<1>3. alone' = [q \in Pages |-> q = p /\ Running = {}]
  BY DEF ApplyChanges
<1>4. BatchTypes'
  BY <1>1, <1>2, <1>3 DEF BatchTypes
<1>5. FileTypes'
  BY <1>2 DEF FileTypes
<1>6. BatchInOrder'
  <2>1. queue[p] # <<>> /\ queue[p] \in Seq(Offered)
    BY DEF ApplyChanges, BatchTypes
  <2>2. 1 <= Len(queue[p])
    BY <2>1
  <2>3. QED
    BY <1>2, <2>2 DEF BatchInOrder
<1>7. BatchIsCarried'
  <2>1. Carried(original, queue[p], 0, original, twin)
    BY NothingCarried
  <2>2. \A q \in Pages : alone'[q] => q = p /\ Running = {}
    BY <1>3
  <2>3. batch'[p].at = "read" /\ batch'[p].next = 1 /\ batch'[p].next - 1 = 0
    BY <1>2
  <2>4. QED
    BY <1>2, <2>1, <2>2, <2>3 DEF BatchIsCarried
<1>8. QED
  BY <1>4, <1>5, <1>6, <1>7

LEMMA ReadModelInv ==
  ASSUME LevelInv, NEW p \in Pages, ReadModel(p)
  PROVE  LevelInv'
<1> USE DEF LevelInv
<1> DEFINE k == batch[p].next
           f == IF k = 1 THEN original ELSE workFile
<1>1. /\ original' = original /\ settable' = settable /\ twin' = twin /\ Offered' = Offered
      /\ \A q \in Pages \ {p} : batch'[q] = batch[q]
      /\ UNCHANGED <<workFile, batchFile, queue, alone>>
      /\ batch[p].at = "read" /\ k \in 1..Len(queue[p]) /\ queue[p] \in Seq(Offered)
      /\ p \in Running
  <2>1. k \in Nat \ {0} /\ queue[p] \in Seq(Offered) /\ Len(queue[p]) \in Nat
    BY DEF BatchTypes
  <2>2. batch[p].at = "read" /\ p \in Running /\ UNCHANGED <<workFile, batchFile, queue, alone>>
    BY DEF ReadModel, Running
  <2>3. k \in 1..Len(queue[p])
    BY <2>1, <2>2 DEF BatchInOrder
  <2>4. QED
    BY <2>1, <2>2, <2>3, BatchStep
<1>0. twin \in Twins
  BY DEF BatchTypes
<1>2. LevelModel(f)
  BY <1>1 DEF FileTypes, BatchInOrder
<1>3. FileTypes'
  BY <1>1 DEF FileTypes
<1>4. alone' = alone /\ Running' \subseteq Running
  BY <1>1, BatchStep
<1>5. CASE batch' = [batch EXCEPT ![p].at = "error"]
  <2>1. batch'[p].at = "error" /\ batch'[p].next = k
    BY <1>5 DEF BatchTypes
  <2>2. BatchTypes'
    BY <1>1, <1>5, ZenonT(60) DEF BatchTypes
  <2>3. BatchInOrder' /\ BatchIsCarried'
    BY <1>1, <1>4, <2>1 DEF BatchInOrder, BatchIsCarried
  <2>4. QED
    BY <1>3, <2>2, <2>3
<1>6. ASSUME NEW g \in Outcomes(f, queue[p][k]),
             batch' = [batch EXCEPT ![p] = [@ EXCEPT !.at = "write", !.model = g]]
      PROVE  LevelInv'
  <2>1. queue[p][k] \in Offered
    BY <1>1
  <2>2. LevelModel(g)
    BY <1>0, <1>2, <2>1, ActionCarries
  <2>3. /\ batch'[p] = [at |-> "write", next |-> k, model |-> g] /\ g \in LevelModels
    BY <1>6, <2>2 DEF BatchTypes, LevelModel
  <2>4. BatchTypes'
    BY <1>1, <1>6, <2>3 DEF BatchTypes
  <2>5. BatchInOrder'
    BY <1>1, <2>2, <2>3 DEF BatchInOrder
  <2>6. alone[p] => Carried(original, queue[p], k, g, twin)
    <3>1. alone[p] => Carried(original, queue[p], k - 1, f, twin)
      BY <1>1 DEF BatchIsCarried
    <3>2. QED
      BY <1>0, <1>1, <1>2, <3>1, CarriedOn
  <2>7. BatchIsCarried'
    BY <1>1, <1>4, <2>3, <2>6 DEF BatchIsCarried
  <2>8. QED
    BY <1>3, <2>4, <2>5, <2>7
<1>7. QED
  BY <1>5, <1>6 DEF ReadModel

LEMMA WriteModelInv ==
  ASSUME LevelInv, NEW p \in Pages, WriteModel(p)
  PROVE  LevelInv'
<1> USE DEF LevelInv
<1> DEFINE k == batch[p].next
           r == [at |-> IF k = Len(queue[p]) THEN "copy" ELSE "read", next |-> k + 1, model |-> NoModel]
<1>1. batch' = [batch EXCEPT ![p] = r]
  BY DEF WriteModel
<1>2. /\ original' = original /\ settable' = settable /\ twin' = twin /\ Offered' = Offered
      /\ \A q \in Pages \ {p} : batch'[q] = batch[q]
      /\ batch'[p] = r /\ workFile' = batch[p].model
      /\ UNCHANGED <<batchFile, queue, alone>>
      /\ batch[p].at = "write" /\ k \in 1..Len(queue[p]) /\ Len(queue[p]) \in Nat
      /\ p \in Running /\ Running' \subseteq Running \cup {p} /\ LevelModel(workFile')
  <2>1. k \in Nat \ {0} /\ Len(queue[p]) \in Nat /\ batch'[p] = r
    BY <1>1 DEF BatchTypes
  <2>2. /\ batch[p].at = "write" /\ p \in Running /\ workFile' = batch[p].model
        /\ UNCHANGED <<batchFile, queue, alone>>
    BY DEF WriteModel, Running
  <2>3. k \in 1..Len(queue[p]) /\ LevelModel(workFile')
    BY <2>1, <2>2 DEF BatchInOrder
  <2> HIDE DEF r
  <2>4. QED
    BY <2>1, <2>2, <2>3, BatchStep
<1>3. BatchTypes'
  BY <1>1, <1>2 DEF BatchTypes
<1>4. FileTypes'
  BY <1>2 DEF FileTypes
<1>5. BatchInOrder'
  <2>1. r.at \in {"copy", "read"} /\ (r.at = "copy" <=> k = Len(queue[p])) /\ r.next = k + 1
    OBVIOUS
  <2>2. k \in 1..Len(queue[p]) /\ Len(queue[p]) \in Nat /\ batch'[p] = r /\ UNCHANGED <<batchFile, queue>>
        /\ LevelModel(workFile')
    BY <1>2
  <2> HIDE DEF r, k
  <2>3. /\ batch'[p].at \in {"queueing", "error"} => batch'[p].next =< Len(queue'[p]) + 1
        /\ batch'[p].at \in {"read", "write"} => batch'[p].next =< Len(queue'[p])
        /\ batch'[p].at \in {"copy", "ok"} => batch'[p].next = Len(queue'[p]) + 1
        /\ batch'[p].at = "write" => LevelModel(batch'[p].model)
        /\ batch'[p].at \in {"read", "copy"} /\ batch'[p].next # 1 => LevelModel(workFile')
        /\ batch'[p].at = "ok" => LevelModel(batchFile')
        /\ batch'[p].at = "copy" => batch'[p].next # 1
    BY <2>1, <2>2
  <2>4. ASSUME NEW q \in Pages \ {p}
        PROVE  /\ batch'[q].at \in {"queueing", "error"} => batch'[q].next =< Len(queue'[q]) + 1
               /\ batch'[q].at \in {"read", "write"} => batch'[q].next =< Len(queue'[q])
               /\ batch'[q].at \in {"copy", "ok"} => batch'[q].next = Len(queue'[q]) + 1
               /\ batch'[q].at = "write" => LevelModel(batch'[q].model)
               /\ batch'[q].at \in {"read", "copy"} /\ batch'[q].next # 1 => LevelModel(workFile')
               /\ batch'[q].at = "ok" => LevelModel(batchFile')
               /\ batch'[q].at = "copy" => batch'[q].next # 1
    BY <1>2 DEF BatchInOrder
  <2>5. QED
    BY <2>3, <2>4 DEF BatchInOrder
<1>6. BatchIsCarried'
  <2>1. \A q \in Pages : alone[q] => q = p
    BY <1>2, NobodyElse
  <2>2. alone[p] => Running' \subseteq {p}
    BY <1>2 DEF BatchIsCarried
  <2>3. alone[p] => Carried(original, queue[p], k, workFile', twin)
    BY <1>2 DEF BatchIsCarried
  <2>4. QED
    BY <1>2, <2>1, <2>2, <2>3 DEF BatchIsCarried
<1>7. QED
  BY <1>3, <1>4, <1>5, <1>6

LEMMA CopyResultInv ==
  ASSUME LevelInv, NEW p \in Pages, CopyResult(p)
  PROVE  LevelInv'
<1> USE DEF LevelInv
<1>1. /\ original' = original /\ settable' = settable /\ twin' = twin /\ Offered' = Offered
      /\ \A q \in Pages \ {p} : batch'[q] = batch[q]
      /\ batch'[p].at = "ok" /\ batch'[p].next = batch[p].next
      /\ batchFile' = workFile /\ UNCHANGED <<workFile, queue, alone>>
      /\ batch[p].at = "copy" /\ LevelModel(workFile)
      /\ p \in Running /\ Running' \subseteq Running \cup {p}
  <2>1. batch'[p].at = "ok" /\ batch'[p].next = batch[p].next
    BY DEF CopyResult, BatchTypes
  <2>2. /\ batch[p].at = "copy" /\ p \in Running /\ batchFile' = workFile
        /\ UNCHANGED <<workFile, queue, alone>>
    BY DEF CopyResult, Running
  <2>3. LevelModel(workFile)
    BY <2>2 DEF BatchInOrder
  <2>4. QED
    BY <2>1, <2>2, <2>3, BatchStep
<1>2. BatchTypes'
  BY <1>1, ZenonT(60) DEF CopyResult, BatchTypes
<1>3. FileTypes'
  BY <1>1 DEF FileTypes
<1>4. BatchInOrder'
  BY <1>1 DEF BatchInOrder
<1>5. BatchIsCarried'
  <2>1. \A q \in Pages : alone[q] => q = p
    BY <1>1, NobodyElse
  <2>2. QED
    BY <1>1, <2>1 DEF BatchIsCarried
<1>6. QED
  BY <1>2, <1>3, <1>4, <1>5

LEMMA BatchFailsInv ==
  ASSUME LevelInv, NEW p \in Pages, BatchFails(p)
  PROVE  LevelInv'
<1> USE DEF LevelInv
<1>1. /\ original' = original /\ settable' = settable /\ twin' = twin /\ Offered' = Offered
      /\ \A q \in Pages \ {p} : batch'[q] = batch[q]
      /\ batch'[p] = [at |-> "error", next |-> batch[p].next, model |-> NoModel]
      /\ UNCHANGED <<workFile, batchFile, queue, alone>>
      /\ batch[p].at \in {"read", "write", "copy"}
      /\ p \in Running /\ Running' \subseteq Running \cup {p}
  <2>1. batch'[p] = [at |-> "error", next |-> batch[p].next, model |-> NoModel]
    BY DEF BatchFails, BatchTypes
  <2>2. /\ batch[p].at \in {"read", "write", "copy"} /\ p \in Running
        /\ UNCHANGED <<workFile, batchFile, queue, alone>>
    BY DEF BatchFails, Running
  <2>3. QED
    BY <2>1, <2>2, BatchStep
<1>2. BatchTypes'
  BY <1>1 DEF BatchFails, BatchTypes
<1>3. FileTypes'
  BY <1>1 DEF FileTypes
<1>4. BatchInOrder'
  <2>1. batch[p].next \in Nat /\ Len(queue[p]) \in Nat
    BY DEF BatchTypes
  <2>2. batch[p].next <= Len(queue[p]) + 1
    BY <1>1, <2>1 DEF BatchInOrder
  <2>3. QED
    BY <1>1, <2>2 DEF BatchInOrder
<1>5. BatchIsCarried'
  BY <1>1 DEF BatchIsCarried
<1>6. QED
  BY <1>2, <1>3, <1>4, <1>5

(* The invariant of the level manager, for any files, pages and batches.     *)
THEOREM LevelInvariance == LevelSpec => []LevelInv
<1>1. LevelInv /\ [LevelNext]_levelVars => LevelInv'
  BY LevelStutter, QueueActionInv, ApplyChangesInv, ReadModelInv, WriteModelInv, CopyResultInv,
     BatchFailsInv
  DEF LevelNext
<1>2. QED
  BY LevelInitInv, <1>1, PTL DEF LevelSpec

(* A batch that succeeds undisturbed keeps every element on one level, and   *)
(* what it does to the z of an element whose point is its own adds up to the *)
(* difference of the levels: apply_level_actions, move_objects_to_storey,    *)
(* delete_level and add_level, however many actions the page queued.         *)
THEOREM ElementsAreKept == LevelSpec => []ElementsKeepTheirLevel
<1>1. ASSUME LevelInv, NEW p \in Pages, NEW x \in Things \ Spaces, batch[p].at = "ok", alone[p]
      PROVE  LET now == batchFile.holds[x]
                 then == original.holds[x]
                 actions == {queue[p][i] : i \in DOMAIN queue[p]}
                 total(f, s) == f.height[x] + f.elevation[s]
             IN  /\ ~LeavesBehind(p, x) =>
                      /\ Cardinality(now) = 1 /\ now \subseteq batchFile.levels
                      /\ (twin[x] = x /\ \A a \in actions : a.kind # "update") =>
                           \A s \in now, t \in then : total(batchFile, s) = total(original, t)
                 /\ (\A a \in actions : a.kind = "add" => x \notin a.objects)
                      /\ (\A a \in actions, s \in then : a.kind \in {"delete", "reassign"} => a.of # s)
                      => now = then /\ (twin[x] = x => batchFile.height[x] = original.height[x])
  <2> DEFINE q == queue[p]
             f == batchFile
  <2>1. Carried(original, q, Len(q), f, twin) /\ DOMAIN q = 1..Len(q)
    BY <1>1 DEF LevelInv, BatchTypes, BatchIsCarried
  <2>2. ASSUME ~LeavesBehind(p, x)
        PROVE  \E s \in f.levels :
                 /\ f.holds[x] = {s}
                 /\ (twin[x] = x /\ \A i \in DOMAIN q : q[i].kind # "update") =>
                      \A t \in original.holds[x] :
                        f.height[x] + f.elevation[s] = original.height[x] + original.elevation[t]
    <3>1. \A i \in 1..Len(q) : ~Leaves(q[i], x)
      BY <2>1, <2>2 DEF LeavesBehind, Leaves
    <3>2. QED
      BY <2>1, <3>1 DEF Carried
  <2>3. ASSUME \A i \in DOMAIN q : q[i].kind = "add" => x \notin q[i].objects,
               \A i \in DOMAIN q, s \in original.holds[x] : q[i].kind \in {"delete", "reassign"} => q[i].of # s
        PROVE  f.holds[x] = original.holds[x] /\ (twin[x] = x => f.height[x] = original.height[x])
    <3>1. \A i \in 1..Len(q) : ~Concerns(q[i], x, original.holds[x])
      BY <2>1, <2>3 DEF Concerns
    <3>2. QED
      BY <2>1, <3>1 DEF Carried
  <2> HIDE DEF q, f
  <2>4. \A s : Cardinality({s}) = 1
    BY FS_Singleton
  <2>5. ~LeavesBehind(p, x) =>
          /\ Cardinality(f.holds[x]) = 1 /\ f.holds[x] \subseteq f.levels
          /\ (twin[x] = x /\ \A a \in {q[i] : i \in DOMAIN q} : a.kind # "update") =>
               \A s \in f.holds[x], t \in original.holds[x] :
                 f.height[x] + f.elevation[s] = original.height[x] + original.elevation[t]
    BY <2>2, <2>4
  <2>6. (\A a \in {q[i] : i \in DOMAIN q} : a.kind = "add" => x \notin a.objects)
          /\ (\A a \in {q[i] : i \in DOMAIN q}, s \in original.holds[x] :
                a.kind \in {"delete", "reassign"} => a.of # s)
          => f.holds[x] = original.holds[x] /\ (twin[x] = x => f.height[x] = original.height[x])
    BY <2>3
  <2>7. QED
    BY <2>5, <2>6 DEF q, f
<1>2. LevelInv => ElementsKeepTheirLevel
  BY <1>1 DEF ElementsKeepTheirLevel
<1>3. QED
  BY LevelInvariance, <1>2, PTL


-----------------------------------------------------------------------------
(***************************************************************************)
(* The layers of an IFC file.                                              *)
(***************************************************************************)

LayerNames == Names \cup {Unnamed}
LayerLists == UNION {[1..n -> [name : LayerNames, items : SUBSET Elements]] : n \in Nat}

(* A file of any size.                                                      *)
LayerModels ==
  [layers : LayerLists, text : [Elements -> LayerNames], code : [Elements -> UniclassCodes \cup {Unnamed}],
   class : [Elements -> ElementClasses], shown : SUBSET Elements]

ReviewRows ==
  [kind : {"layer", "code", "class"}, existing : Names \cup UniclassCodes \cup ElementClasses,
   suggestion : LayerNames, final : LayerNames, apply : BOOLEAN, elements : SUBSET Elements]

LayerInv ==
  /\ model \in LayerModels
  /\ review \subseteq ReviewRows
  /\ LayerTypeOK
  /\ applied = Nothing \/ applied.done
  /\ ReviewIsCarriedOut

(* Among natural numbers one is the least: as many are less than all of them *)
(* or equal as the greatest of those and one.                               *)
LEMMA LeastNumber ==
  ASSUME NEW S, S \subseteq Nat, S # {}
  PROVE  \E x \in S : \A y \in S : x <= y
<1> DEFINE L == {n \in Nat : \A y \in S : n <= y}
           k == Cardinality(L)
<1>1. PICK s \in S : TRUE
  OBVIOUS
<1>2. IsFiniteSet(L)
  BY <1>1, FS_BoundedSetOfNaturals
<1>3. k \in Nat
  BY <1>2, FS_CardinalityType
<1>4. ASSUME NEW n \in L PROVE n <= k - 1
  <2>1. 0..n \subseteq L
    OBVIOUS
  <2>2. Cardinality(0..n) <= k
    BY <1>2, <2>1, FS_Subset
  <2>3. Cardinality(0..n) = n + 1
    BY FS_Interval
  <2>4. QED
    BY <1>3, <2>2, <2>3
<1>5. 0 \in L
  OBVIOUS
<1>6. k - 1 \in Nat
  BY <1>3, <1>4, <1>5
<1>7. L = 0..(k - 1)
  <2>1. L \subseteq 0..(k - 1)
    BY <1>4, <1>6
  <2>2. IsFiniteSet(0..(k - 1)) /\ Cardinality(0..(k - 1)) = k
    BY <1>3, <1>6, FS_Interval
  <2>3. QED
    BY <2>1, <2>2, FS_Subset
<1> HIDE DEF k
<1>8. k - 1 \in L /\ k \notin L
  <2> HIDE DEF L
  <2>1. QED
    BY <1>3, <1>6, <1>7
<1>9. PICK y \in S : ~(k <= y)
  BY <1>3, <1>8
<1>10. \A z \in S : k - 1 <= z
  BY <1>8
<1>11. y = k - 1
  BY <1>3, <1>9, <1>10
<1>12. QED
  BY <1>10, <1>11

(* The initial state satisfies the invariant, whatever file is uploaded.    *)
LEMMA LayerInitInv == LayerInit => LayerInv
<1> SUFFICES ASSUME LayerInit PROVE LayerInv
  OBVIOUS
<1>1. PICK f \in {f \in LayerFiles : Sound(f)}, a \in SUBSET Names : LayerStart(f, a)
  BY DEF LayerInit
<1>2. f \in LayerModels
  <2>1. 0..MaxLayers \subseteq Nat
    BY LayerAssumption
  <2>2. UNION {[1..n -> [name : LayerNames, items : SUBSET Elements]] : n \in 0..MaxLayers} \subseteq LayerLists
    BY <2>1 DEF LayerLists
  <2>3. QED
    BY <2>2 DEF LayerFiles, LayerModels, LayerNames
<1>3. LayerTypeOK
  BY <1>1, LayerAssumption DEF LayerStart, LayerTypeOK, Nothing
<1>4. QED
  BY <1>1, <1>2, <1>3 DEF LayerStart, LayerInv, ReviewIsCarriedOut, Nothing

(* A new review has one row for each layer or code, and one for each class.  *)
LEMMA ExtractInv == LayerInv /\ Extract => LayerInv'
<1> SUFFICES ASSUME LayerInv, Extract PROVE LayerInv'
  OBVIOUS
<1> DEFINE Called == {model.class[e] : e \in Unassigned(model)}
           Of(c) == {e \in Unassigned(model) : model.class[e] = c}
           Final(s, sure, x) == IF x \in sure THEN s[x] ELSE Unnamed
           Known(s, sure) == {Row(x[1], x[2], s[x], Final(s, sure, x), {}) : x \in DOMAIN s}
           Others == {Row("class", c, Unnamed, Unnamed, Of(c)) : c \in Called}
<1>a. PICK s \in [Extracted(model) -> allowed \cup {Unnamed}] :
        \E sure \in SUBSET DOMAIN s : review' = Known(s, sure) \cup Others
  BY DEF Extract
<1>1. PICK sure \in SUBSET DOMAIN s : review' = Known(s, sure) \cup Others
  BY <1>a
<1>2. UNCHANGED <<model, allowed, applied, changes>>
  BY DEF Extract
<1>3. /\ model \in LayerModels /\ allowed \subseteq Names /\ Unassigned(model) \subseteq Elements
  BY DEF LayerInv, LayerTypeOK, Unassigned
<1>4. \E kind \in {"layer", "code"} : \A x \in Extracted(model) :
         /\ x = <<kind, x[2]>> /\ x[2] \in Names \cup UniclassCodes
  <2>1. \A l \in DOMAIN model.layers : model.layers[l].name \in LayerNames
    BY <1>3 DEF LayerModels, LayerLists
  <2>2. \A e \in Elements : model.code[e] \in UniclassCodes \cup {Unnamed}
    BY <1>3 DEF LayerModels
  <2> DEFINE layers == {model.layers[l].name : l \in DOMAIN model.layers} \ {Unnamed}
             codes == {model.code[e] : e \in Elements} \ {Unnamed}
  <2>3. layers \subseteq Names /\ codes \subseteq UniclassCodes
    BY <2>1, <2>2 DEF LayerNames
  <2>4. Extracted(model) = IF layers # {} THEN {<<"layer", n>> : n \in layers} ELSE {<<"code", c>> : c \in codes}
    BY DEF Extracted
  <2> HIDE DEF layers, codes
  <2>5. CASE layers # {}
    BY <2>3, <2>4, <2>5
  <2>6. CASE layers = {}
    BY <2>3, <2>4, <2>6
  <2>7. QED
    BY <2>5, <2>6
<1>5. \A c \in Called : c \in ElementClasses
  BY <1>3 DEF LayerModels
<1>6. PICK kind \in {"layer", "code"} : \A x \in Extracted(model) :
         /\ x = <<kind, x[2]>> /\ x[2] \in Names \cup UniclassCodes
  BY <1>4
<1>7. \A x \in DOMAIN s : s[x] \in LayerNames /\ Final(s, sure, x) \in LayerNames
  BY <1>3 DEF LayerNames
<1>8. Known(s, sure) \subseteq ReviewRows
  <2> SUFFICES ASSUME NEW x \in DOMAIN s
               PROVE  Row(x[1], x[2], s[x], Final(s, sure, x), {}) \in ReviewRows
    OBVIOUS
  <2>1. x[1] \in {"layer", "code", "class"} /\ x[2] \in Names \cup UniclassCodes
    BY <1>6
  <2>2. s[x] \in LayerNames /\ Final(s, sure, x) \in LayerNames
    BY <1>7
  <2> HIDE DEF Final
  <2>3. QED
    BY <2>1, <2>2 DEF Row, ReviewRows
<1>9. Others \subseteq ReviewRows
  <2> SUFFICES ASSUME NEW c \in Called PROVE Row("class", c, Unnamed, Unnamed, Of(c)) \in ReviewRows
    OBVIOUS
  <2>1. c \in ElementClasses /\ Of(c) \in SUBSET Elements
    BY <1>3, <1>5
  <2> HIDE DEF Of
  <2>2. QED
    BY <2>1 DEF Row, ReviewRows, LayerNames
<1>10. \A r, t \in review' : r.existing = t.existing => r = t
  <2>1. \A r \in Known(s, sure) : \E x \in Extracted(model) :
          /\ r = Row(kind, x[2], s[<<kind, x[2]>>], Final(s, sure, <<kind, x[2]>>), {})
          /\ r.existing = x[2] /\ r.existing \in Names \cup UniclassCodes
    <3> TAKE r \in Known(s, sure)
    <3>1. PICK x \in Extracted(model) : r = Row(x[1], x[2], s[x], Final(s, sure, x), {})
      OBVIOUS
    <3>2. x = <<kind, x[2]>> /\ x[1] = kind /\ x[2] \in Names \cup UniclassCodes
      BY <1>6
    <3>3. r.existing = x[2]
      BY <3>1 DEF Row
    <3> HIDE DEF Known, Final
    <3>4. QED
      BY <3>1, <3>2, <3>3
  <2>2. \A r \in Known(s, sure) :
          r = Row(kind, r.existing, s[<<kind, r.existing>>], Final(s, sure, <<kind, r.existing>>), {})
          /\ r.existing \in Names \cup UniclassCodes
    BY <2>1
  <2>3. \A r \in Others : r = Row("class", r.existing, Unnamed, Unnamed, Of(r.existing))
                           /\ r.existing \in ElementClasses
    BY <1>5 DEF Row
  <2> HIDE DEF Known, Others, Of, Final
  <2>4. QED
    BY <1>1, <2>2, <2>3, LayerAssumption
<1> HIDE DEF Known, Others
<1>11. review' \subseteq ReviewRows
  BY <1>1, <1>8, <1>9
<1>12. LayerTypeOK'
  <2>1. \A r \in review' : /\ r.kind \in {"layer", "code", "class"}
                         /\ r.final \in Names \cup {Unnamed} /\ r.apply \in BOOLEAN
    BY <1>11 DEF ReviewRows, LayerNames
  <2>2. QED
    BY <1>2, <1>10, <2>1 DEF LayerInv, LayerTypeOK
<1>13. QED
  BY <1>2, <1>11, <1>12 DEF LayerInv, ReviewIsCarriedOut

(* Rows may change in what was settled.                                     *)
LEMMA RowsInv ==
  ASSUME LayerInv, review' \subseteq ReviewRows, UNCHANGED <<model, allowed, applied>>,
         changes' \in 0..MaxChanges,
         \A r, s \in review' : r.existing = s.existing => r = s
  PROVE  LayerInv'
<1>1. LayerTypeOK'
  <2>1. \A r \in review' : /\ r.kind \in {"layer", "code", "class"}
                         /\ r.final \in Names \cup {Unnamed} /\ r.apply \in BOOLEAN
    BY DEF ReviewRows, LayerNames
  <2>2. QED
    BY <2>1 DEF LayerInv, LayerTypeOK
<1>2. QED
  BY <1>1 DEF LayerInv, ReviewIsCarriedOut

LEMMA SetFinalInv ==
  ASSUME LayerInv, NEW r \in review, NEW n \in LayerNames, SetFinal(r, n)
  PROVE  LayerInv'
<1> DEFINE t == [r EXCEPT !.final = n, !.apply = n \notin {Unnamed, r.existing}]
<1>1. review \subseteq ReviewRows /\ \A p, q \in review : p.existing = q.existing => p = q
  BY DEF LayerInv, LayerTypeOK
<1>2. t \in ReviewRows /\ t.existing = r.existing
  BY <1>1 DEF ReviewRows
<1>3. review' = (review \ {r}) \cup {t} /\ UNCHANGED <<model, allowed, applied>>
  BY DEF SetFinal
<1>4. changes' \in 0..MaxChanges
  BY LayerAssumption DEF SetFinal, LayerInv, LayerTypeOK
<1> HIDE DEF t
<1>5. \A p, q \in review' : p.existing = q.existing => p = q
  BY <1>1, <1>2, <1>3
<1>6. QED
  BY <1>1, <1>2, <1>3, <1>4, <1>5, RowsInv

LEMMA TickApplyInv ==
  ASSUME LayerInv, NEW r \in review, TickApply(r)
  PROVE  LayerInv'
<1> DEFINE t == [r EXCEPT !.apply = ~@]
<1>1. review \subseteq ReviewRows /\ \A p, q \in review : p.existing = q.existing => p = q
  BY DEF LayerInv, LayerTypeOK
<1>2. t \in ReviewRows /\ t.existing = r.existing
  BY <1>1 DEF ReviewRows
<1>3. review' = (review \ {r}) \cup {t} /\ UNCHANGED <<model, allowed, applied>>
  BY DEF TickApply
<1>4. changes' \in 0..MaxChanges
  BY LayerAssumption DEF TickApply, LayerInv, LayerTypeOK
<1> HIDE DEF t
<1>5. \A p, q \in review' : p.existing = q.existing => p = q
  BY <1>1, <1>2, <1>3
<1>6. QED
  BY <1>1, <1>2, <1>3, <1>4, <1>5, RowsInv

LEMMA AcceptInv == LayerInv /\ AcceptSuggestions => LayerInv'
<1> SUFFICES ASSUME LayerInv, AcceptSuggestions PROVE LayerInv'
  OBVIOUS
<1> DEFINE With(r) == IF r.suggestion = Unnamed THEN r
                      ELSE [r EXCEPT !.final = r.suggestion, !.apply = r.suggestion # r.existing]
<1>1. review \subseteq ReviewRows /\ \A p, q \in review : p.existing = q.existing => p = q
  BY DEF LayerInv, LayerTypeOK
<1>2. \A r \in review : With(r) \in ReviewRows /\ With(r).existing = r.existing
  BY <1>1 DEF ReviewRows
<1>3. review' = {With(r) : r \in review} /\ UNCHANGED <<model, allowed, applied, changes>>
  BY DEF AcceptSuggestions
<1>4. changes' \in 0..MaxChanges
  BY <1>3 DEF LayerInv, LayerTypeOK
<1> HIDE DEF With
<1>5. review' \subseteq ReviewRows
  BY <1>2, <1>3
<1>6. \A p, q \in review' : p.existing = q.existing => p = q
  BY <1>1, <1>2, <1>3
<1>7. QED
  BY <1>3, <1>4, <1>5, <1>6, RowsInv

LEMMA UploadInv == LayerInv /\ Upload => LayerInv'
<1> SUFFICES ASSUME LayerInv, Upload PROVE LayerInv'
  OBVIOUS
<1>1. PICK n \in Names, e \in Elements :
        model' = [layers |-> <<[name |-> n, items |-> {e}]>>,
                  text |-> [x \in Elements |-> Unnamed], code |-> [x \in Elements |-> Unnamed],
                  class |-> model.class, shown |-> Elements]
  BY DEF Upload
<1>2. <<[name |-> n, items |-> {e}]>> \in [1..1 -> [name : LayerNames, items : SUBSET Elements]]
  BY DEF LayerNames
<1>3. <<[name |-> n, items |-> {e}]>> \in LayerLists
  BY <1>2 DEF LayerLists
<1>4. model' \in LayerModels
  BY <1>1, <1>3 DEF LayerInv, LayerModels, LayerNames
<1>5. Sound(model')
  BY <1>1, <1>2 DEF Sound
<1>6. LayerTypeOK'
  BY <1>5, LayerAssumption DEF Upload, LayerInv, LayerTypeOK
<1>7. QED
  BY <1>4, <1>6 DEF Upload, LayerInv, ReviewIsCarriedOut

(* What the rows of unassigned elements make of the layers: those of before, *)
(* and what was given to the layers settled for them.                       *)
LEMMA AssignedOnce ==
  ASSUME LayerInv
  PROVE  LET f == model
             a == AssignedLayers(f)
         IN  /\ \A l \in DOMAIN a : a[l] = [name |-> a[l].name, items |-> a[l].items]
             /\ \A l \in DOMAIN a : a[l].items \subseteq f.shown
             /\ \A n, e : (\E l \in DOMAIN a : a[l].name = n /\ e \in a[l].items) <=>
                            \/ \E l \in DOMAIN f.layers : f.layers[l].name = n /\ e \in f.layers[l].items
                            \/ \E r \in Approved(review) : r.final = n /\ e \in Given(r, f)
<1> DEFINE f == model
           a == AssignedLayers(f)
           approved == {r \in Approved(review) : Given(r, f) # {}}
           given(n) == UNION {Given(r, f) : r \in {r \in approved : r.final = n}}
           named(n) == {l \in DOMAIN f.layers : f.layers[l].name = n}
           new == {r.final : r \in approved} \ {f.layers[l].name : l \in DOMAIN f.layers}
           order == CHOOSE o \in [1..Cardinality(new) -> new] : {o[i] : i \in DOMAIN o} = new
           count == Cardinality(DOMAIN f.layers)
           size == Cardinality(new)
<1>1. PICK n \in Nat : f.layers \in [1..n -> [name : LayerNames, items : SUBSET Elements]]
  BY DEF LayerInv, LayerModels, LayerLists
<1>2. DOMAIN f.layers = 1..count /\ count \in Nat
  <2>1. DOMAIN f.layers = 1..n
    BY <1>1
  <2>2. Cardinality(1..n) = n
    BY FS_Interval
  <2>3. QED
    BY <2>1, <2>2
<1>3. new \subseteq LayerNames /\ IsFiniteSet(new) /\ size \in Nat
  <2>1. new \subseteq LayerNames
    BY DEF Approved, LayerInv, ReviewRows
  <2>2. IsFiniteSet(LayerNames)
    BY LayerAssumption, FS_AddElement DEF LayerNames
  <2> HIDE DEF new
  <2>3. QED
    BY <2>1, <2>2, FS_Subset, FS_CardinalityType
<1>4. order \in [1..size -> new] /\ {order[i] : i \in DOMAIN order} = new
  <2> HIDE DEF new
  <2>1. ExistsBijection(1..size, new)
    BY <1>3, FS_CardinalityType
  <2>2. PICK o \in [1..size -> new] : \A x \in new : \E i \in 1..size : o[i] = x
    BY <2>1 DEF ExistsBijection, Bijection, Surjection
  <2>3. {o[i] : i \in DOMAIN o} = new
    BY <2>2
  <2>4. QED
    BY <2>2, <2>3, ZenonT(60)
<1>5. a = [l \in 1..(count + size) |->
            IF l > count THEN [name |-> order[l - count], items |-> given(order[l - count])]
            ELSE [f.layers[l] EXCEPT !.items = IF l = Min(named(f.layers[l].name))
                                               THEN @ \cup given(f.layers[l].name) ELSE @]]
  BY DEF AssignedLayers
<1> HIDE DEF order, a, new
<1>6. \A l \in 1..count :
        /\ l \in DOMAIN a
        /\ a[l] = [name |-> a[l].name, items |-> a[l].items]
        /\ a[l].name = f.layers[l].name
        /\ a[l].items = IF l = Min(named(f.layers[l].name))
                        THEN f.layers[l].items \cup given(f.layers[l].name) ELSE f.layers[l].items
  <2> TAKE l \in 1..count
  <2>1. f.layers[l] \in [name : LayerNames, items : SUBSET Elements]
    BY <1>1, <1>2
  <2>2. l \in 1..(count + size) /\ ~(l > count)
    BY <1>2, <1>3
  <2> HIDE DEF count, size, f, named, given
  <2>3. QED
    BY <1>5, <2>1, <2>2
<1>7. \A i \in 1..size :
        /\ count + i \in DOMAIN a
        /\ a[count + i] = [name |-> a[count + i].name, items |-> a[count + i].items]
        /\ a[count + i].name = order[i] /\ a[count + i].items = given(order[i])
  <2> TAKE i \in 1..size
  <2>1. count + i \in 1..(count + size) /\ count + i > count /\ (count + i) - count = i
    BY <1>2, <1>3
  <2> HIDE DEF count, size, f, named, given
  <2>2. QED
    BY <1>5, <2>1
<1>8. \A l \in DOMAIN a : l \in 1..count \/ \E i \in 1..size : l = count + i
  <2>1. DOMAIN a = 1..(count + size)
    BY <1>5
  <2>2. ASSUME NEW l \in 1..(count + size), l \notin 1..count PROVE l - count \in 1..size /\ l = count + (l - count)
    BY <1>2, <1>3, <2>2
  <2>3. QED
    BY <2>1, <2>2
<1>9. \A m : named(m) # {} => Min(named(m)) \in named(m)
  <2> TAKE m
  <2> HAVE named(m) # {}
  <2>1. named(m) \subseteq Nat
    BY <1>2
  <2>2. \E x \in named(m) : \A y \in named(m) : x <= y
    BY <2>1, LeastNumber
  <2>3. QED
    BY <2>2 DEF Min
<1>10. \A m, e : e \in given(m) <=> \E r \in Approved(review) : r.final = m /\ e \in Given(r, f)
  OBVIOUS
<1>11. \A l \in DOMAIN a : a[l].items \subseteq f.shown
  <2>1. \A m : given(m) \subseteq f.shown
    BY DEF Given
  <2>2. \A l \in 1..count : f.layers[l].items \subseteq f.shown
    BY <1>2 DEF LayerInv, LayerTypeOK, Sound
  <2> HIDE DEF given, named, f, count, size
  <2>3. \A l \in 1..count : a[l].items \subseteq f.shown
    BY <1>6, <2>1, <2>2
  <2>4. \A i \in 1..size : a[count + i].items \subseteq f.shown
    BY <1>7, <2>1
  <2>5. QED
    BY <1>8, <2>3, <2>4
<1>12. ASSUME NEW m, NEW e, NEW l \in DOMAIN a, a[l].name = m, e \in a[l].items
       PROVE  \/ \E k \in DOMAIN f.layers : f.layers[k].name = m /\ e \in f.layers[k].items
              \/ e \in given(m)
  <2> HIDE DEF given, named, f, count, size
  <2>1. CASE l \in 1..count
    BY <1>2, <1>6, <1>12, <2>1
  <2>2. CASE \E i \in 1..size : l = count + i
    BY <1>7, <1>12, <2>2, ZenonT(60)
  <2>3. QED
    BY <1>8, <1>12, <2>1, <2>2
<1>13. ASSUME NEW l \in DOMAIN f.layers, NEW e \in f.layers[l].items
       PROVE  \E k \in DOMAIN a : a[k].name = f.layers[l].name /\ e \in a[k].items
  <2> HIDE DEF given, named, f, count, size
  <2>1. QED
    BY <1>2, <1>6, <1>13
<1>14. ASSUME NEW m, NEW e \in given(m) PROVE \E k \in DOMAIN a : a[k].name = m /\ e \in a[k].items
  <2>1. CASE named(m) # {}
    <3> DEFINE k == Min(named(m))
    <3>1. k \in named(m)
      BY <1>9, <2>1
    <3>2. k \in 1..count /\ f.layers[k].name = m
      BY <1>2, <3>1
    <3> HIDE DEF given, named, f, count, size
    <3>3. QED
      BY <1>6, <1>14, <3>2
  <2>2. CASE named(m) = {}
    <3>1. m \in new
      BY <1>14, <2>2 DEF new
    <3>2. PICK i \in 1..size : order[i] = m
      BY <1>4, <3>1
    <3> HIDE DEF given, named, f, count, size
    <3>3. QED
      BY <1>7, <1>14, <3>2
  <2>3. QED
    BY <2>1, <2>2
<1> HIDE DEF given, f
<1>15. \A m, e : (\E l \in DOMAIN a : a[l].name = m /\ e \in a[l].items) <=>
                   \/ \E l \in DOMAIN f.layers : f.layers[l].name = m /\ e \in f.layers[l].items
                   \/ \E r \in Approved(review) : r.final = m /\ e \in Given(r, f)
  BY <1>10, <1>12, <1>13, <1>14
<1>16. \A l \in DOMAIN a : a[l] = [name |-> a[l].name, items |-> a[l].items]
  <2> HIDE DEF given, named, f, count, size
  <2>1. \A l \in 1..count : a[l] = [name |-> a[l].name, items |-> a[l].items]
    BY <1>6
  <2>2. \A i \in 1..size : a[count + i] = [name |-> a[count + i].name, items |-> a[count + i].items]
    BY <1>7
  <2>3. ASSUME NEW l \in DOMAIN a PROVE a[l] = [name |-> a[l].name, items |-> a[l].items]
    <3>1. CASE l \in 1..count
      BY <2>1, <3>1
    <3>2. CASE \E i \in 1..size : l = count + i
      BY <2>2, <3>2
    <3>3. QED
      BY <1>8, <2>3, <3>1, <3>2
  <2>4. QED
    BY <2>3
<1>17. QED
  BY <1>11, <1>15, <1>16 DEF f, a

(* What is written carries the review out.                                  *)
LEMMA ApplyReviewInv == LayerInv /\ ApplyReview => LayerInv'
<1> SUFFICES ASSUME LayerInv, ApplyReview PROVE LayerInv'
  OBVIOUS
<1> DEFINE f == model
           a == AssignedLayers(f)
           b == Renamed(a)
           g == [model EXCEPT !.layers = WithoutOrphans(b),
                              !.text = [e \in Elements |-> Target(review, @[e])]]
           approved == Approved(review)
           t(n) == Target(review, n)
<1>1. applied' = [done |-> TRUE, read |-> f, sent |-> review, wrote |-> g]
      /\ UNCHANGED <<model, allowed, review, changes>>
  BY DEF ApplyReview
<1>2. g.layers = WithoutOrphans(b) /\ g.shown = f.shown
  BY DEF LayerInv, LayerModels
<1>3. /\ \A l \in DOMAIN a : a[l].items \subseteq f.shown
      /\ \A n, e : (\E l \in DOMAIN a : a[l].name = n /\ e \in a[l].items) <=>
                     \/ \E l \in DOMAIN f.layers : f.layers[l].name = n /\ e \in f.layers[l].items
                     \/ \E r \in approved : r.final = n /\ e \in Given(r, f)
  BY AssignedOnce
<1>4. /\ DOMAIN b = DOMAIN a
      /\ \A l \in DOMAIN a : b[l].name = t(a[l].name) /\ b[l].items = a[l].items
  <2>1. \A l \in DOMAIN a : a[l] = [name |-> a[l].name, items |-> a[l].items]
    BY AssignedOnce
  <2> HIDE DEF a
  <2>2. QED
    BY <2>1 DEF Renamed
<1> HIDE DEF a
<1>5. /\ DOMAIN g.layers = {l \in DOMAIN a : a[l].items # {}}
      /\ \A l \in DOMAIN g.layers : g.layers[l].name = t(a[l].name) /\ g.layers[l].items = a[l].items
  BY <1>2, <1>4 DEF WithoutOrphans
<1> HIDE DEF g
<1>6. Sound(g)
  BY <1>2, <1>3, <1>5 DEF Sound
<1>7. \A e : NamesOf(g, e) = {t(n) : n \in NamesOf(f, e) \cup {r.final : r \in {r \in approved : e \in Given(r, f)}}}
  <2> TAKE e
  <2>1. NamesOf(g, e) = {t(a[l].name) : l \in {l \in DOMAIN a : e \in a[l].items}}
    BY <1>5 DEF NamesOf
  <2>2. {a[l].name : l \in {l \in DOMAIN a : e \in a[l].items}} =
          NamesOf(f, e) \cup {r.final : r \in {r \in approved : e \in Given(r, f)}}
    <3> HIDE DEF t, f, approved
    <3> DEFINE old == NamesOf(f, e)
               more == {r.final : r \in {r \in approved : e \in Given(r, f)}}
               all == {a[l].name : l \in {l \in DOMAIN a : e \in a[l].items}}
    <3>1. \A n : n \in old <=> \E l \in DOMAIN f.layers : f.layers[l].name = n /\ e \in f.layers[l].items
      BY DEF NamesOf
    <3>2. \A n : n \in more <=> \E r \in approved : r.final = n /\ e \in Given(r, f)
      OBVIOUS
    <3>3. \A n : n \in all <=> \E l \in DOMAIN a : a[l].name = n /\ e \in a[l].items
      OBVIOUS
    <3> HIDE DEF old, more, all
    <3>4. \A n : n \in all <=> n \in old \/ n \in more
      BY <1>3, <3>1, <3>2, <3>3
    <3>5. all = old \cup more
      BY <3>4
    <3>6. QED
      BY <3>5 DEF all, old, more
  <2> HIDE DEF t, f, approved
  <2>3. \A n : n \in {a[l].name : l \in {l \in DOMAIN a : e \in a[l].items}} <=>
                 \E l \in DOMAIN a : e \in a[l].items /\ n = a[l].name
    OBVIOUS
  <2>4. \A m : m \in {t(a[l].name) : l \in {l \in DOMAIN a : e \in a[l].items}} <=>
                 \E l \in DOMAIN a : e \in a[l].items /\ m = t(a[l].name)
    OBVIOUS
  <2>5. QED
    BY <2>1, <2>2, <2>3, <2>4
<1>8. ASSUME \A r \in approved : t(r.final) = r.final
      PROVE  \A e \in Elements :
               NamesOf(g, e) = {t(n) : n \in NamesOf(f, e)} \cup {r.final : r \in {r \in approved : e \in Given(r, f)}}
  <2> HIDE DEF t, f, approved
  <2>1. QED
    BY <1>7, <1>8
<1>9. \A l \in DOMAIN g.layers : g.layers[l].items # {}
  BY <1>5
<1>10. ReviewIsCarriedOut'
  BY <1>1, <1>8, <1>9 DEF ReviewIsCarriedOut
<1>11. LayerTypeOK'
  BY <1>1, <1>6 DEF LayerInv, LayerTypeOK
<1>12. QED
  BY <1>1, <1>10, <1>11 DEF LayerInv

(* The invariant of the alignment of layers, for any file and any review.    *)
THEOREM LayerInvariance == LayerSpec => []LayerInv
<1>1. LayerInv /\ [LayerNext]_layerVars => LayerInv'
  <2> SUFFICES ASSUME LayerInv, [LayerNext]_layerVars PROVE LayerInv'
    OBVIOUS
  <2>1. ASSUME NEW r \in review, \E n \in LayerNames : SetFinal(r, n) PROVE LayerInv'
    BY <2>1, SetFinalInv
  <2>2. CASE UNCHANGED layerVars
    BY <2>2 DEF layerVars, LayerInv, LayerTypeOK, ReviewIsCarriedOut
  <2>3. QED
    BY <2>1, <2>2, ExtractInv, AcceptInv, UploadInv, ApplyReviewInv, TickApplyInv
    DEF LayerNext, LayerNames
<1>2. QED
  BY <1>1, LayerInitInv, PTL DEF LayerSpec

(* What is written after a review holds every element on the layers that the *)
(* review made of its own, and those without on the layer settled for their  *)
(* class, whatever layers have the same name or are empty.                   *)
THEOREM ReviewsAreCarriedOut == LayerSpec => []ReviewIsCarriedOut
<1>1. LayerInv => ReviewIsCarriedOut
  BY DEF LayerInv
<1>2. QED
  BY <1>1, LayerInvariance, PTL
-----------------------------------------------------------------------------
(***************************************************************************)
(* The Excel round trip.                                                   *)
(***************************************************************************)

Blankable == Text \cup {""}
Named == Occ \cup Types

WriteFiles ==
  [type : [Occ -> Types \cup {NoType}], name : [Types -> Text], class : [Named -> Text],
   material : [Named -> Blankable], set : [Occ -> Occ], property : [Occ -> Text],
   ref : [Occ -> Occ], code : [Occ -> Text]]

(* The types in use were split off by one of the first k writes.            *)
Used(f, k) == \A o \in Occ : f.type[o] \in {NoType, TheType} \cup ((1..k) \X Occ)

(* A write that is planned: its file and its workbook.                      *)
Planned ==
  /\ source \in WriteFiles /\ cells \in [Cells -> Blankable]
  /\ writes \in 1..MaxWrites /\ Used(source, writes - 1)

LEMMA RowFacts ==
  /\ DOMAIN Rows = 1..Len(Rows) /\ Len(Rows) \in Nat /\ Rows[1] \in Occ
  /\ \A i \in DOMAIN Rows : Rows[i] \in Occ
<1>1. Rows \in Seq(Occ) /\ Rows # <<>>
  BY WriteAssumption
<1>2. DOMAIN Rows = 1..Len(Rows) /\ Len(Rows) \in Nat /\ 1 \in DOMAIN Rows
  BY <1>1
<1>3. QED
  BY <1>2 DEF Occ

(* A cell is known by what it is of and by its field.                       *)
LEMMA CellFacts ==
  ASSUME NEW c \in Cells
  PROVE  /\ \/ c.of \in Occ /\ c.sheet # "Types"
              /\ c.field \in {"typeName", "material", "class", "property", "code"}
            \/ c.of = TheType /\ c.sheet = "Types" /\ c.field \in {"typeName", "class"}
         /\ c.sheet = "Uniclass" <=> c.field = "code"
         /\ c = [sheet |-> c.sheet, of |-> c.of, field |-> c.field]
         /\ c.of \in Named
         /\ \A d \in Cells : d.of = c.of /\ d.field = c.field => d = c
<1>1. \A d \in Cells :
        /\ \/ d.of \in Occ /\ d.sheet = "Elements" /\ d.field \in {"typeName", "material", "class"}
           \/ d.of = TheType /\ d.sheet = "Types" /\ d.field \in {"typeName", "class"}
           \/ d.of \in Occ /\ d.sheet = "COBieMapping" /\ d.field = "property"
           \/ d.of \in Occ /\ d.sheet = "Uniclass" /\ d.field = "code"
        /\ d = [sheet |-> d.sheet, of |-> d.of, field |-> d.field]
  BY DEF Cells
<1>2. TheType \notin Occ
  BY WriteAssumption DEF Types
<1>3. c.of \in Named
  BY <1>1 DEF Named, Types
<1>4. \A d \in Cells : d.of = c.of /\ d.field = c.field => d.sheet = c.sheet
  BY <1>1, <1>2
<1>5. \A d \in Cells : d.of = c.of /\ d.field = c.field => d = c
  BY <1>1, <1>4
<1>6. QED
  BY <1>1, <1>3, <1>5

(* Every occurrence has its cells, and the type has its own.                *)
LEMMA CellsThere ==
  /\ \A o \in Occ, x \in {"typeName", "material", "class"} :
       [sheet |-> "Elements", of |-> o, field |-> x] \in Cells
  /\ \A x \in {"typeName", "class"} : [sheet |-> "Types", of |-> TheType, field |-> x] \in Cells
  /\ \A o \in Occ : [sheet |-> "COBieMapping", of |-> o, field |-> "property"] \in Cells
  /\ \A o \in Occ : [sheet |-> "Uniclass", of |-> o, field |-> "code"] \in Cells
  BY DEF Cells

(* What a cell reads, by its field.                                         *)
LEMMA ReadFacts ==
  ASSUME NEW f, NEW c \in Cells
  PROVE  /\ c.field = "typeName" /\ c.of \in Occ =>
              /\ Owner(f, c) = f.type[c.of]
              /\ Read(f, c) = IF f.type[c.of] = NoType THEN "" ELSE f.name[f.type[c.of]]
         /\ c.field = "typeName" /\ c.of = TheType =>
              Owner(f, c) = TheType /\ Read(f, c) = f.name[TheType]
         /\ c.field = "material" =>
              Owner(f, c) = MaterialOwner(f, c.of)
              /\ Read(f, c) = f.material[MaterialOwner(f, MaterialOwner(f, c.of))]
         /\ c.field = "class" => Owner(f, c) = c.of /\ Read(f, c) = f.class[c.of]
         /\ c.field = "property" => Owner(f, c) = c.of /\ Read(f, c) = f.property[f.set[c.of]]
<1>1. TheType \notin Occ /\ TheType # NoType
  BY WriteAssumption DEF Types
<1>2. CASE c.field = "typeName"
  BY <1>1, <1>2 DEF Owner, Read, Value
<1>3. CASE c.field = "material"
  BY <1>3 DEF Owner, Read, Value
<1>4. CASE c.field = "class"
  BY <1>4 DEF Owner, Read, Value
<1>5. CASE c.field = "property"
  BY <1>5 DEF Owner, Read, Value
<1>6. QED
  BY <1>2, <1>3, <1>4, <1>5

(* Where the material of an occurrence is.                                  *)
LEMMA MaterialFacts ==
  ASSUME NEW f \in WriteFiles
  PROVE  /\ \A t \in Types : MaterialOwner(f, t) = t
         /\ \A o \in Occ :
              /\ MaterialOwner(f, o) \in {o, f.type[o]} \ {NoType}
              /\ MaterialOwner(f, MaterialOwner(f, o)) = MaterialOwner(f, o)
              /\ MaterialOwner(f, o) # o =>
                   f.material[o] = "" /\ f.type[o] \in Types /\ f.material[f.type[o]] # ""
<1>1. Occ \cap (Types \cup {NoType}) = {}
  BY WriteAssumption
<1>2. \A t \in Types : MaterialOwner(f, t) = t
  BY <1>1 DEF MaterialOwner
<1>3. \A o \in Occ : f.type[o] \in Types \cup {NoType}
  BY DEF WriteFiles
<1>4. QED
  BY <1>1, <1>2, <1>3 DEF MaterialOwner

(* What is asked for.                                                       *)
LEMMA AskingFacts ==
  ASSUME NEW f, NEW c \in Asking(f)
  PROVE  /\ c \in Cells /\ c.field # "code" /\ cells[c] # "" /\ Owner(f, c) # NoType
         /\ cells[c] # Exported(f, c)
  BY CellFacts DEF Asking, Considered

LEMMA RequestFacts ==
  ASSUME Planned, NEW r \in Requests(source)
  PROVE  /\ \/ \E c \in Asking(source) :
                 r = [by |-> c.of, to |-> Owner(source, c), field |-> c.field, value |-> cells[c]]
            \/ /\ r.by = r.to /\ r.field = "class"
               /\ \E c \in Asking(source) :
                    /\ c.field = "class" /\ r.to \in Sharing(source, c) \ {c.of} /\ r.value = cells[c]
         /\ r.to \in Named /\ r.value \in Text
         /\ r.field \in {"typeName", "material", "class", "property"}
         /\ r.by # r.to => r.by \in Occ /\ r.to = source.type[r.by] /\ r.to \in Types
         /\ r.field = "property" => r.by = r.to /\ r.to \in Occ
<1>1. \A c \in Asking(source) :
        /\ c \in Cells /\ cells[c] \in Text
        /\ c.field \in {"typeName", "material", "class", "property"}
        /\ Owner(source, c) \in Named
        /\ Owner(source, c) # c.of => /\ c.of \in Occ /\ Owner(source, c) = source.type[c.of]
                                      /\ Owner(source, c) \in Types
        /\ c.field = "property" => Owner(source, c) = c.of /\ c.of \in Occ
        /\ c.field = "class" => Owner(source, c) = c.of
  <2> TAKE c \in Asking(source)
  <2>1. c \in Cells /\ c.field # "code" /\ cells[c] # "" /\ Owner(source, c) # NoType
    BY AskingFacts
  <2>2. cells[c] \in Text
    BY <2>1 DEF Planned, Blankable
  <2>3. /\ c.of \in Named /\ (c.of \in Occ \/ (c.of = TheType /\ c.field \in {"typeName", "class"}))
        /\ c.field \in {"typeName", "material", "class", "property", "code"}
    <3>1. c \in Cells
      BY <2>1
    <3>2. \/ c.of \in Occ /\ c.field \in {"typeName", "material", "class", "property", "code"}
          \/ c.of = TheType /\ c.field \in {"typeName", "class"}
      BY <3>1, CellFacts
    <3>3. c.of \in Named
      BY <3>1, CellFacts
    <3>4. QED
      BY <3>2, <3>3
  <2>4. \A o \in Occ : source.type[o] \in Types \cup {NoType}
    BY DEF Planned, WriteFiles
  <2>5. c.field = "material" => Owner(source, c) \in {c.of, source.type[c.of]} /\ c.of \in Occ
    <3> HAVE c.field = "material"
    <3>1. c.of \in Occ
      BY <2>3
    <3>2. Owner(source, c) = MaterialOwner(source, c.of)
      BY <2>1, ReadFacts
    <3>3. source \in WriteFiles
      BY DEF Planned
    <3>4. MaterialOwner(source, c.of) \in {c.of, source.type[c.of]} \ {NoType}
      BY <3>1, <3>3, MaterialFacts
    <3>5. QED
      BY <3>1, <3>2, <3>4
  <2>6. QED
    BY <2>1, <2>2, <2>3, <2>4, <2>5, ReadFacts DEF Named
<1>2. \A c \in Asking(source) : c.field = "class" => Sharing(source, c) \subseteq Named
  <2> TAKE c \in Asking(source)
  <2> HAVE c.field = "class"
  <2>1. c.of \in Occ \/ c.of = TheType
    BY <1>1, CellFacts
  <2>2. \A o \in Occ : source.type[o] \in Types \cup {NoType}
    BY DEF Planned, WriteFiles
  <2>3. QED
    BY <2>1, <2>2 DEF Sharing, Members, Named, Types
<1>3. CASE \E c \in Asking(source) :
             r = [by |-> c.of, to |-> Owner(source, c), field |-> c.field, value |-> cells[c]]
  BY <1>1, <1>3
<1>4. CASE \E e \in Expansions(source) : r = [by |-> e.of, to |-> e.of, field |-> "class", value |-> e.value]
  <2>1. PICK e \in Expansions(source) : r = [by |-> e.of, to |-> e.of, field |-> "class", value |-> e.value]
    BY <1>4
  <2>2. PICK c \in Asking(source) :
          /\ c.field = "class"
          /\ \E x \in Sharing(source, c) \ {c.of} :
               e = [sheet |-> c.sheet, of |-> x, field |-> "class", value |-> cells[c]]
    BY DEF Expansions
  <2>3. r.by = r.to /\ r.field = "class" /\ r.to \in Sharing(source, c) \ {c.of} /\ r.value = cells[c]
    BY <2>1, <2>2
  <2>4. QED
    BY <1>1, <1>2, <2>2, <2>3
<1>5. QED
  BY <1>3, <1>4 DEF Requests

(* What a row asks for, and a class asked for the others as well.            *)
LEMMA AskedRequests ==
  ASSUME NEW c \in Asking(source)
  PROVE  /\ [by |-> c.of, to |-> Owner(source, c), field |-> c.field, value |-> cells[c]] \in Requests(source)
         /\ c.field = "class" =>
              \A x \in Sharing(source, c) \ {c.of} :
                cells[c] # Exported(source, [sheet |-> c.sheet, of |-> x, field |-> "class"]) =>
                  [by |-> x, to |-> x, field |-> "class", value |-> cells[c]] \in Requests(source)
<1>1. [by |-> c.of, to |-> Owner(source, c), field |-> c.field, value |-> cells[c]] \in Requests(source)
  BY DEF Requests
<1>2. ASSUME c.field = "class", NEW x \in Sharing(source, c) \ {c.of},
             cells[c] # Exported(source, [sheet |-> c.sheet, of |-> x, field |-> "class"])
      PROVE  [by |-> x, to |-> x, field |-> "class", value |-> cells[c]] \in Requests(source)
  <2> DEFINE e == [sheet |-> c.sheet, of |-> x, field |-> "class", value |-> cells[c]]
  <2>1. e \in Expansions(source)
    BY <1>2 DEF Expansions
  <2>2. e.value # Exported(source, Key(e)) /\ e.of = x /\ e.value = cells[c]
    BY <1>2 DEF Key
  <2> HIDE DEF e
  <2>3. [by |-> e.of, to |-> e.of, field |-> "class", value |-> e.value] \in Requests(source)
    BY <2>1, <2>2 DEF Requests
  <2>4. QED
    BY <2>2, <2>3
<1>3. QED
  BY <1>1, <1>2

(* A new type belongs to the group it was split off for.                    *)
LEMMA AssignedFacts ==
  ASSUME Planned, NEW o \in Occ
  PROVE  LET t == source.type[o]
             u == Assigned(source, o)
         IN  /\ t \in Types \cup {NoType} /\ u \in Types \cup {NoType}
             /\ u = NoType <=> t = NoType
             /\ u # t => /\ split /\ t # NoType /\ NameOf(source, o) # source.name[t]
                         /\ u \in (1..MaxWrites) \X Occ
                         /\ u[1] = writes /\ u[2] \in Occ /\ source.type[u[2]] = t
                         /\ NameOf(source, u[2]) = NameOf(source, o)
                         /\ \A p \in Occ : source.type[p] # u
                         /\ u # TheType
<1> DEFINE t == source.type[o]
           u == Assigned(source, o)
           G == Group(source, o)
<1>1. t \in Types \cup {NoType}
  BY DEF Planned, WriteFiles
<1>2. o \in G /\ G \subseteq Occ
  BY DEF Group, Members
<1>3. (CHOOSE p \in G : TRUE) \in G
  BY <1>2
<1>4. ASSUME u # t
      PROVE  /\ split /\ t # NoType /\ NameOf(source, o) # source.name[t]
             /\ u = <<writes, CHOOSE p \in G : TRUE>>
  BY <1>4 DEF Assigned
<1>5. ASSUME u # t
      PROVE  /\ u \in (1..MaxWrites) \X Occ /\ u[1] = writes /\ u[2] \in G
             /\ \A p \in Occ : source.type[p] # u
             /\ u # TheType
  <2> HIDE DEF G
  <2>1. u = <<writes, u[2]>> /\ u[1] = writes /\ u[2] \in G
    BY <1>3, <1>4, <1>5
  <2>2. writes \in 1..MaxWrites /\ u[2] \in Occ
    BY <1>2, <2>1 DEF Planned
  <2> HIDE DEF u
  <2>3. u \in (1..MaxWrites) \X Occ
    BY <2>1, <2>2
  <2>4. u # TheType /\ u # NoType
    BY <2>3, WriteAssumption DEF Types
  <2>5. u \notin (1..(writes - 1)) \X Occ
    <3>1. MaxWrites \in Nat
      BY WriteAssumption
    <3>2. writes \notin 1..(writes - 1)
      BY <2>2, <3>1
    <3>3. QED
      BY <2>1, <3>2
  <2>6. QED
    BY <2>1, <2>3, <2>4, <2>5 DEF Planned, Used
<1>6. ASSUME u # t PROVE source.type[u[2]] = t /\ NameOf(source, u[2]) = NameOf(source, o) /\ u[2] \in Occ
  BY <1>5, <1>6 DEF Group, Members
<1>7. ASSUME u # t PROVE u # NoType /\ u \in Types
  <2>1. u \in Types
    BY <1>5, <1>7 DEF Types
  <2>2. QED
    BY <2>1, WriteAssumption
<1> HIDE DEF u, G
<1>8. QED
  BY <1>1, <1>4, <1>5, <1>6, <1>7 DEF u

(* Two occurrences that will have one type had one, and ask for one name.    *)
LEMMA AssignedTogether ==
  ASSUME Planned, NEW o \in Occ, NEW p \in Occ,
         Assigned(source, o) = Assigned(source, p), source.type[o] # NoType
  PROVE  /\ source.type[o] = source.type[p]
         /\ Assigned(source, o) # source.type[o] => NameOf(source, o) = NameOf(source, p)
<1>1. source.type[o] = source.type[p]
  BY AssignedFacts
<1>2. QED
  BY <1>1, AssignedFacts

(* Where what is asked for goes.                                            *)
LEMMA RoutedFacts ==
  ASSUME Planned, NEW r \in Routed(source)
  PROVE  \E q \in Requests(source) :
           /\ r = [to |-> r.to, field |-> q.field, value |-> q.value]
           /\ \/ q.by # q.to /\ r.to = Assigned(source, q.by)
              \/ q.by = q.to /\ r.to = q.to
              \/ /\ q.by = q.to
                 /\ \E o \in Occ : /\ source.type[o] = q.to /\ r.to = Assigned(source, o)
                                   /\ r.to # source.type[o]
<1> DEFINE Ways(q) ==
             IF q.by # q.to THEN {IF q.by \in Occ /\ q.to = source.type[q.by] THEN Assigned(source, q.by) ELSE q.to}
             ELSE {q.to} \cup {s[2] : s \in {x \in Splits(source) : x[1] = q.to}}
<1>1. PICK q \in Requests(source) : r \in {[to |-> d, field |-> q.field, value |-> q.value] : d \in Ways(q)}
  BY DEF Routed
<1>2. PICK d \in Ways(q) : r = [to |-> d, field |-> q.field, value |-> q.value]
  BY <1>1
<1>3. r = [to |-> r.to, field |-> q.field, value |-> q.value] /\ r.to = d
  BY <1>2
<1>4. CASE q.by # q.to
  <2>1. q.by \in Occ /\ q.to = source.type[q.by]
    BY <1>4, RequestFacts
  <2>2. QED
    BY <1>2, <1>3, <1>4, <2>1
<1>5. CASE q.by = q.to
  <2>1. CASE d = q.to
    BY <1>3, <1>5, <2>1
  <2>2. CASE \E s \in Splits(source) : s[1] = q.to /\ s[2] = d
    <3>1. PICK s \in Splits(source) : s[1] = q.to /\ s[2] = d
      BY <2>2
    <3>2. PICK o \in Occ : s = <<source.type[o], Assigned(source, o)>> /\ Assigned(source, o) # source.type[o]
      BY DEF Splits
    <3>3. source.type[o] = q.to /\ Assigned(source, o) = d
      BY <3>1, <3>2
    <3>4. QED
      BY <1>3, <1>5, <3>2, <3>3
  <2>3. QED
    BY <1>2, <1>5, <2>1, <2>2
<1>6. QED
  BY <1>4, <1>5

LEMMA RequestsRouted ==
  ASSUME Planned, NEW q \in Requests(source)
  PROVE  /\ q.by # q.to =>
              [to |-> Assigned(source, q.by), field |-> q.field, value |-> q.value] \in Routed(source)
         /\ q.by = q.to =>
              /\ [to |-> q.to, field |-> q.field, value |-> q.value] \in Routed(source)
              /\ \A o \in Occ : source.type[o] = q.to =>
                   [to |-> Assigned(source, o), field |-> q.field, value |-> q.value] \in Routed(source)
<1> DEFINE Ways(x) ==
             IF x.by # x.to THEN {IF x.by \in Occ /\ x.to = source.type[x.by] THEN Assigned(source, x.by) ELSE x.to}
             ELSE {x.to} \cup {s[2] : s \in {y \in Splits(source) : y[1] = x.to}}
<1>1. Routed(source) =
        UNION {{[to |-> d, field |-> x.field, value |-> x.value] : d \in Ways(x)} : x \in Requests(source)}
  BY DEF Routed
<1>2. \A d \in Ways(q) : [to |-> d, field |-> q.field, value |-> q.value] \in Routed(source)
  BY <1>1
<1>3. CASE q.by # q.to
  <2>1. q.by \in Occ /\ q.to = source.type[q.by]
    BY <1>3, RequestFacts
  <2>2. QED
    BY <1>2, <1>3, <2>1
<1>4. CASE q.by = q.to
  <2>1. q.to \in Ways(q)
    BY <1>4
  <2>2. ASSUME NEW o \in Occ, source.type[o] = q.to
        PROVE  Assigned(source, o) \in Ways(q)
    <3>1. CASE Assigned(source, o) = q.to
      BY <2>1, <3>1
    <3>2. CASE Assigned(source, o) # q.to
      <4>1. <<source.type[o], Assigned(source, o)>> \in Splits(source)
        BY <2>2, <3>2 DEF Splits
      <4>2. <<source.type[o], Assigned(source, o)>>[1] = q.to
            /\ <<source.type[o], Assigned(source, o)>>[2] = Assigned(source, o)
        BY <2>2
      <4>3. QED
        BY <1>4, <4>1, <4>2
    <3>3. QED
      BY <3>1, <3>2
  <2> HIDE DEF Ways
  <2>3. QED
    BY <1>2, <1>4, <2>1, <2>2
<1>5. QED
  BY <1>3, <1>4

(* What is routed is of something there is, and only names, classes and     *)
(* materials are of types.                                                  *)
LEMMA RoutedTypes ==
  ASSUME Planned, NEW r \in Routed(source)
  PROVE  /\ r.to \in Named /\ r.value \in Text
         /\ r.field \in {"typeName", "material", "class", "property"}
         /\ r.field = "property" => r.to \in Occ
<1>1. PICK q \in Requests(source) :
           /\ r = [to |-> r.to, field |-> q.field, value |-> q.value]
           /\ \/ q.by # q.to /\ r.to = Assigned(source, q.by)
              \/ q.by = q.to /\ r.to = q.to
              \/ /\ q.by = q.to
                 /\ \E o \in Occ : /\ source.type[o] = q.to /\ r.to = Assigned(source, o)
                                   /\ r.to # source.type[o]
  BY RoutedFacts
<1>2. r.field = q.field /\ r.value = q.value
  BY <1>1
<1>3. /\ q.to \in Named /\ q.value \in Text
      /\ q.field \in {"typeName", "material", "class", "property"}
      /\ q.by # q.to => q.by \in Occ /\ q.to = source.type[q.by] /\ q.to \in Types
      /\ q.field = "property" => q.by = q.to /\ q.to \in Occ
  BY RequestFacts
<1>4. CASE q.by # q.to /\ r.to = Assigned(source, q.by)
  <2>1. r.to \in Types
    BY <1>3, <1>4, AssignedFacts, WriteAssumption
  <2>2. QED
    BY <1>2, <1>3, <1>4, <2>1 DEF Named
<1>5. CASE q.by = q.to /\ r.to = q.to
  BY <1>2, <1>3, <1>5
<1>6. CASE q.by = q.to /\ \E o \in Occ : /\ source.type[o] = q.to /\ r.to = Assigned(source, o)
                                         /\ r.to # source.type[o]
  <2>1. PICK o \in Occ : /\ source.type[o] = q.to /\ r.to = Assigned(source, o)
                         /\ r.to # source.type[o]
    BY <1>6
  <2>2. r.to \in Types /\ source.type[o] \in Types
    BY <2>1, AssignedFacts, WriteAssumption
  <2>3. q.to \notin Occ
    BY <2>1, <2>2, WriteAssumption
  <2>4. QED
    BY <1>2, <1>3, <2>2, <2>3 DEF Named
<1>7. QED
  BY <1>1, <1>4, <1>5, <1>6

(* The file with its types divided.                                         *)
LEMMA DividedFacts ==
  ASSUME Planned
  PROVE  LET g == Divided(source)
         IN  /\ g \in WriteFiles
             /\ \A o \in Occ : /\ g.type[o] = Assigned(source, o)
                               /\ g.class[o] = source.class[o] /\ g.material[o] = source.material[o]
             /\ \A o \in Occ : source.type[o] # NoType =>
                  LET t == source.type[o]
                      u == Assigned(source, o)
                  IN  /\ g.name[u] = source.name[t] /\ g.class[u] = source.class[t]
                      /\ g.material[u] = source.material[t]
             /\ \A t \in Types : t[1] # writes \/ t = TheType =>
                  /\ g.name[t] = source.name[t] /\ g.class[t] = source.class[t]
                  /\ g.material[t] = source.material[t]
             /\ g.set = source.set /\ g.property = source.property /\ g.ref = source.ref
             /\ g.code = source.code
<1> DEFINE f == source
           new(t) == \E s \in Splits(f) : s[2] = t
           from(t) == IF new(t) THEN f.type[t[2]] ELSE t
           of(x) == IF x \in Occ THEN x ELSE from(x)
           g == [f EXCEPT !.type = [o \in Occ |-> Assigned(f, o)],
                !.name = [t \in Types |-> f.name[from(t)]],
                !.class = [x \in Occ \cup Types |-> f.class[of(x)]],
                !.material = [x \in Occ \cup Types |-> f.material[of(x)]]]
<1>1. f \in WriteFiles
  BY DEF Planned
<1>2. \A t : new(t) <=> \E o \in Occ : t = Assigned(f, o) /\ t # f.type[o]
  <2>1. ASSUME NEW t, new(t) PROVE \E o \in Occ : t = Assigned(f, o) /\ t # f.type[o]
    BY <2>1 DEF Splits
  <2>2. ASSUME NEW o \in Occ, Assigned(f, o) # f.type[o] PROVE new(Assigned(f, o))
    <3>1. <<f.type[o], Assigned(f, o)>> \in Splits(f)
      BY <2>2 DEF Splits
    <3>2. QED
      BY <3>1
  <2>3. QED
    BY <2>1, <2>2
<1> HIDE DEF new
<1>3. \A o \in Occ : f.type[o] # NoType => from(Assigned(f, o)) = f.type[o]
  <2> TAKE o \in Occ
  <2> HAVE f.type[o] # NoType
  <2>1. CASE Assigned(f, o) # f.type[o]
    BY <1>2, <2>1, AssignedFacts
  <2>2. CASE Assigned(f, o) = f.type[o]
    <3>1. ~new(f.type[o])
      BY <1>2, AssignedFacts
    <3>2. QED
      BY <2>2, <3>1
  <2>3. QED
    BY <2>1, <2>2
<1>4. \A t \in Types : t[1] # writes \/ t = TheType => from(t) = t
  BY <1>2, AssignedFacts
<1>5. \A t \in Types : from(t) \in Types
  BY <1>2, AssignedFacts
<1>6. \A o \in Occ : Assigned(f, o) \in Types \cup {NoType}
  BY AssignedFacts
<1>7. Divided(f) = g
  BY DEF Divided, new
<1>8. Occ \cap Types = {}
  BY WriteAssumption
<1> HIDE DEF from
<1>9. \A x \in Occ \cup Types : of(x) \in Named
  BY <1>5 DEF Named
<1>10. /\ \A x \in Occ : of(x) = x
       /\ \A x \in Types : of(x) = from(x)
  BY <1>8
<1> HIDE DEF of
<1>11. /\ g.type = [o \in Occ |-> Assigned(f, o)]
       /\ g.name = [t \in Types |-> f.name[from(t)]]
       /\ g.class = [x \in Occ \cup Types |-> f.class[of(x)]]
       /\ g.material = [x \in Occ \cup Types |-> f.material[of(x)]]
       /\ g.set = f.set /\ g.property = f.property /\ g.ref = f.ref /\ g.code = f.code
       /\ g \in WriteFiles
  <2> DEFINE types == [o \in Occ |-> Assigned(f, o)]
             called == [t \in Types |-> f.name[from(t)]]
             classes == [x \in Occ \cup Types |-> f.class[of(x)]]
             materials == [x \in Occ \cup Types |-> f.material[of(x)]]
  <2>1. types \in [Occ -> Types \cup {NoType}]
    BY <1>6
  <2>2. called \in [Types -> Text]
    BY <1>1, <1>5 DEF WriteFiles
  <2>3. classes \in [Named -> Text] /\ materials \in [Named -> Blankable]
    BY <1>1, <1>9 DEF WriteFiles, Named
  <2>4. g = [f EXCEPT !.type = types, !.name = called, !.class = classes, !.material = materials]
    OBVIOUS
  <2> HIDE DEF f, g, types, called, classes, materials
  <2>5. /\ g \in WriteFiles /\ g.type = types /\ g.name = called /\ g.class = classes
        /\ g.material = materials
        /\ g.set = f.set /\ g.property = f.property /\ g.ref = f.ref /\ g.code = f.code
    BY <1>1, <2>1, <2>2, <2>3, <2>4 DEF WriteFiles
  <2>6. QED
    BY <2>5 DEF types, called, classes, materials
<1> HIDE DEF g
<1>13. \A o \in Occ : /\ g.type[o] = Assigned(f, o)
                      /\ g.class[o] = f.class[o] /\ g.material[o] = f.material[o]
  BY <1>10, <1>11
<1>14. \A o \in Occ : f.type[o] # NoType =>
         LET t == f.type[o]
             u == Assigned(f, o)
         IN  /\ g.name[u] = f.name[t] /\ g.class[u] = f.class[t] /\ g.material[u] = f.material[t]
  <2> TAKE o \in Occ
  <2> HAVE f.type[o] # NoType
  <2>1. Assigned(f, o) \in Types
    BY AssignedFacts, WriteAssumption
  <2>2. QED
    BY <1>3, <1>10, <1>11, <2>1
<1>15. \A t \in Types : t[1] # writes \/ t = TheType =>
         /\ g.name[t] = f.name[t] /\ g.class[t] = f.class[t] /\ g.material[t] = f.material[t]
  BY <1>4, <1>10, <1>11
<1> HIDE DEF f
<1>16. QED
  BY <1>7, <1>11, <1>13, <1>14, <1>15 DEF f

LEMMA LastOfFacts ==
  ASSUME NEW S, S \subseteq Occ, S # {}
  PROVE  LastOf(S) \in S
<1> DEFINE I == {i \in DOMAIN Rows : Rows[i] \in S}
           L == Len(Rows)
           D == {n \in 0..L : L - n \in I}
<1>1. DOMAIN Rows = 1..L /\ L \in Nat
  BY RowFacts
<1>2. PICK i \in DOMAIN Rows : Rows[i] \in S
  BY DEF Occ
<1>3. L - i \in D
  BY <1>1, <1>2
<1>4. D \subseteq Nat /\ D # {}
  BY <1>3
<1>5. I \subseteq 1..L /\ \A k \in I : k \in Int /\ L - k \in D
  BY <1>1
<1>8. \A n \in D : n \in Nat /\ L - n \in I
  OBVIOUS
<1> HIDE DEF D
<1>9. PICK n \in D : \A m \in D : n <= m
  BY <1>4, LeastNumber
<1>10. n \in Nat /\ L - n \in I
  BY <1>8
<1> HIDE DEF L
<1>11. \A k \in I : k <= L - n
  <2> TAKE k \in I
  <2>1. L \in Nat /\ k \in Int /\ n <= L - k
    BY <1>1, <1>5, <1>9
  <2>2. QED
    BY <1>10, <2>1
<1>12. L - n \in DOMAIN Rows /\ Rows[L - n] \in S /\ L - n \in Int
  BY <1>1, <1>10
<1>13. \A j \in DOMAIN Rows : j > L - n => Rows[j] \notin S
  <2> TAKE j \in DOMAIN Rows
  <2>1. j \in Int
    BY <1>1 DEF L
  <2>2. Rows[j] \in S => j <= L - n
    BY <1>11
  <2>3. QED
    BY <1>12, <2>1, <2>2
<1>6. \E k \in DOMAIN Rows : Rows[k] \in S /\ \A j \in DOMAIN Rows : j > k => Rows[j] \notin S
  BY <1>12, <1>13
<1>7. QED
  BY <1>6 DEF LastOf

(* What is written: types are divided, and then what was routed is applied.  *)
LEMMA AppliedFacts ==
  ASSUME Planned, ~Conflicting(source)
  PROVE  LET g == Divided(source)
             h == Applied(source)
         IN  /\ h \in WriteFiles /\ h.type = g.type /\ h.set = g.set
             /\ \A r \in Routed(source) :
                  /\ r.field = "typeName" /\ r.to \in Types => h.name[r.to] = r.value
                  /\ r.field = "class" => h.class[r.to] = r.value
                  /\ r.field = "material" => h.material[r.to] = r.value
             /\ \A x \in Named :
                  /\ x \in Types /\ (\A r \in Routed(source) : ~(r.to = x /\ r.field = "typeName")) =>
                       h.name[x] = g.name[x]
                  /\ (\A r \in Routed(source) : ~(r.to = x /\ r.field = "class")) => h.class[x] = g.class[x]
                  /\ (\A r \in Routed(source) : ~(r.to = x /\ r.field = "material")) =>
                       h.material[x] = g.material[x]
             /\ \A s \in Occ :
                  \/ \E r \in Routed(source) : /\ r.field = "property" /\ r.to \in Occ /\ g.set[r.to] = s
                                               /\ h.property[s] = r.value
                  \/ /\ \A r \in Routed(source) : r.field = "property" /\ r.to \in Occ => g.set[r.to] # s
                     /\ h.property[s] = g.property[s]
<1> DEFINE g == Divided(source)
           due == Routed(source)
           is(x, field) == \E r \in due : r.to = x /\ r.field = field
           new(x, field) == (CHOOSE r \in due : r.to = x /\ r.field = field).value
           writers(s) == {o \in Occ : g.set[o] = s /\ is(o, "property")}
           called == [t \in Types |-> IF is(t, "typeName") THEN new(t, "typeName") ELSE g.name[t]]
           classes == [x \in Occ \cup Types |-> IF is(x, "class") THEN new(x, "class") ELSE g.class[x]]
           materials == [x \in Occ \cup Types |-> IF is(x, "material") THEN new(x, "material") ELSE g.material[x]]
           properties == [s \in Occ |-> IF writers(s) = {} THEN g.property[s]
                                        ELSE new(LastOf(writers(s)), "property")]
           codes == Codes(source)
           h == [g EXCEPT !.name = called, !.class = classes, !.material = materials,
                          !.property = properties, !.code = codes]
<1>1. g \in WriteFiles
  BY DividedFacts
<1>2. Applied(source) = h
  BY DEF Applied
<1>3. \A r \in due : /\ r.to \in Named /\ r.value \in Text
                      /\ r.field \in {"typeName", "material", "class", "property"}
  BY RoutedTypes
<1>4. \A r, s \in due : r.to = s.to /\ r.field = s.field => r.value = s.value
  BY DEF Conflicting
<1> HIDE DEF due
<1>5. \A x, field : is(x, field) => new(x, field) \in Text
  <2> TAKE x, field
  <2> HAVE is(x, field)
  <2>1. (CHOOSE r \in due : r.to = x /\ r.field = field) \in due
    OBVIOUS
  <2>2. QED
    BY <1>3, <2>1
<1>6. \A r \in due : is(r.to, r.field) /\ new(r.to, r.field) = r.value
  <2> TAKE r \in due
  <2> DEFINE c == CHOOSE q \in due : q.to = r.to /\ q.field = r.field
  <2>1. c \in due /\ c.to = r.to /\ c.field = r.field
    OBVIOUS
  <2> HIDE DEF c
  <2>2. c.value = r.value
    BY <1>4, <2>1
  <2>3. QED
    BY <2>2 DEF c
<1>7. \A s \in Occ : writers(s) # {} => LastOf(writers(s)) \in writers(s)
  BY LastOfFacts
<1>8. codes \in [Occ -> Text]
  <2> DEFINE rows(r) == {o \in Occ : source.ref[o] = r /\ cells[[sheet |-> "Uniclass", of |-> o, field |-> "code"]] # ""}
  <2>1. \A r \in Occ : rows(r) # {} => LastOf(rows(r)) \in rows(r)
    BY LastOfFacts
  <2>2. \A o \in Occ : [sheet |-> "Uniclass", of |-> o, field |-> "code"] \in Cells
    BY CellsThere
  <2>3. \A o \in Occ : cells[[sheet |-> "Uniclass", of |-> o, field |-> "code"]] \in Blankable
    BY <2>2 DEF Planned
  <2>4. \A r \in Occ : source.code[r] \in Text
    BY DEF Planned, WriteFiles
  <2>5. \A r \in Occ : rows(r) # {} =>
          cells[[sheet |-> "Uniclass", of |-> LastOf(rows(r)), field |-> "code"]] \in Text
    BY <2>1, <2>3 DEF Blankable
  <2>6. codes = [r \in Occ |-> IF rows(r) = {} THEN source.code[r]
                   ELSE cells[[sheet |-> "Uniclass", of |-> LastOf(rows(r)), field |-> "code"]]]
    BY DEF Codes
  <2> HIDE DEF rows, codes
  <2>7. QED
    BY <2>4, <2>5, <2>6
<1> HIDE DEF is, new, writers, codes
<1>9. /\ called \in [Types -> Text] /\ classes \in [Named -> Text] /\ materials \in [Named -> Blankable]
      /\ properties \in [Occ -> Text]
  <2>1. called \in [Types -> Text]
    BY <1>1, <1>5 DEF WriteFiles
  <2>2. classes \in [Named -> Text]
    BY <1>1, <1>5 DEF WriteFiles, Named
  <2>3. materials \in [Named -> Blankable]
    BY <1>1, <1>5 DEF WriteFiles, Named, Blankable
  <2>4. properties \in [Occ -> Text]
    <3>1. \A s \in Occ : writers(s) # {} => is(LastOf(writers(s)), "property")
      BY <1>7 DEF writers
    <3>2. QED
      BY <1>1, <1>5, <3>1 DEF WriteFiles
  <2>5. QED
    BY <2>1, <2>2, <2>3, <2>4
<1> HIDE DEF g
<1>10. /\ h \in WriteFiles /\ h.name = called /\ h.class = classes /\ h.material = materials
       /\ h.property = properties /\ h.type = g.type /\ h.set = g.set
  <2> HIDE DEF called, classes, materials, properties
  <2>1. QED
    BY <1>1, <1>8, <1>9 DEF WriteFiles
<1> HIDE DEF h
<1>11. \A r \in due :
         /\ r.field = "typeName" /\ r.to \in Types => h.name[r.to] = r.value
         /\ r.field = "class" => h.class[r.to] = r.value
         /\ r.field = "material" => h.material[r.to] = r.value
  BY <1>3, <1>6, <1>10 DEF Named
<1>12. \A x \in Named :
         /\ x \in Types /\ ~is(x, "typeName") => h.name[x] = g.name[x]
         /\ ~is(x, "class") => h.class[x] = g.class[x]
         /\ ~is(x, "material") => h.material[x] = g.material[x]
  BY <1>10 DEF Named
<1>13. \A s \in Occ :
         \/ \E r \in due : /\ r.field = "property" /\ r.to \in Occ /\ g.set[r.to] = s
                            /\ h.property[s] = r.value
         \/ /\ \A r \in due : r.field = "property" /\ r.to \in Occ => g.set[r.to] # s
            /\ h.property[s] = g.property[s]
  <2> TAKE s \in Occ
  <2>1. CASE writers(s) = {}
    <3>1. \A r \in due : r.field = "property" /\ r.to \in Occ => g.set[r.to] # s
      BY <2>1 DEF writers, is
    <3>2. h.property[s] = g.property[s]
      BY <1>10, <2>1
    <3>3. QED
      BY <3>1, <3>2
  <2>2. CASE writers(s) # {}
    <3>1. LastOf(writers(s)) \in writers(s)
      BY <1>7, <2>2
    <3>2. PICK r \in due : r.to = LastOf(writers(s)) /\ r.field = "property"
      BY <3>1 DEF writers, is
    <3>3. h.property[s] = new(r.to, "property")
      BY <1>10, <2>2, <3>2
    <3>4. QED
      BY <1>6, <3>1, <3>2, <3>3 DEF writers
  <2>3. QED
    BY <2>1, <2>2
<1>14. \A x \in Named :
         /\ x \in Types /\ (\A r \in due : ~(r.to = x /\ r.field = "typeName")) => h.name[x] = g.name[x]
         /\ (\A r \in due : ~(r.to = x /\ r.field = "class")) => h.class[x] = g.class[x]
         /\ (\A r \in due : ~(r.to = x /\ r.field = "material")) => h.material[x] = g.material[x]
  BY <1>12 DEF is
<1>15. h \in WriteFiles /\ h.type = g.type /\ h.set = g.set
  BY <1>10
<1> HIDE DEF called, classes, materials, properties, codes
<1>16. g = Divided(source) /\ due = Routed(source)
  BY DEF g, due
<1>17. QED
  BY <1>2, <1>11, <1>13, <1>14, <1>15, <1>16

-----------------------------------------------------------------------------
(* Where what is written comes from: a cell that asks, by its field.         *)
LEMMA Origins ==
  ASSUME Planned, NEW r \in Routed(source)
  PROVE  \E w \in Asking(source) :
           /\ r.field = w.field /\ r.value = cells[w]
           /\ r.field # "class" =>
                \/ /\ w.of \in Occ /\ Owner(source, w) = source.type[w.of]
                   /\ source.type[w.of] \in Types /\ r.to = Assigned(source, w.of)
                \/ Owner(source, w) = w.of /\ r.to = w.of
                \/ /\ w.of = TheType /\ Owner(source, w) = TheType
                   /\ \E o \in Occ : /\ source.type[o] = TheType /\ r.to = Assigned(source, o)
                                     /\ r.to # source.type[o]
           /\ r.field = "class" =>
                \/ r.to \in Sharing(source, w) \cup {w.of}
                \/ \E o \in Occ : /\ source.type[o] \in Sharing(source, w) \cup {w.of}
                                  /\ r.to = Assigned(source, o) /\ r.to # source.type[o]
<1>1. PICK q \in Requests(source) :
           /\ r = [to |-> r.to, field |-> q.field, value |-> q.value]
           /\ \/ q.by # q.to /\ r.to = Assigned(source, q.by)
              \/ q.by = q.to /\ r.to = q.to
              \/ /\ q.by = q.to
                 /\ \E o \in Occ : /\ source.type[o] = q.to /\ r.to = Assigned(source, o)
                                   /\ r.to # source.type[o]
  BY RoutedFacts
<1>2. r.field = q.field /\ r.value = q.value
  BY <1>1
<1>3. q.by # q.to => q.by \in Occ /\ q.to = source.type[q.by] /\ q.to \in Types
  BY RequestFacts
<1>4. CASE \E c \in Asking(source) :
             q = [by |-> c.of, to |-> Owner(source, c), field |-> c.field, value |-> cells[c]]
  <2>1. PICK w \in Asking(source) :
          q = [by |-> w.of, to |-> Owner(source, w), field |-> w.field, value |-> cells[w]]
    BY <1>4
  <2>2. q.by = w.of /\ q.to = Owner(source, w) /\ q.field = w.field /\ q.value = cells[w]
    BY <2>1
  <2>3. w \in Cells
    BY AskingFacts
  <2>4. w.field = "class" => Owner(source, w) = w.of
    BY <2>3, ReadFacts
  <2>5. CASE q.by # q.to /\ r.to = Assigned(source, q.by)
    <3>1. w.field # "class" /\ w.of \in Occ /\ Owner(source, w) = source.type[w.of]
          /\ source.type[w.of] \in Types /\ r.to = Assigned(source, w.of)
      BY <1>3, <2>2, <2>4, <2>5
    <3>2. QED
      BY <1>2, <2>2, <3>1
  <2>6. CASE q.by = q.to /\ r.to = q.to
    BY <1>2, <2>2, <2>6
  <2>7. CASE q.by = q.to /\ \E o \in Occ : /\ source.type[o] = q.to /\ r.to = Assigned(source, o)
                                           /\ r.to # source.type[o]
    <3>1. PICK o \in Occ : /\ source.type[o] = q.to /\ r.to = Assigned(source, o)
                           /\ r.to # source.type[o]
      BY <2>7
    <3>2. source.type[o] \in Types
      BY <3>1, AssignedFacts, WriteAssumption
    <3>3. w.of = TheType
      BY <2>2, <2>3, <2>7, <3>1, <3>2, CellFacts, WriteAssumption
    <3>4. source.type[o] = TheType /\ source.type[o] \in {w.of} /\ Owner(source, w) = TheType
      BY <2>2, <2>7, <3>1, <3>3
    <3>5. QED
      BY <1>2, <2>2, <3>1, <3>3, <3>4
  <2>8. QED
    BY <1>1, <2>5, <2>6, <2>7
<1>5. CASE /\ q.by = q.to /\ q.field = "class"
           /\ \E c \in Asking(source) :
                c.field = "class" /\ q.to \in Sharing(source, c) \ {c.of} /\ q.value = cells[c]
  BY <1>1, <1>2, <1>5
<1>6. QED
  BY <1>4, <1>5, RequestFacts

-----------------------------------------------------------------------------
(* What a write that is sound may take for granted.  Before an output was   *)
(* taken the source is what was exported; after that, the workbook knows    *)
(* what every cell held, and what was asked for has been done.              *)
Lasting == {"typeName", "property", "class"}
Exact == /\ \A c \in Cells : exported[c] = Read(source, c)
         /\ \A k \in DOMAIN baseline : baseline[k] = Read(source, k)
Settled ==
  \A c \in Cells : c.field \in Lasting /\ Owner(source, c) # NoType =>
    /\ c \in DOMAIN baseline /\ baseline[c] = exported[c]
    /\ written[c] \notin {"", exported[c]} => Read(source, c) = written[c]
History == OneClass(source) /\ (written = <<>> => Exact) /\ (written # <<>> => Settled)

(* The write is planned, has a history and no conflicts, and was applied.   *)
Done == Planned /\ History /\ ~Conflicting(source) /\ output = Applied(source)

LEMMA FieldFacts ==
  \A c \in Cells : c.field \in {"typeName", "material", "class", "property", "code"}
  BY CellFacts

LEMMA SameCell ==
  \A c, d \in Cells : c.of = d.of /\ c.field = d.field => c = d
  BY CellFacts

LEMMA CellsOfOccurrences ==
  /\ \A c \in Cells : c.field \in {"property", "material"} => c.of \in Occ
  /\ \A c \in Cells : c.of \in Occ \/ c.of = TheType
  BY CellFacts

(* A cell asks exactly when it is wanted.                                   *)
LEMMA AskedIsWanted ==
  ASSUME Planned, History, NEW c \in Looked
  PROVE  c \in Asking(source) <=> c \in Wanted
<1>1. c \in Cells /\ c.sheet # "Uniclass" /\ c.field # "code" /\ (c.field = "material" => written = <<>>)
  BY CellFacts DEF Looked
<1>2. CASE written = <<>>
  <2>1. exported[c] = Read(source, c) /\ Exported(source, c) = exported[c]
    BY <1>1, <1>2 DEF History, Exact, Exported
  <2>2. QED
    BY <1>1, <2>1 DEF Asking, Considered, Wanted
<1>3. CASE written # <<>>
  <2>1. c.field \in Lasting
    BY <1>1, <1>3, FieldFacts DEF Lasting
  <2>2. Owner(source, c) # NoType => Exported(source, c) = exported[c]
    BY <1>1, <1>3, <2>1 DEF History, Settled, Exported
  <2>3. c.field # "material"
    BY <2>1 DEF Lasting
  <2>4. QED
    BY <1>1, <2>2, <2>3 DEF Asking, Considered, Wanted
<1>4. QED
  BY <1>2, <1>3

LEMMA DoneFacts ==
  ASSUME Done
  PROVE  /\ source \in WriteFiles /\ output \in WriteFiles
         /\ \A o \in Occ : /\ output.type[o] = Assigned(source, o)
                           /\ output.type[o] = NoType <=> source.type[o] = NoType
         /\ output.set = source.set
<1>1. Planned /\ ~Conflicting(source) /\ output = Applied(source)
  BY DEF Done
<1>2. output \in WriteFiles /\ output.type = Divided(source).type /\ output.set = Divided(source).set
  BY <1>1, AppliedFacts
<1>3. \A o \in Occ : Divided(source).type[o] = Assigned(source, o)
  BY <1>1, DividedFacts
<1>4. Divided(source).set = source.set
  BY <1>1, DividedFacts
<1>5. \A o \in Occ : Assigned(source, o) = NoType <=> source.type[o] = NoType
  BY <1>1, AssignedFacts
<1>6. source \in WriteFiles
  BY <1>1 DEF Planned
<1>7. QED
  BY <1>2, <1>3, <1>4, <1>5, <1>6

LEMMA AppliedAgain ==
  ASSUME Done
  PROVE  LET g == Divided(source)
         IN  /\ \A r \in Routed(source) :
                  /\ r.field = "typeName" /\ r.to \in Types => output.name[r.to] = r.value
                  /\ r.field = "class" => output.class[r.to] = r.value
                  /\ r.field = "material" => output.material[r.to] = r.value
             /\ \A x \in Named :
                  /\ x \in Types /\ (\A r \in Routed(source) : ~(r.to = x /\ r.field = "typeName")) =>
                       output.name[x] = g.name[x]
                  /\ (\A r \in Routed(source) : ~(r.to = x /\ r.field = "class")) => output.class[x] = g.class[x]
                  /\ (\A r \in Routed(source) : ~(r.to = x /\ r.field = "material")) =>
                       output.material[x] = g.material[x]
             /\ \A s \in Occ :
                  \/ \E r \in Routed(source) : /\ r.field = "property" /\ r.to \in Occ /\ source.set[r.to] = s
                                               /\ output.property[s] = r.value
                  \/ /\ \A r \in Routed(source) : r.field = "property" /\ r.to \in Occ => source.set[r.to] # s
                     /\ output.property[s] = source.property[s]
<1>1. Planned /\ ~Conflicting(source) /\ output = Applied(source)
  BY DEF Done
<1>2. Divided(source).set = source.set /\ Divided(source).property = source.property
  BY <1>1, DividedFacts
<1>3. QED
  BY <1>1, <1>2, AppliedFacts

(* What is wanted reads back from the output.                               *)
LEMMA AskedIsDone ==
  ASSUME Done, Verified
  PROVE  AsAsked
<1> SUFFICES ASSUME NEW c \in Wanted \cap Looked
             PROVE  Read(output, c) = cells[c]
  BY DEF AsAsked
<1>1. Planned /\ History
  BY DEF Done
<1>2. c \in Asking(source) /\ c \in Cells /\ c.field # "code"
  BY <1>1, AskedIsWanted DEF Looked
<1>3. Owner(source, c) # NoType
  BY <1>2, AskingFacts
<1> DEFINE q == [by |-> c.of, to |-> Owner(source, c), field |-> c.field, value |-> cells[c]]
<1>4. q \in Requests(source)
  BY <1>2, AskedRequests
<1>5. /\ c.of # Owner(source, c) =>
           [to |-> Assigned(source, c.of), field |-> c.field, value |-> cells[c]] \in Routed(source)
      /\ c.of = Owner(source, c) => [to |-> c.of, field |-> c.field, value |-> cells[c]] \in Routed(source)
  <2>1. q.by = c.of /\ q.to = Owner(source, c) /\ q.field = c.field /\ q.value = cells[c]
    OBVIOUS
  <2> HIDE DEF q
  <2>2. QED
    BY <1>1, <1>4, <2>1, RequestsRouted
<1>6. /\ c.of # Owner(source, c) => Value(output, Assigned(source, c.of), c.field) = cells[c]
      /\ c.of = Owner(source, c) => Value(output, c.of, c.field) = cells[c]
  BY <1>5 DEF Verified
<1>7. CASE c.field \in {"class", "property"}
  BY <1>2, <1>6, <1>7 DEF Owner, Read
<1>8. CASE c.field = "typeName" /\ c.of = TheType
  <2>1. TheType \notin Occ
    BY WriteAssumption DEF Types
  <2>2. Owner(source, c) = c.of /\ Owner(output, c) = c.of
    BY <1>8, <2>1 DEF Owner
  <2>3. QED
    BY <1>6, <2>2 DEF Read
<1>9. CASE c.field = "typeName" /\ c.of \in Occ
  <2>1. Owner(source, c) = source.type[c.of] /\ Owner(output, c) = output.type[c.of]
    BY <1>9 DEF Owner
  <2>2. source.type[c.of] \in Types
    BY <1>3, <1>9, <2>1, DoneFacts DEF WriteFiles
  <2>3. c.of # Owner(source, c)
    BY <1>9, <2>1, <2>2, WriteAssumption
  <2>4. output.type[c.of] = Assigned(source, c.of)
    BY <1>9, DoneFacts
  <2>5. QED
    BY <1>6, <2>1, <2>3, <2>4 DEF Read
<1>10. CASE c.field = "material"
  <2> DEFINE o == c.of
             u == output.type[o]
  <2>1. o \in Occ
    BY <1>2, <1>10, CellsOfOccurrences
  <2>2. Owner(source, c) = MaterialOwner(source, o) /\ Owner(output, c) = MaterialOwner(output, o)
    BY <1>10 DEF Owner
  <2>3. /\ MaterialOwner(output, MaterialOwner(output, o)) = MaterialOwner(output, o)
        /\ \A t \in Types : MaterialOwner(output, t) = t
    BY <2>1, DoneFacts, MaterialFacts
  <2>4. Read(output, c) = output.material[MaterialOwner(output, o)]
    BY <1>10, <2>2, <2>3 DEF Read, Value
  <2>5. CASE MaterialOwner(source, o) = o
    BY <1>6, <1>10, <2>2, <2>4, <2>5 DEF Value
  <2>6. CASE MaterialOwner(source, o) # o
    <3>1. /\ source.material[o] = "" /\ source.type[o] \in Types
          /\ Owner(source, c) = source.type[o]
      BY <2>1, <2>2, <2>6, DoneFacts, MaterialFacts
    <3>2. u = Assigned(source, o) /\ u # NoType /\ u \in Types
      <4>1. source.type[o] # NoType
        BY <3>1, WriteAssumption
      <4>2. QED
        BY <2>1, <4>1, DoneFacts DEF WriteFiles
    <3>3. output.material[u] = cells[c]
      BY <1>6, <1>10, <2>2, <2>3, <2>6, <3>2 DEF Value
    <3>4. cells[c] # ""
      BY <1>2, AskingFacts
    <3>5. \A r \in Routed(source) : ~(r.to = o /\ r.field = "material")
      <4> SUFFICES ASSUME NEW r \in Routed(source), r.to = o, r.field = "material"
                   PROVE  FALSE
        OBVIOUS
      <4>1. PICK w \in Asking(source) :
              /\ w.field = "material"
              /\ \/ w.of \in Occ /\ source.type[w.of] \in Types /\ r.to = Assigned(source, w.of)
                 \/ Owner(source, w) = w.of /\ r.to = w.of
                 \/ \E p \in Occ : source.type[p] = TheType /\ r.to = Assigned(source, p)
        BY <1>1, Origins
      <4>2. \A p \in Occ : Assigned(source, p) \in Types \cup {NoType}
        BY <1>1, AssignedFacts
      <4>3. Owner(source, w) = w.of /\ w.of = o
        BY <2>1, <4>1, <4>2, WriteAssumption
      <4>4. w \in Cells
        BY AskingFacts
      <4>5. w = c
        BY <1>2, <1>10, <4>1, <4>3, <4>4, CellFacts
      <4>6. QED
        BY <2>2, <2>6, <4>3, <4>5
    <3>6. output.material[o] = ""
      <4>1. output.material[o] = Divided(source).material[o]
        BY <2>1, <3>5, AppliedAgain DEF Named
      <4>2. QED
        BY <1>1, <2>1, <3>1, <4>1, DividedFacts
    <3>7. MaterialOwner(output, o) = u
      BY <2>1, <3>2, <3>3, <3>4, <3>6 DEF MaterialOwner
    <3>8. QED
      BY <2>4, <3>3, <3>7
  <2>7. QED
    BY <2>5, <2>6
<1>11. QED
  BY <1>2, <1>7, <1>8, <1>9, <1>10, CellFacts

(* An occurrence whose type is asked for a new name was touched: by its own *)
(* row or by the row of its type.                                           *)
LEMMA RenamedIsTouched ==
  ASSUME Done, NEW c \in Looked, c.field = "typeName", c.of \in Occ, source.type[c.of] # NoType,
         NamesFor(source, c.of) # {}
  PROVE  Touched(c)
<1> DEFINE o == c.of
           t == source.type[o]
<1>1. PICK x \in Requests(source) : x.field = "typeName" /\ x.to = t /\ x.by \in {o, x.to}
  BY DEF NamesFor
<1>2. Planned /\ History
  BY DEF Done
<1>3. PICK w \in Asking(source) :
        x = [by |-> w.of, to |-> Owner(source, w), field |-> w.field, value |-> cells[w]]
  BY <1>1, <1>2, RequestFacts
<1>4. w.field = "typeName" /\ Owner(source, w) = t /\ w.of \in {o, t}
  BY <1>1, <1>3
<1>5. w \in Looked
  BY <1>4, AskingFacts DEF Looked
<1>6. w \in Wanted
  BY <1>2, <1>5, AskedIsWanted
<1>7. CASE w.of = o
  <2>1. w = c
    BY <1>4, <1>5, <1>7, CellFacts DEF Looked
  <2>2. QED
    BY <1>6, <2>1 DEF Touched
<1>8. CASE w.of = t
  <2>1. Owner(source, c) = t
    BY DEF Owner
  <2>2. QED
    BY <1>4, <1>6, <1>8, <2>1 DEF Touched
<1>9. QED
  BY <1>4, <1>7, <1>8

LEMMA PropertiesStay ==
  ASSUME Done, NEW c \in Looked, c.field = "property", ~Touched(c)
  PROVE  Read(output, c) = Read(source, c)
<1>1. c \in Cells /\ c.of \in Occ
  BY CellFacts, WriteAssumption DEF Looked, Types
<1>2. Planned /\ History
  BY DEF Done
<1> DEFINE s == source.set[c.of]
<1>3. s \in Occ /\ output.set = source.set
  BY <1>1, DoneFacts DEF WriteFiles
<1>4. \A r \in Routed(source) : r.field = "property" /\ r.to \in Occ => source.set[r.to] # s
  <2> SUFFICES ASSUME NEW r \in Routed(source), r.field = "property", r.to \in Occ, source.set[r.to] = s
               PROVE  FALSE
    OBVIOUS
  <2>1. PICK w \in Asking(source) :
          /\ w.field = "property"
          /\ \/ Owner(source, w) = source.type[w.of] /\ source.type[w.of] \in Types
             \/ Owner(source, w) = w.of /\ r.to = w.of
             \/ w.of = TheType
    BY <1>2, Origins
  <2>2. w \in Cells
    BY AskingFacts
  <2>3. Owner(source, w) = w.of /\ w.of \in Occ
    BY <2>1, <2>2, CellsOfOccurrences DEF Owner
  <2>4. r.to = w.of
    BY <2>1, <2>3, WriteAssumption DEF Types
  <2>5. w \in Looked
    BY <2>1, <2>2 DEF Looked
  <2>6. w \in Wanted
    BY <1>2, <2>5, AskedIsWanted
  <2>7. Shared(w) = source.set[w.of] /\ Shared(c) = source.set[c.of]
    BY <2>1 DEF Shared
  <2>8. QED
    BY <2>1, <2>4, <2>6, <2>7 DEF Touched
<1>5. output.property[s] = source.property[s]
  BY <1>3, <1>4, AppliedAgain
<1>6. QED
  BY <1>3, <1>5 DEF Owner, Read, Value

LEMMA ClassesStay ==
  ASSUME Done, NEW c \in Looked, c.field = "class", ~Touched(c)
  PROVE  Read(output, c) = Read(source, c)
<1>1. c \in Cells /\ c.of \in Occ \cup {TheType}
  BY CellFacts DEF Looked
<1>2. Planned /\ History
  BY DEF Done
<1>3. TheType \notin Occ /\ TheType # NoType /\ TheType \in Types /\ Occ \cap (Types \cup {NoType}) = {}
  BY WriteAssumption DEF Types
<1>4. \A r \in Routed(source) : ~(r.to = c.of /\ r.field = "class")
  <2> SUFFICES ASSUME NEW r \in Routed(source), r.to = c.of, r.field = "class"
               PROVE  FALSE
    OBVIOUS
  <2>1. PICK w \in Asking(source) :
          /\ w.field = "class"
          /\ \/ r.to \in Sharing(source, w) \cup {w.of}
             \/ \E o \in Occ : r.to = Assigned(source, o) /\ r.to # source.type[o]
    BY <1>2, Origins
  <2>2. w \in Cells
    BY AskingFacts
  <2>3. w \in Looked
    BY <2>1, <2>2 DEF Looked
  <2>4. w \in Wanted
    BY <1>2, <2>3, AskedIsWanted
  <2>5. ~ \E o \in Occ : r.to = Assigned(source, o) /\ r.to # source.type[o]
    BY <1>1, <1>2, <1>3, AssignedFacts
  <2>6. CASE r.to = w.of
    <3>1. w = c
      BY <1>1, <2>1, <2>2, <2>6, SameCell
    <3>2. QED
      BY <2>4, <3>1 DEF Touched
  <2>7. CASE r.to \in Sharing(source, w)
    <3> DEFINE t == IF w.of \in Occ THEN source.type[w.of] ELSE w.of
    <3>1. t # NoType /\ r.to \in Members(source, t) \cup {t}
      BY <2>7 DEF Sharing
    <3>2. Shared(w) = t
      BY <2>1, <3>1 DEF Shared
    <3>3. Shared(c) = t
      <4>1. CASE c.of \in Occ
        <5>1. t \notin Occ
          BY <1>2, <1>3, <2>2, CellFacts DEF Planned, WriteFiles
        <5>2. source.type[c.of] = t
          BY <3>1, <4>1, <5>1 DEF Members
        <5>3. QED
          BY <3>1, <4>1, <5>2 DEF Shared
      <4>2. CASE c.of = TheType
        <5>1. t = TheType
          BY <1>3, <3>1, <4>2 DEF Members
        <5>2. QED
          BY <1>3, <4>2, <5>1 DEF Shared
      <4>3. QED
        BY <1>1, <4>1, <4>2
    <3>4. QED
      BY <2>1, <2>4, <3>2, <3>3 DEF Touched
  <2>8. QED
    BY <2>1, <2>5, <2>6, <2>7
<1>5. c.of \in Named
  BY <1>1, <1>3 DEF Named
<1>6. output.class[c.of] = Divided(source).class[c.of]
  BY <1>4, <1>5, AppliedAgain
<1>7. Divided(source).class[c.of] = source.class[c.of]
  BY <1>1, <1>2, <1>3, DividedFacts
<1>8. QED
  BY <1>6, <1>7 DEF Owner, Read, Value

(* No occurrence is asked two names for its type.                           *)
LEMMA OneName ==
  ASSUME Planned, ~Contradictory(source), NEW o \in Occ,
         NEW m \in NamesFor(source, o), NEW n \in NamesFor(source, o)
  PROVE  m = n
<1> DEFINE N == NamesFor(source, o)
           row == [sheet |-> "Elements", of |-> o, field |-> "typeName"]
           top == [sheet |-> "Types", of |-> TheType, field |-> "typeName"]
<1>1. N \subseteq {cells[row], cells[top]}
  <2> SUFFICES ASSUME NEW v \in N
               PROVE  v \in {cells[row], cells[top]}
    OBVIOUS
  <2>1. PICK x \in Requests(source) : /\ x.field = "typeName" /\ x.to = source.type[o]
                                      /\ x.by \in {o, x.to} /\ x.value = v
    BY DEF NamesFor
  <2>2. PICK w \in Asking(source) :
          x = [by |-> w.of, to |-> Owner(source, w), field |-> w.field, value |-> cells[w]]
    BY <2>1, RequestFacts
  <2>3. w.field = "typeName" /\ w.of \in {o, source.type[o]} /\ v = cells[w]
    BY <2>1, <2>2
  <2>4. w \in Cells /\ row \in Cells /\ top \in Cells
    BY AskingFacts, CellsThere
  <2>5. source.type[o] \in Types \cup {NoType}
    BY DEF Planned, WriteFiles
  <2>6. w.of \in {o, TheType}
    BY <2>3, <2>4, <2>5, CellsOfOccurrences, WriteAssumption
  <2>7. w = row \/ w = top
    <3>1. row.of = o /\ row.field = "typeName" /\ top.of = TheType /\ top.field = "typeName"
      OBVIOUS
    <3> HIDE DEF row, top
    <3>2. QED
      BY <2>3, <2>4, <2>6, <3>1, SameCell
  <2>8. QED
    BY <2>3, <2>7
<1>2. ~(Cardinality(N) > 1)
  BY DEF Contradictory
<1> HIDE DEF row, top
<1>3. IsFiniteSet(N)
  <2>1. IsFiniteSet({cells[row]} \cup {cells[top]})
    BY FS_AddElement, FS_Singleton
  <2>2. QED
    BY <1>1, <2>1, FS_Subset
<1>4. ASSUME m # n PROVE FALSE
  <2>1. IsFiniteSet({m}) /\ Cardinality({m}) = 1
    BY FS_Singleton
  <2>2. IsFiniteSet({m} \cup {n}) /\ Cardinality({m} \cup {n}) = 2
    BY <1>4, <2>1, FS_AddElement
  <2>3. {m} \cup {n} \subseteq N
    OBVIOUS
  <2>4. Cardinality({m} \cup {n}) <= Cardinality(N) /\ Cardinality(N) \in Nat
    BY <1>3, <2>3, FS_Subset, FS_CardinalityType
  <2> HIDE DEF N
  <2>5. QED
    BY <1>2, <2>2, <2>4
<1>5. QED
  BY <1>4

(* The name of the type that an occurrence keeps is not changed, unless its *)
(* own row or the type's asks for it.                                       *)
LEMMA NamesStay ==
  ASSUME Done, NEW c \in Looked, c.field = "typeName", ~Touched(c)
  PROVE  Read(output, c) = Read(source, c)
<1>1. c \in Cells
  BY DEF Looked
<1>2. Planned /\ History /\ ~Conflicting(source)
  BY DEF Done
<1>3. TheType \notin Occ /\ TheType # NoType /\ TheType \in Types /\ Occ \cap (Types \cup {NoType}) = {}
  BY WriteAssumption DEF Types
<1>4. \A w \in Asking(source) : w.field = "typeName" => w \in Wanted
  BY <1>2, AskingFacts, AskedIsWanted DEF Looked
<1>5. CASE c.of \notin Occ
  <2>1. c.of = TheType
    BY <1>1, <1>5, CellsOfOccurrences
  <2>2. \A r \in Routed(source) : ~(r.to = TheType /\ r.field = "typeName")
    <3> SUFFICES ASSUME NEW r \in Routed(source), r.to = TheType, r.field = "typeName"
                 PROVE  FALSE
      OBVIOUS
    <3>1. PICK w \in Asking(source) :
            /\ w.field = "typeName"
            /\ \/ /\ w.of \in Occ /\ Owner(source, w) = source.type[w.of]
                  /\ r.to = Assigned(source, w.of)
               \/ r.to = w.of
               \/ \E o \in Occ : r.to = Assigned(source, o) /\ r.to # source.type[o]
      BY <1>2, Origins
    <3>2. ~ \E o \in Occ : r.to = Assigned(source, o) /\ r.to # source.type[o]
      BY <1>2, AssignedFacts
    <3>3. CASE w.of \in Occ
      <4>1. Owner(source, w) = TheType
        BY <1>3, <3>1, <3>2, <3>3
      <4>2. QED
        BY <1>4, <2>1, <3>1, <4>1 DEF Touched
    <3>4. CASE w.of \notin Occ
      <4>1. w.of = c.of
        BY <2>1, <3>1, <3>2, <3>4
      <4>2. w = c
        BY <1>1, <3>1, <4>1, SameCell, AskingFacts
      <4>3. QED
        BY <1>4, <3>1, <4>2 DEF Touched
    <3>5. QED
      BY <3>3, <3>4
  <2>3. output.name[TheType] = Divided(source).name[TheType]
    BY <1>3, <2>2, AppliedAgain DEF Named
  <2>4. Divided(source).name[TheType] = source.name[TheType]
    BY <1>2, <1>3, DividedFacts
  <2>5. QED
    BY <1>3, <1>5, <2>1, <2>3, <2>4 DEF Owner, Read, Value
<1>6. CASE c.of \in Occ /\ source.type[c.of] = NoType
  <2>1. output.type[c.of] = NoType
    BY <1>6, DoneFacts
  <2>2. QED
    BY <1>6, <2>1 DEF Owner, Read, Value
<1>7. CASE c.of \in Occ /\ source.type[c.of] # NoType
  <2> DEFINE o == c.of
             t == source.type[o]
  <2>1. NamesFor(source, o) = {}
    BY <1>7, RenamedIsTouched
  <2>2. NameOf(source, o) = source.name[t]
    BY <2>1 DEF NameOf
  <2>3. Assigned(source, o) = t /\ t \in Types
    BY <1>2, <1>7, <2>2, AssignedFacts
  <2>4. output.type[o] = t
    BY <1>7, <2>3, DoneFacts
  <2>5. Divided(source).name[t] = source.name[t]
    BY <1>2, <1>7, <2>3, DividedFacts
  <2>6. ASSUME NEW r \in Routed(source), r.to = t, r.field = "typeName"
        PROVE  r.value = source.name[t]
    <3>1. PICK w \in Asking(source) :
            /\ w.field = "typeName" /\ r.value = cells[w]
            /\ \/ /\ w.of \in Occ /\ Owner(source, w) = source.type[w.of]
                  /\ r.to = Assigned(source, w.of) /\ source.type[w.of] \in Types
               \/ r.to = w.of
               \/ \E p \in Occ : r.to = Assigned(source, p) /\ r.to # source.type[p]
      BY <1>2, <2>6, Origins
    <3>2. w \in Wanted
      BY <1>4, <3>1
    <3>3. Owner(source, c) = t
      BY <1>7 DEF Owner
    <3>4. CASE w.of = t
      BY <3>1, <3>2, <3>3, <3>4 DEF Touched
    <3>5. CASE \E p \in Occ : r.to = Assigned(source, p) /\ r.to # source.type[p]
      BY <1>2, <1>7, <2>6, <3>5, AssignedFacts
    <3>6. CASE /\ w.of \in Occ /\ Owner(source, w) = source.type[w.of]
               /\ r.to = Assigned(source, w.of) /\ source.type[w.of] \in Types
      <4> DEFINE p == w.of
      <4>1. source.type[p] # NoType
        BY <3>6, WriteAssumption
      <4>2. source.type[p] = t
        BY <1>2, <2>3, <2>6, <3>6, <4>1, <1>7, AssignedTogether, ZenonT(60)
      <4>3. split
        <5> SUFFICES ASSUME ~split PROVE FALSE
          OBVIOUS
        <5>1. Shared(w) = t /\ Shared(c) = t
          BY <3>1, <3>3, <3>6, <4>2 DEF Shared
        <5>2. QED
          BY <3>1, <3>2, <5>1 DEF Touched
      <4>4. ~Contradictory(source)
        BY <1>2, <4>3 DEF Conflicting
      <4>5. r.value \in NamesFor(source, p)
        <5> DEFINE x == [by |-> p, to |-> t, field |-> "typeName", value |-> cells[w]]
        <5>1. x \in Requests(source)
          BY <3>1, <3>6, <4>2, AskedRequests
        <5>2. x.by = p /\ x.to = t /\ x.field = "typeName" /\ x.value = r.value
          BY <3>1
        <5> HIDE DEF x
        <5>3. QED
          BY <4>2, <5>1, <5>2 DEF NamesFor
      <4>6. NameOf(source, p) = r.value
        <5>1. \A n \in NamesFor(source, p) : n = r.value
          BY <1>2, <3>6, <4>4, <4>5, OneName
        <5>2. QED
          BY <4>5, <5>1 DEF NameOf
      <4>7. NameOf(source, p) = source.name[t] \/ Group(source, p) = Members(source, t)
        <5> SUFFICES ASSUME NameOf(source, p) # source.name[t], Group(source, p) # Members(source, t)
                     PROVE  FALSE
          OBVIOUS
        <5>1. Assigned(source, p) = <<writes, CHOOSE q \in Group(source, p) : TRUE>>
          BY <4>1, <4>2, <4>3 DEF Assigned
        <5>2. Assigned(source, p)[1] = writes
          BY <5>1
        <5>3. t \in {NoType, TheType} \cup ((1..(writes - 1)) \X Occ)
          BY <1>2, <1>7 DEF Planned, Used
        <5>4. t = Assigned(source, p)
          BY <2>6, <3>6
        <5>5. (CHOOSE q \in Group(source, p) : TRUE) \in Group(source, p)
          BY <3>6 DEF Group, Members
        <5>6. (CHOOSE q \in Group(source, p) : TRUE) \in Occ
          BY <5>5 DEF Group, Members
        <5>7. writes \in 1..MaxWrites /\ writes \notin 1..(writes - 1)
          <6>1. MaxWrites \in Nat
            BY WriteAssumption
          <6>2. QED
            BY <1>2, <6>1 DEF Planned
        <5>8. Assigned(source, p) \in (1..MaxWrites) \X Occ
          <6> DEFINE q == CHOOSE q \in Group(source, p) : TRUE
          <6>1. Assigned(source, p) = <<writes, q>> /\ q \in Occ
            BY <5>1, <5>6
          <6> HIDE DEF q
          <6>2. QED
            BY <5>7, <6>1
        <5>9. t # TheType /\ t # NoType
          BY <5>4, <5>8, <1>7, WriteAssumption
        <5>10. QED
          BY <5>2, <5>3, <5>4, <5>7, <5>9
      <4>8. CASE Group(source, p) = Members(source, t)
        <5>1. o \in Members(source, t)
          BY <1>7 DEF Members
        <5>2. NameOf(source, o) = NameOf(source, p)
          BY <4>8, <5>1 DEF Group
        <5>3. QED
          BY <2>2, <4>6, <5>2
      <4>9. QED
        BY <4>6, <4>7, <4>8
    <3>7. QED
      BY <2>6, <3>1, <3>4, <3>5, <3>6
  <2>7. output.name[t] = source.name[t]
    <3>1. CASE \E r \in Routed(source) : r.to = t /\ r.field = "typeName"
      BY <2>3, <2>6, <3>1, AppliedAgain
    <3>2. CASE \A r \in Routed(source) : ~(r.to = t /\ r.field = "typeName")
      BY <2>3, <2>5, <3>2, AppliedAgain DEF Named
    <3>3. QED
      BY <3>1, <3>2
  <2>8. QED
    BY <1>7, <2>4, <2>7 DEF Owner, Read, Value
<1>8. QED
  BY <1>5, <1>6, <1>7

(* Materials asked for are asked of occurrences or of the types they come from. *)
LEMMA MaterialOrigins ==
  ASSUME Planned, NEW r \in Routed(source), r.field = "material"
  PROVE  \E w \in Asking(source) :
           /\ w.field = "material" /\ w.of \in Occ
           /\ Owner(source, w) = MaterialOwner(source, w.of)
           /\ \/ r.to = w.of /\ Owner(source, w) = w.of
              \/ /\ r.to = Assigned(source, w.of) /\ Owner(source, w) = source.type[w.of]
                 /\ r.to \in Types /\ source.type[w.of] \in Types
<1>1. PICK w \in Asking(source) :
        /\ w.field = "material"
        /\ \/ /\ w.of \in Occ /\ Owner(source, w) = source.type[w.of]
              /\ source.type[w.of] \in Types /\ r.to = Assigned(source, w.of)
           \/ r.to = w.of /\ Owner(source, w) = w.of
           \/ w.of = TheType
  BY Origins
<1>2. w.of \in Occ /\ TheType \notin Occ
  BY <1>1, AskingFacts, CellsOfOccurrences, WriteAssumption DEF Types
<1>3. Owner(source, w) = MaterialOwner(source, w.of)
  BY <1>1 DEF Owner
<1>4. source.type[w.of] \in Types => Assigned(source, w.of) \in Types
  BY <1>2, AssignedFacts, WriteAssumption
<1>5. QED
  BY <1>1, <1>2, <1>3, <1>4

LEMMA MaterialsStay ==
  ASSUME Done, NEW c \in Looked, c.field = "material", ~Touched(c)
  PROVE  Read(output, c) = Read(source, c)
<1> DEFINE o == c.of
           t == source.type[o]
           u == output.type[o]
<1>1. c \in Cells /\ o \in Occ /\ written = <<>>
  BY CellsOfOccurrences DEF Looked
<1>2. Planned /\ History
  BY DEF Done
<1>3. Occ \cap (Types \cup {NoType}) = {} /\ NoType \notin Types
  BY WriteAssumption
<1>4. \A w \in Asking(source) : w.field = "material" => w \in Wanted /\ w \in Cells
  BY <1>1, <1>2, AskingFacts, AskedIsWanted DEF Looked
<1>5. /\ u = Assigned(source, o) /\ t \in Types \cup {NoType} /\ u \in Types \cup {NoType}
      /\ u = NoType <=> t = NoType
  BY <1>1, DoneFacts DEF WriteFiles
<1>6. Owner(source, c) = MaterialOwner(source, o) /\ Shared(c) = MaterialOwner(source, o)
  BY DEF Owner, Shared
<1>7. \A r \in Routed(source) : ~(r.to = o /\ r.field = "material")
  <2> SUFFICES ASSUME NEW r \in Routed(source), r.to = o, r.field = "material"
               PROVE  FALSE
    OBVIOUS
  <2>1. PICK w \in Asking(source) : w.field = "material" /\ w.of = o
    BY <1>1, <1>2, <1>3, MaterialOrigins
  <2>2. w = c
    BY <1>1, <1>4, <2>1, SameCell
  <2>3. QED
    BY <1>4, <2>1, <2>2 DEF Touched
<1>8. output.material[o] = source.material[o]
  <2>1. output.material[o] = Divided(source).material[o]
    BY <1>1, <1>7, AppliedAgain DEF Named
  <2>2. QED
    BY <1>1, <1>2, <2>1, DividedFacts
<1>9. ASSUME t # NoType, source.material[o] = ""
      PROVE  output.material[u] = source.material[t]
  <2>1. \A r \in Routed(source) : ~(r.to = u /\ r.field = "material")
    <3> SUFFICES ASSUME NEW r \in Routed(source), r.to = u, r.field = "material"
                 PROVE  FALSE
      OBVIOUS
    <3>1. PICK w \in Asking(source) :
            /\ w.field = "material" /\ w.of \in Occ /\ Owner(source, w) = MaterialOwner(source, w.of)
            /\ \/ r.to = w.of
               \/ r.to = Assigned(source, w.of) /\ Owner(source, w) = source.type[w.of]
                  /\ source.type[w.of] \in Types
      BY <1>2, MaterialOrigins
    <3>2. r.to = Assigned(source, w.of) /\ Owner(source, w) = source.type[w.of] /\ source.type[w.of] \in Types
      BY <1>3, <1>5, <3>1
    <3>3. source.type[w.of] = t
      BY <1>1, <1>2, <1>5, <1>9, <3>1, <3>2, AssignedTogether
    <3>4. MaterialOwner(source, w.of) # w.of
      BY <1>3, <1>5, <1>9, <3>1, <3>2, <3>3
    <3>5. source.material[t] # ""
      <4>1. source \in WriteFiles
        BY DoneFacts
      <4>2. source.material[source.type[w.of]] # ""
        BY <3>1, <3>4, <4>1, MaterialFacts
      <4>3. QED
        BY <3>3, <4>2
    <3>6. MaterialOwner(source, o) = t
      BY <1>1, <1>9, <3>5 DEF MaterialOwner
    <3>7. Shared(w) = Shared(c)
      BY <1>6, <3>1, <3>2, <3>3, <3>6 DEF Shared
    <3>8. QED
      BY <1>4, <3>1, <3>7 DEF Touched
  <2>2. u \in Types
    BY <1>5, <1>9
  <2>3. output.material[u] = Divided(source).material[u]
    BY <2>1, <2>2, AppliedAgain DEF Named
  <2>4. QED
    BY <1>1, <1>2, <1>5, <1>9, <2>3, DividedFacts
<1>10. /\ source.material[o] # "" => MaterialOwner(source, o) = o /\ MaterialOwner(output, o) = o
       /\ source.material[o] = "" /\ t = NoType =>
            MaterialOwner(source, o) = o /\ MaterialOwner(output, o) = o
       /\ source.material[o] = "" /\ t # NoType /\ source.material[t] = "" =>
            MaterialOwner(source, o) = o /\ MaterialOwner(output, o) = o
       /\ source.material[o] = "" /\ t # NoType /\ source.material[t] # "" =>
            MaterialOwner(source, o) = t /\ MaterialOwner(output, o) = u
  BY <1>1, <1>5, <1>8, <1>9 DEF MaterialOwner
<1>11. output.material[MaterialOwner(output, o)] = source.material[MaterialOwner(source, o)]
  <2>1. CASE source.material[o] # "" \/ t = NoType
    BY <1>8, <1>10, <2>1
  <2>2. CASE source.material[o] = "" /\ t # NoType /\ source.material[t] = ""
    BY <1>8, <1>10, <2>2
  <2>3. CASE source.material[o] = "" /\ t # NoType /\ source.material[t] # ""
    BY <1>9, <1>10, <2>3
  <2>4. QED
    BY <2>1, <2>2, <2>3
<1>12. /\ MaterialOwner(output, MaterialOwner(output, o)) = MaterialOwner(output, o)
       /\ MaterialOwner(source, MaterialOwner(source, o)) = MaterialOwner(source, o)
  BY <1>1, DoneFacts, MaterialFacts, ZenonT(60)
<1>13. QED
  BY <1>11, <1>12 DEF Owner, Read, Value

(* Who shares a type shares it in what is asked for it.                     *)
LEMMA SharingFacts ==
  ASSUME Planned, NEW w \in Cells, w.field = "class"
  PROVE  LET t == IF w.of \in Occ THEN source.type[w.of] ELSE w.of
         IN  /\ t # NoType => /\ t \in Types /\ Sharing(source, w) = Members(source, t) \cup {t}
                              /\ w.of \in Sharing(source, w)
             /\ t = NoType => Sharing(source, w) = {}
             /\ t = TheType \/ \E o \in Occ : t = source.type[o]
<1> DEFINE t == IF w.of \in Occ THEN source.type[w.of] ELSE w.of
<1>1. w.of \in Occ \/ w.of = TheType
  BY CellsOfOccurrences
<1>2. t \in Types \cup {NoType}
  BY <1>1 DEF Planned, WriteFiles, Types
<1>3. t # NoType => Sharing(source, w) = Members(source, t) \cup {t}
  BY DEF Sharing
<1>4. t = NoType => Sharing(source, w) = {}
  BY DEF Sharing
<1>5. t # NoType => w.of \in Members(source, t) \cup {t}
  BY DEF Members
<1>6. QED
  BY <1>1, <1>2, <1>3, <1>4, <1>5

(* A class that was asked for before is asked for again as it is.           *)
LEMMA ClassesAgain ==
  ASSUME Done, Steady, written # <<>>, NEW r \in Routed(source), r.field = "class"
  PROVE  r.value = Divided(source).class[r.to]
<1>1. Planned /\ History
  BY DEF Done
<1>2. PICK w \in Asking(source) :
        /\ w.field = "class" /\ r.value = cells[w]
        /\ \/ r.to \in Sharing(source, w) \cup {w.of}
           \/ \E o \in Occ : /\ source.type[o] \in Sharing(source, w) \cup {w.of}
                             /\ r.to = Assigned(source, o) /\ r.to # source.type[o]
  BY <1>1, Origins
<1>3. w \in Cells /\ cells[w] # "" /\ Owner(source, w) # NoType /\ cells[w] # Exported(source, w)
  BY AskingFacts
<1>4. w \in DOMAIN baseline /\ baseline[w] = exported[w]
      /\ (written[w] \notin {"", exported[w]} => Read(source, w) = written[w])
  BY <1>1, <1>2, <1>3 DEF History, Settled, Lasting
<1>5. cells[w] = written[w]
  BY <1>2, <1>3 DEF Steady
<1>6. cells[w] = source.class[w.of]
  BY <1>2, <1>3, <1>4, <1>5 DEF Exported, Owner, Read, Value
<1>7. \A o \in Occ : source.type[o] # NoType => source.class[o] = source.class[source.type[o]]
  BY <1>1 DEF History, OneClass
<1> DEFINE t == IF w.of \in Occ THEN source.type[w.of] ELSE w.of
<1>8. \A x \in Sharing(source, w) \cup {w.of} : source.class[x] = source.class[w.of]
  <2> TAKE x \in Sharing(source, w) \cup {w.of}
  <2>1. CASE t # NoType
    <3>1. source.class[t] = source.class[w.of]
      BY <1>7, <2>1
    <3>2. x \in Members(source, t) \cup {t}
      BY <1>1, <1>2, <1>3, <2>1, SharingFacts
    <3>3. QED
      BY <1>7, <2>1, <3>1, <3>2 DEF Members
  <2>2. CASE t = NoType
    BY <1>1, <1>2, <1>3, <2>2, SharingFacts
  <2>3. QED
    BY <2>1, <2>2
<1>9. CASE r.to \in Sharing(source, w) \cup {w.of}
  <2>1. source.class[r.to] = cells[w]
    BY <1>6, <1>8, <1>9
  <2>2. Divided(source).class[r.to] = source.class[r.to]
    <3>1. r.to \in Occ \/ r.to = TheType \/ \E o \in Occ : r.to = source.type[o] /\ r.to # NoType
      BY <1>1, <1>2, <1>3, <1>9, SharingFacts, CellsOfOccurrences DEF Members
    <3>2. CASE r.to \in Occ
      BY <1>1, <3>2, DividedFacts
    <3>3. CASE r.to = TheType
      BY <1>1, <3>3, DividedFacts DEF Types
    <3>4. CASE \E o \in Occ : r.to = source.type[o] /\ r.to # NoType
      <4>1. PICK o \in Occ : r.to = source.type[o] /\ r.to # NoType
        BY <3>4
      <4>2. r.to \in {TheType} \cup ((1..(writes - 1)) \X Occ) /\ r.to \in Types
        BY <1>1, <4>1 DEF Planned, Used, WriteFiles
      <4>3. r.to = TheType \/ r.to[1] # writes
        <5>1. writes \in Nat /\ writes \notin 1..(writes - 1)
          <6>1. MaxWrites \in Nat
            BY WriteAssumption
          <6>2. QED
            BY <1>1, <6>1 DEF Planned
        <5>2. QED
          BY <4>2, <5>1
      <4>4. QED
        BY <1>1, <4>2, <4>3, DividedFacts
    <3>5. QED
      BY <3>1, <3>2, <3>3, <3>4
  <2>3. QED
    BY <1>2, <2>1, <2>2
<1>10. CASE \E o \in Occ : /\ source.type[o] \in Sharing(source, w) \cup {w.of}
                           /\ r.to = Assigned(source, o) /\ r.to # source.type[o]
  <2>1. PICK o \in Occ : /\ source.type[o] \in Sharing(source, w) \cup {w.of}
                         /\ r.to = Assigned(source, o) /\ r.to # source.type[o]
    BY <1>10
  <2>2. source.type[o] # NoType
    BY <1>1, <2>1, AssignedFacts
  <2>3. Divided(source).class[r.to] = source.class[source.type[o]]
    BY <1>1, <2>1, <2>2, DividedFacts
  <2>4. QED
    BY <1>2, <1>6, <1>8, <2>1, <2>3
<1>11. QED
  BY <1>2, <1>9, <1>10

(* Occurrences have the class of their type, in what is written as well.    *)
LEMMA ClassesAgree ==
  ASSUME Done, Steady
  PROVE  OneClass(output)
<1> SUFFICES ASSUME NEW o \in Occ, output.type[o] # NoType
             PROVE  output.class[o] = output.class[output.type[o]]
  BY DEF OneClass
<1> DEFINE t == source.type[o]
           u == output.type[o]
<1>1. Planned /\ History
  BY DEF Done
<1>2. u = Assigned(source, o) /\ t # NoType /\ t \in Types /\ u \in Types
  BY DoneFacts DEF WriteFiles
<1>3. \A p \in Occ : source.type[p] # NoType => source.class[p] = source.class[source.type[p]]
  BY <1>1 DEF History, OneClass
<1>4. Occ \cap (Types \cup {NoType}) = {} /\ TheType \in Types /\ TheType # NoType /\ NoType \notin Types
  BY WriteAssumption DEF Types
<1>5. Divided(source).class[o] = source.class[t] /\ Divided(source).class[u] = source.class[t]
  BY <1>1, <1>2, <1>3, DividedFacts
<1>6. /\ (\A r \in Routed(source) : ~(r.to = o /\ r.field = "class")) => output.class[o] = Divided(source).class[o]
      /\ (\A r \in Routed(source) : ~(r.to = u /\ r.field = "class")) => output.class[u] = Divided(source).class[u]
      /\ \A r \in Routed(source) : r.field = "class" => output.class[r.to] = r.value
  BY <1>2, AppliedAgain DEF Named
<1>7. CASE written # <<>>
  <2>1. output.class[o] = Divided(source).class[o]
    BY <1>6, <1>7, ClassesAgain
  <2>2. output.class[u] = Divided(source).class[u]
    BY <1>6, <1>7, ClassesAgain
  <2>3. QED
    BY <1>5, <2>1, <2>2
<1>8. CASE written = <<>> /\ \E w \in Asking(source) : w.field = "class" /\ t \in Sharing(source, w)
  <2>1. PICK w \in Asking(source) : w.field = "class" /\ t \in Sharing(source, w)
    BY <1>8
  <2>2. w \in Cells /\ cells[w] # Exported(source, w)
    BY AskingFacts
  <2>3. \A k \in DOMAIN baseline : baseline[k] = Read(source, k)
    BY <1>1, <1>8 DEF History, Exact
  <2>4. \A k : k.field = "class" => Exported(source, k) = source.class[k.of]
    BY <2>3 DEF Exported, Owner, Read, Value
  <2> DEFINE s == IF w.of \in Occ THEN source.type[w.of] ELSE w.of
  <2>5. /\ s # NoType /\ s \in Types /\ Sharing(source, w) = Members(source, s) \cup {s}
        /\ w.of \in Sharing(source, w)
    BY <1>1, <2>1, <2>2, SharingFacts
  <2>6. s = t
    BY <1>2, <1>4, <2>1, <2>5 DEF Members
  <2>7. o \in Sharing(source, w) /\ t \in Sharing(source, w)
    BY <2>5, <2>6 DEF Members
  <2>8. \A x \in Sharing(source, w) : source.class[x] = source.class[t]
    BY <1>2, <1>3, <2>5, <2>6 DEF Members
  <2>9. cells[w] # source.class[t]
    BY <2>1, <2>2, <2>4, <2>5, <2>8
  <2>10. \A x \in Sharing(source, w) : [by |-> x, to |-> x, field |-> "class", value |-> cells[w]] \in Requests(source)
    <3> TAKE x \in Sharing(source, w)
    <3>1. CASE x = w.of
      <4>1. Owner(source, w) = x
        BY <2>1, <3>1 DEF Owner
      <4>2. QED
        BY <2>1, <3>1, <4>1, AskedRequests
    <3>2. CASE x # w.of
      <4> DEFINE k == [sheet |-> w.sheet, of |-> x, field |-> "class"]
      <4>1. k.field = "class" /\ k.of = x
        OBVIOUS
      <4> HIDE DEF k
      <4>2. Exported(source, k) = source.class[x]
        BY <2>4, <4>1
      <4>3. cells[w] # Exported(source, k)
        BY <2>8, <2>9, <4>2
      <4>4. QED
        BY <2>1, <3>2, <4>3, AskedRequests DEF k
    <3>3. QED
      BY <3>1, <3>2
  <2>11. [to |-> o, field |-> "class", value |-> cells[w]] \in Routed(source)
    <3> DEFINE q == [by |-> o, to |-> o, field |-> "class", value |-> cells[w]]
    <3>1. q \in Requests(source) /\ q.by = q.to /\ q.to = o /\ q.field = "class" /\ q.value = cells[w]
      BY <2>7, <2>10
    <3> HIDE DEF q
    <3>2. QED
      BY <1>1, <3>1, RequestsRouted
  <2>12. [to |-> u, field |-> "class", value |-> cells[w]] \in Routed(source)
    <3> DEFINE q == [by |-> t, to |-> t, field |-> "class", value |-> cells[w]]
    <3>1. q \in Requests(source) /\ q.by = q.to /\ q.to = t /\ q.field = "class" /\ q.value = cells[w]
      BY <2>7, <2>10
    <3> HIDE DEF q
    <3>2. QED
      BY <1>1, <1>2, <3>1, RequestsRouted
  <2>13. output.class[o] = cells[w] /\ output.class[u] = cells[w]
    BY <1>6, <2>11, <2>12
  <2>14. QED
    BY <2>13
<1>9. CASE \A w \in Asking(source) : w.field = "class" => t \notin Sharing(source, w)
  <2>1. \A w \in Asking(source) : w.field = "class" =>
          o \notin Sharing(source, w) \cup {w.of} /\ t \notin Sharing(source, w) \cup {w.of}
    <3> TAKE w \in Asking(source)
    <3> HAVE w.field = "class"
    <3> DEFINE s == IF w.of \in Occ THEN source.type[w.of] ELSE w.of
    <3>1. w \in Cells
      BY AskingFacts
    <3>2. /\ s # NoType => Sharing(source, w) = Members(source, s) \cup {s} /\ w.of \in Sharing(source, w)
                           /\ s \in Types
          /\ s = NoType => Sharing(source, w) = {}
      BY <1>1, <3>1, SharingFacts
    <3>3. o = w.of => s = t
      OBVIOUS
    <3>4. t = w.of => s = t
      BY <1>2, <1>4
    <3>5. o \in Sharing(source, w) => s = t
      BY <1>4, <3>2 DEF Members
    <3>6. t \notin Sharing(source, w)
      BY <1>9
    <3>7. s # t
      BY <1>2, <3>2, <3>6
    <3>8. QED
      BY <3>3, <3>4, <3>5, <3>6, <3>7
  <2>2. \A r \in Routed(source) : ~(r.to = o /\ r.field = "class")
    <3> SUFFICES ASSUME NEW r \in Routed(source), r.to = o, r.field = "class"
                 PROVE  FALSE
      OBVIOUS
    <3>1. PICK w \in Asking(source) :
            /\ w.field = "class"
            /\ \/ r.to \in Sharing(source, w) \cup {w.of}
               \/ \E p \in Occ : r.to = Assigned(source, p) /\ r.to # source.type[p]
      BY <1>1, Origins
    <3>2. \A p \in Occ : Assigned(source, p) \in Types \cup {NoType}
      BY <1>1, AssignedFacts
    <3>3. QED
      BY <1>4, <2>1, <3>1, <3>2
  <2>3. \A r \in Routed(source) : ~(r.to = u /\ r.field = "class")
    <3> SUFFICES ASSUME NEW r \in Routed(source), r.to = u, r.field = "class"
                 PROVE  FALSE
      OBVIOUS
    <3>1. PICK w \in Asking(source) :
            /\ w.field = "class"
            /\ \/ r.to \in Sharing(source, w) \cup {w.of}
               \/ \E p \in Occ : /\ source.type[p] \in Sharing(source, w) \cup {w.of}
                                 /\ r.to = Assigned(source, p) /\ r.to # source.type[p]
      BY <1>1, Origins
    <3>2. CASE r.to \in Sharing(source, w) \cup {w.of}
      <4>1. w \in Cells
        BY AskingFacts
      <4>2. u = TheType \/ \E p \in Occ : source.type[p] = u
        BY <1>1, <1>2, <1>4, <3>1, <3>2, <4>1, SharingFacts, CellsOfOccurrences DEF Members
      <4>3. u = t
        BY <1>1, <1>2, <4>2, AssignedFacts
      <4>4. QED
        BY <2>1, <3>1, <3>2, <4>3
    <3>3. CASE \E p \in Occ : /\ source.type[p] \in Sharing(source, w) \cup {w.of}
                              /\ r.to = Assigned(source, p) /\ r.to # source.type[p]
      <4>1. PICK p \in Occ : /\ source.type[p] \in Sharing(source, w) \cup {w.of}
                             /\ r.to = Assigned(source, p) /\ r.to # source.type[p]
        BY <3>3
      <4>2. source.type[p] = t
        BY <1>1, <1>2, <4>1, AssignedTogether
      <4>3. QED
        BY <2>1, <3>1, <4>1, <4>2
    <3>4. QED
      BY <3>1, <3>2, <3>3
  <2>4. QED
    BY <1>5, <1>6, <2>2, <2>3
<1>10. QED
  BY <1>7, <1>8, <1>9

(* The workbook that was written asks for what there is.                     *)
LEMMA AskedBefore ==
  ASSUME Done, written = cells, NEW w \in Asking(source), w.field \in Lasting
  PROVE  Read(source, w) = cells[w] /\ written # <<>>
<1>1. Planned /\ History
  BY DEF Done
<1>2. w \in Cells /\ cells[w] # "" /\ Owner(source, w) # NoType /\ cells[w] # Exported(source, w)
  BY AskingFacts
<1>3. written # <<>>
  <2>1. DOMAIN cells = Cells
    BY <1>1 DEF Planned
  <2>2. DOMAIN <<>> = {}
    OBVIOUS
  <2>3. QED
    BY <1>2, <2>1, <2>2
<1>4. w \in DOMAIN baseline /\ baseline[w] = exported[w]
      /\ (written[w] \notin {"", exported[w]} => Read(source, w) = written[w])
  BY <1>1, <1>2, <1>3 DEF History, Settled
<1>5. QED
  BY <1>2, <1>3, <1>4 DEF Exported

LEMMA NothingAgain ==
  ASSUME Done, Steady
  PROVE  NotAgain
<1> SUFFICES ASSUME written = cells, NEW c \in Looked
             PROVE  Read(output, c) = Read(source, c)
  BY DEF NotAgain
<1>1. Planned /\ History
  BY DEF Done
<1>2. c \in Cells /\ c.field # "code"
  BY DEF Looked
<1>3. written # <<>>
  <2>1. DOMAIN cells = Cells
    BY <1>1 DEF Planned
  <2>2. DOMAIN <<>> = {}
    OBVIOUS
  <2>3. QED
    BY <1>2, <2>1, <2>2
<1>4. c.field \in Lasting
  BY <1>2, <1>3, FieldFacts DEF Lasting, Looked
<1>5. TheType \notin Occ /\ TheType # NoType /\ TheType \in Types /\ Occ \cap (Types \cup {NoType}) = {}
  BY WriteAssumption DEF Types
<1>6. CASE c.field = "property"
  <2> DEFINE s == source.set[c.of]
  <2>1. c.of \in Occ /\ s \in Occ /\ output.set = source.set
    BY <1>2, <1>6, CellsOfOccurrences, DoneFacts DEF WriteFiles
  <2>2. ASSUME NEW r \in Routed(source), r.field = "property", r.to \in Occ, source.set[r.to] = s
        PROVE  r.value = source.property[s]
    <3>1. PICK w \in Asking(source) :
            /\ w.field = "property" /\ r.value = cells[w]
            /\ \/ Owner(source, w) = source.type[w.of] /\ source.type[w.of] \in Types
               \/ r.to = w.of
               \/ w.of = TheType
      BY <1>1, <2>2, Origins
    <3>2. Owner(source, w) = w.of /\ w.of \in Occ
      BY <3>1, AskingFacts, CellsOfOccurrences DEF Owner
    <3>3. r.to = w.of
      BY <1>5, <3>1, <3>2
    <3>4. Read(source, w) = cells[w]
      BY <3>1, AskedBefore DEF Lasting
    <3>5. Read(source, w) = source.property[s]
      BY <2>2, <3>1, <3>2, <3>3 DEF Read, Value
    <3>6. QED
      BY <3>1, <3>4, <3>5
  <2>3. output.property[s] = source.property[s]
    BY <2>1, <2>2, AppliedAgain
  <2>4. QED
    BY <1>6, <2>1, <2>3 DEF Owner, Read, Value
<1>7. CASE c.field = "class"
  <2>1. c.of \in Occ \cup {TheType} /\ c.of \in Named
    BY <1>2, <1>5, CellsOfOccurrences DEF Named
  <2>2. output.class[c.of] = Divided(source).class[c.of]
    <3>1. CASE \A r \in Routed(source) : ~(r.to = c.of /\ r.field = "class")
      BY <2>1, <3>1, AppliedAgain
    <3>2. CASE \E r \in Routed(source) : r.to = c.of /\ r.field = "class"
      BY <1>3, <3>2, AppliedAgain, ClassesAgain
    <3>3. QED
      BY <3>1, <3>2
  <2>3. Divided(source).class[c.of] = source.class[c.of]
    BY <1>1, <1>5, <2>1, DividedFacts
  <2>4. QED
    BY <1>7, <2>2, <2>3 DEF Owner, Read, Value
<1>8. CASE c.field = "typeName"
  <2>1. \A o \in Occ : source.type[o] # NoType => NameOf(source, o) = source.name[source.type[o]]
    <3> SUFFICES ASSUME NEW o \in Occ, source.type[o] # NoType
                 PROVE  NameOf(source, o) = source.name[source.type[o]]
      OBVIOUS
    <3>1. \A n \in NamesFor(source, o) : n = source.name[source.type[o]]
      <4> SUFFICES ASSUME NEW n \in NamesFor(source, o)
                   PROVE  n = source.name[source.type[o]]
        OBVIOUS
      <4>1. PICK x \in Requests(source) : x.field = "typeName" /\ x.to = source.type[o] /\ x.value = n
        BY DEF NamesFor
      <4>2. PICK w \in Asking(source) :
              x = [by |-> w.of, to |-> Owner(source, w), field |-> w.field, value |-> cells[w]]
        BY <1>1, <4>1, RequestFacts
      <4>3. w.field = "typeName" /\ Owner(source, w) = source.type[o] /\ cells[w] = n
        BY <4>1, <4>2
      <4>4. Read(source, w) = cells[w]
        BY <4>3, AskedBefore DEF Lasting
      <4>5. Read(source, w) = source.name[source.type[o]]
        BY <4>3 DEF Read, Value
      <4>6. QED
        BY <4>3, <4>4, <4>5
    <3>2. QED
      BY <3>1 DEF NameOf
  <2>2. \A o \in Occ : Assigned(source, o) = source.type[o]
    BY <1>1, <2>1, AssignedFacts
  <2>3. ASSUME NEW t \in Types, Divided(source).name[t] = source.name[t]
        PROVE  output.name[t] = source.name[t]
    <3>1. ASSUME NEW r \in Routed(source), r.to = t, r.field = "typeName"
          PROVE  r.value = source.name[t]
      <4>1. PICK w \in Asking(source) :
              /\ w.field = "typeName" /\ r.value = cells[w]
              /\ \/ /\ w.of \in Occ /\ Owner(source, w) = source.type[w.of]
                    /\ r.to = Assigned(source, w.of)
                 \/ r.to = w.of /\ Owner(source, w) = w.of
                 \/ \E p \in Occ : r.to = Assigned(source, p) /\ r.to # source.type[p]
        BY <1>1, <3>1, Origins
      <4>2. Owner(source, w) = t
        BY <2>2, <3>1, <4>1
      <4>3. Read(source, w) = cells[w]
        BY <4>1, AskedBefore DEF Lasting
      <4>4. Read(source, w) = source.name[t]
        <5>1. t # NoType
          BY WriteAssumption
        <5>2. QED
          BY <4>1, <4>2, <5>1 DEF Read, Value
      <4>5. QED
        BY <4>1, <4>3, <4>4
    <3>2. CASE \E r \in Routed(source) : r.to = t /\ r.field = "typeName"
      BY <3>1, <3>2, AppliedAgain
    <3>3. CASE \A r \in Routed(source) : ~(r.to = t /\ r.field = "typeName")
      BY <2>3, <3>3, AppliedAgain DEF Named
    <3>4. QED
      BY <3>2, <3>3
  <2>4. CASE c.of = TheType
    <3>1. Divided(source).name[TheType] = source.name[TheType]
      BY <1>1, <1>5, DividedFacts
    <3>2. output.name[TheType] = source.name[TheType]
      BY <1>5, <2>3, <3>1
    <3>3. QED
      BY <1>5, <1>8, <2>4, <3>2 DEF Owner, Read, Value
  <2>5. CASE c.of \in Occ /\ source.type[c.of] = NoType
    <3>1. output.type[c.of] = NoType
      BY <2>5, DoneFacts
    <3>2. QED
      BY <1>8, <2>5, <3>1 DEF Owner, Read, Value
  <2>6. CASE c.of \in Occ /\ source.type[c.of] # NoType
    <3> DEFINE t == source.type[c.of]
    <3>1. t \in Types /\ output.type[c.of] = t
      BY <2>2, <2>6, DoneFacts DEF WriteFiles
    <3>2. Divided(source).name[t] = source.name[t]
      BY <1>1, <2>2, <2>6, DividedFacts
    <3>3. output.name[t] = source.name[t]
      BY <2>3, <3>1, <3>2
    <3>4. QED
      BY <1>8, <2>6, <3>1, <3>3 DEF Owner, Read, Value
  <2>7. QED
    BY <1>2, <2>4, <2>5, <2>6, CellsOfOccurrences
<1>9. QED
  BY <1>4, <1>6, <1>7, <1>8 DEF Lasting

(* A write that was applied and verified has done what was asked.            *)
Faithful == AsAsked /\ NoMore /\ OneClass(output) /\ NotAgain

LEMMA DoneIsFaithful ==
  ASSUME Done, Verified, Steady
  PROVE  Faithful
<1>1. ASSUME NEW c \in Looked, ~Touched(c)
      PROVE  Read(output, c) = Read(source, c)
  <2>1. c.field \in {"typeName", "material", "class", "property"}
    BY FieldFacts DEF Looked
  <2>2. QED
    BY <1>1, <2>1, NamesStay, MaterialsStay, ClassesStay, PropertiesStay
<1>2. NoMore
  BY <1>1 DEF NoMore
<1>3. QED
  BY <1>2, AskedIsDone, ClassesAgree, NothingAgain DEF Faithful

-----------------------------------------------------------------------------
(* A write reads its source, its workbook and what it knows of it.           *)
LEMMA PlanStays ==
  ASSUME UNCHANGED <<source, cells, baseline, split, writes>>
  PROVE  /\ Routed(source)' = Routed(source) /\ Applied(source)' = Applied(source)
         /\ Conflicting(source)' <=> Conflicting(source)
         /\ Considered(source)' = Considered(source)
<1>1. \A c : Exported(source, c)' = Exported(source, c)
  BY DEF Exported
<1>2. Considered(source)' = Considered(source)
  BY DEF Considered
<1>3. Asking(source)' = Asking(source)
  BY <1>1, <1>2 DEF Asking
<1>4. Expansions(source)' = Expansions(source)
  BY <1>3 DEF Expansions
<1>5. Requests(source)' = Requests(source)
  BY <1>1, <1>3, <1>4 DEF Requests
<1>6. \A o : NamesFor(source, o)' = NamesFor(source, o)
  BY <1>5 DEF NamesFor
<1> DEFINE Elected(S) == CHOOSE x \in S : TRUE
<1>7. \A o : NameOf(source, o)' = NameOf(source, o)
  <2> TAKE o
  <2>1. NameOf(source, o) = IF NamesFor(source, o) = {} THEN source.name[source.type[o]]
                            ELSE Elected(NamesFor(source, o))
    BY DEF NameOf
  <2>2. NameOf(source, o)' = IF NamesFor(source, o)' = {} THEN source.name[source.type[o]]
                             ELSE Elected(NamesFor(source, o)')
    BY DEF NameOf
  <2> HIDE DEF Elected
  <2>3. QED
    BY <1>6, <2>1, <2>2
<1>8. \A o : Group(source, o)' = Group(source, o)
  BY <1>7 DEF Group
<1>9. \A o : Assigned(source, o)' = Assigned(source, o)
  <2> TAKE o
  <2> DEFINE SplitOff(n, G) == /\ split /\ source.type[o] # NoType
                            /\ n # source.name[source.type[o]] /\ G # Members(source, source.type[o])
  <2>1. Assigned(source, o) = IF SplitOff(NameOf(source, o), Group(source, o))
                              THEN <<writes, Elected(Group(source, o))>> ELSE source.type[o]
    BY DEF Assigned
  <2>2. Assigned(source, o)' = IF SplitOff(NameOf(source, o)', Group(source, o)')
                               THEN <<writes, Elected(Group(source, o)')>> ELSE source.type[o]
    BY DEF Assigned
  <2> HIDE DEF Elected, SplitOff
  <2>3. QED
    BY <1>7, <1>8, <2>1, <2>2
<1>10. Splits(source)' = Splits(source)
  BY <1>9 DEF Splits
<1>11. Routed(source)' = Routed(source)
  BY <1>5, <1>9, <1>10 DEF Routed
<1>12. Contradictory(source)' <=> Contradictory(source)
  BY <1>6 DEF Contradictory
<1>13. Conflicting(source)' <=> Conflicting(source)
  BY <1>11, <1>12 DEF Conflicting
<1>14. Codes(source)' = Codes(source)
  BY DEF Codes
<1>15. Divided(source)' = Divided(source)
  BY <1>9, <1>10 DEF Divided
<1>16. Applied(source)' = Applied(source)
  BY <1>11, <1>14, <1>15 DEF Applied
<1>17. QED
  BY <1>2, <1>11, <1>13, <1>16

(* What cells read.                                                         *)
LEMMA ReadTypes ==
  ASSUME NEW f \in WriteFiles, NEW c \in Cells
  PROVE  /\ Read(f, c) \in Blankable
         /\ c.field \in Lasting /\ Owner(f, c) # NoType => Read(f, c) \in Text /\ Read(f, c) # ""
<1>1. c.of \in Occ \/ c.of = TheType
  BY CellsOfOccurrences
<1>2. TheType \notin Occ /\ TheType # NoType /\ TheType \in Types /\ "" \notin Text /\ NoType \notin Types
  BY WriteAssumption DEF Types, Text, Old
<1>9. /\ \A o \in Occ : f.type[o] \in Types \cup {NoType} /\ f.set[o] \in Occ /\ f.property[o] \in Text
      /\ \A t \in Types : f.name[t] \in Text
      /\ \A x \in Occ \cup Types : f.class[x] \in Text
  BY DEF WriteFiles, Named
<1>10. Blankable = Text \cup {""}
  BY DEF Blankable
<1>3. CASE c.field = "typeName"
  <2>1. CASE c.of \in Occ
    <3>1. /\ Owner(f, c) = f.type[c.of]
          /\ Read(f, c) = IF f.type[c.of] = NoType THEN "" ELSE f.name[f.type[c.of]]
      BY <1>3, <2>1 DEF Owner, Read, Value
    <3>2. QED
      BY <1>2, <1>9, <1>10, <2>1, <3>1
  <2>2. CASE c.of = TheType
    <3>1. Read(f, c) = f.name[TheType]
      BY <1>2, <1>3, <2>2 DEF Owner, Read, Value
    <3>2. QED
      BY <1>2, <1>9, <1>10, <3>1
  <2>3. QED
    BY <1>1, <2>1, <2>2
<1>4. CASE c.field = "material"
  <2>1. c.of \in Occ
    BY <1>4, CellsOfOccurrences
  <2>2. /\ MaterialOwner(f, MaterialOwner(f, c.of)) = MaterialOwner(f, c.of)
        /\ MaterialOwner(f, c.of) \in {c.of, f.type[c.of]} \ {NoType}
    BY <2>1, MaterialFacts
  <2>3. MaterialOwner(f, c.of) \in Named
    BY <2>1, <2>2 DEF WriteFiles, Named
  <2>4. QED
    BY <1>4, <2>2, <2>3 DEF Owner, Read, Value, WriteFiles, Lasting
<1>5. CASE c.field = "class"
  <2>1. Read(f, c) = f.class[c.of]
    BY <1>5 DEF Owner, Read, Value
  <2>2. QED
    BY <1>1, <1>2, <1>9, <1>10, <2>1
<1>6. CASE c.field = "property"
  <2>1. Read(f, c) = f.property[f.set[c.of]] /\ c.of \in Occ
    BY <1>6, CellsOfOccurrences DEF Owner, Read, Value
  <2>2. QED
    BY <1>2, <1>9, <1>10, <2>1
<1>7. CASE c.field = "code"
  <2>1. c.of \in Occ
    BY <1>7, CellFacts
  <2>2. QED
    BY <1>7, <2>1 DEF Owner, Read, Value, WriteFiles, Blankable, Lasting
<1>8. QED
  BY <1>3, <1>4, <1>5, <1>6, <1>7, FieldFacts

(* What a write that ended left for the next: all that was asked for is     *)
(* known, and the output is typed as the source was.                        *)
Recorded ==
  /\ \A o \in Occ : output.type[o] = NoType <=> source.type[o] = NoType
  /\ \A c \in Cells : c.field \in Lasting /\ cells[c] # "" /\ Owner(source, c) # NoType => c \in DOMAIN baseline

WriteInv ==
  /\ step \in {"edit", "plan", "apply", "verify", "record", "done", "failed"}
  /\ sound \in BOOLEAN
  /\ cells \in [Cells -> Blankable] /\ exported \in [Cells -> Blankable]
  /\ \A k \in DOMAIN baseline : baseline[k] \in Blankable
  /\ edits \in 0..MaxEdits /\ writes \in 0..MaxWrites
  /\ source \in WriteFiles /\ (step = "edit" => Used(source, writes))
  /\ step # "edit" => Planned
  /\ output # NoFile => output \in WriteFiles /\ Used(output, writes)
  /\ sound => History
  /\ step \in {"apply", "verify", "record"} => ~Conflicting(source)
  /\ step = "apply" => memory = Applied(source)
  /\ step \in {"verify", "record"} => output = Applied(source)
  /\ step = "record" => Verified
  /\ step = "done" /\ sound => Recorded
  /\ step = "done" /\ sound /\ Steady => Faithful

LEMMA WriteBounds == MaxEdits \in Nat /\ MaxWrites \in Nat
  BY WriteAssumption

LEMMA WriteStarts == WriteInit => WriteInv
<1> SUFFICES ASSUME WriteInit PROVE WriteInv
  OBVIOUS
<1>1. PICK typed \in {Occ, {Rows[1]}}, material \in {{}, {Rows[1]}, {TheType}},
           sets \in {[o \in Occ |-> o], [o \in Occ |-> Rows[1]]} :
        source = Files(typed, sets, sets, material)
  BY DEF WriteInit
<1>2. sets \in [Occ -> Occ] /\ TheType \in Types /\ Old \in Text
  BY RowFacts DEF Types, Text
<1>3. source \in WriteFiles
  BY <1>1, <1>2 DEF Files, WriteFiles, Named, Blankable
<1>4. \A o \in Occ : source.type[o] \in {TheType, NoType}
  BY <1>1 DEF Files
<1>5. \A x \in Occ \cup Types : source.class[x] = Old
  BY <1>1 DEF Files
<1>6. /\ output = NoFile /\ exported = [c \in Cells |-> Read(source, c)] /\ cells = exported
      /\ baseline = <<>> /\ step = "edit" /\ sound = TRUE /\ written = <<>>
      /\ edits = 0 /\ writes = 0
  BY DEF WriteInit
<1>7. DOMAIN baseline = {}
  BY <1>6
<1>8. cells \in [Cells -> Blankable] /\ exported \in [Cells -> Blankable]
  BY <1>3, <1>6, ReadTypes
<1>9. OneClass(source)
  <2>1. \A o \in Occ : source.type[o] \in Types \cup {NoType}
    BY <1>3 DEF WriteFiles
  <2>2. QED
    BY <1>5, <2>1 DEF OneClass
<1>10. History
  BY <1>6, <1>7, <1>9 DEF History, Exact
<1>11. Used(source, writes)
  BY <1>4 DEF Used
<1>12. 0 \in 0..MaxEdits /\ 0 \in 0..MaxWrites
  BY WriteBounds
<1>13. QED
  BY <1>3, <1>6, <1>7, <1>8, <1>10, <1>11, <1>12 DEF WriteInv

(* The history stays while the source and what is known of it stay.          *)
LEMMA HistoryStays ==
  ASSUME History, UNCHANGED <<source, exported, baseline, written>>
  PROVE  History'
  BY DEF History, Exact, Settled, OneClass

LEMMA UsedLater ==
  ASSUME NEW f, NEW j \in Nat, NEW k \in Nat, j <= k, Used(f, j)
  PROVE  Used(f, k)
<1>1. 1..j \subseteq 1..k
  OBVIOUS
<1>2. QED
  BY <1>1 DEF Used

(* What an output was taken for: its cells and what is known of them.        *)
LEMMA HistoryGoesOn ==
  ASSUME History, Recorded, Faithful, source \in WriteFiles, output \in WriteFiles,
         cells \in [Cells -> Blankable], written = <<>> => Complete,
         source' = output, written' = cells, UNCHANGED <<exported, baseline>>
  PROVE  History'
<1>1. OneClass(source')
  BY DEF Faithful
<1>2. written' # <<>>
  <2>1. DOMAIN written' = Cells
    OBVIOUS
  <2>2. DOMAIN <<>> = {}
    OBVIOUS
  <2>3. \E c : c \in Cells
    BY CellsThere
  <2>4. QED
    BY <2>1, <2>2, <2>3
<1>3. ASSUME NEW c \in Cells, c.field \in Lasting, Owner(output, c) # NoType
      PROVE  /\ c \in DOMAIN baseline /\ baseline[c] = exported[c]
             /\ cells[c] \notin {"", exported[c]} => Read(output, c) = cells[c]
  <2>1. Owner(source, c) # NoType
    <3>1. CASE c.field = "typeName" /\ c.of \in Occ
      BY <1>3, <3>1 DEF Owner, Recorded
    <3>2. CASE ~(c.field = "typeName" /\ c.of \in Occ)
      BY <1>3, <3>2 DEF Owner, Lasting
    <3>3. QED
      BY <3>1, <3>2
  <2>2. c \in DOMAIN baseline /\ baseline[c] = exported[c]
    <3>1. CASE written = <<>>
      <4>1. exported[c] = Read(source, c) /\ \A k \in DOMAIN baseline : baseline[k] = Read(source, k)
        BY <3>1 DEF History, Exact
      <4>2. Read(source, c) # ""
        BY <1>3, <2>1, ReadTypes
      <4>3. cells[c] # ""
        BY <3>1, <4>1, <4>2 DEF Complete
      <4>4. QED
        BY <1>3, <2>1, <4>1, <4>3 DEF Recorded
    <3>2. CASE written # <<>>
      BY <1>3, <2>1, <3>2 DEF History, Settled
    <3>3. QED
      BY <3>1, <3>2
  <2>3. ASSUME cells[c] \notin {"", exported[c]}
        PROVE  Read(output, c) = cells[c]
    <3>1. c \in Wanted /\ c \in Looked
      BY <1>3, <2>1, <2>3 DEF Wanted, Looked, Lasting
    <3>2. QED
      BY <3>1 DEF Faithful, AsAsked
  <2>4. QED
    BY <2>2, <2>3
<1>4. Settled'
  BY <1>3 DEF Settled
<1>5. QED
  BY <1>1, <1>2, <1>4 DEF History

(* Recording adds to what is known what the source says.                     *)
LEMMA RecordingFacts ==
  ASSUME Planned, sound => History, Record, \A k \in DOMAIN baseline : baseline[k] \in Blankable
  PROVE  /\ \A k \in DOMAIN baseline' : baseline'[k] \in Blankable
         /\ sound => History'
         /\ \A c \in Cells : c.field \in Lasting /\ cells[c] # "" /\ Owner(source, c) # NoType =>
              c \in DOMAIN baseline'
<1> DEFINE K == Considered(source) \cup {Key(e) : e \in Expansions(source)}
           all == [k \in DOMAIN baseline \cup K |-> IF k \in DOMAIN baseline THEN baseline[k] ELSE Read(source, k)]
<1>1. baseline' = all /\ UNCHANGED <<source, cells, exported, written>>
  <2>1. DOMAIN baseline \cup K = DOMAIN baseline \cup Considered(source) \cup {Key(e) : e \in Expansions(source)}
    OBVIOUS
  <2> HIDE DEF K
  <2>2. QED
    BY <2>1 DEF Record
<1>2. \A k \in K : Read(source, k) \in Blankable
  <2>1. \A k \in Considered(source) : Read(source, k) \in Blankable
    BY ReadTypes DEF Considered, Planned
  <2>2. ASSUME NEW e \in Expansions(source)
        PROVE  Read(source, Key(e)) \in Blankable
    <3>1. PICK c \in Asking(source) :
            /\ c.field = "class"
            /\ \E x \in Sharing(source, c) \ {c.of} :
                 e = [sheet |-> c.sheet, of |-> x, field |-> "class", value |-> cells[c]]
      BY DEF Expansions
    <3>2. Key(e).field = "class" /\ Key(e).of \in Sharing(source, c)
      BY <3>1 DEF Key
    <3>3. c \in Cells
      BY AskingFacts
    <3>4. Sharing(source, c) \subseteq Named
      BY <3>1, <3>3, SharingFacts DEF Members, Named
    <3>5. Read(source, Key(e)) = source.class[Key(e).of]
      BY <3>2 DEF Owner, Read, Value
    <3>6. source.class \in [Named -> Text]
      BY DEF Planned, WriteFiles
    <3>7. source.class[Key(e).of] \in Text
      BY <3>2, <3>4, <3>6
    <3>8. QED
      BY <3>5, <3>7 DEF Blankable
  <2>3. QED
    BY <2>1, <2>2
<1>3. Considered(source) \subseteq K
  OBVIOUS
<1> HIDE DEF K
<1>4. /\ DOMAIN baseline' = DOMAIN baseline \cup K
      /\ \A k \in DOMAIN baseline : baseline'[k] = baseline[k]
      /\ \A k \in K : k \in DOMAIN baseline \/ baseline'[k] = Read(source, k)
  BY <1>1
<1>5. \A k \in DOMAIN baseline' : baseline'[k] \in Blankable
  BY <1>2, <1>4
<1>6. ASSUME sound PROVE History'
  <2>1. History
    BY <1>6
  <2>2. OneClass(source)'
    BY <1>1, <2>1 DEF History
  <2>3. ASSUME written' = <<>> PROVE Exact'
    <3>1. Exact
      BY <1>1, <2>1, <2>3 DEF History
    <3>2. QED
      BY <1>1, <1>4, <3>1 DEF Exact
  <2>4. ASSUME written' # <<>> PROVE Settled'
    <3>1. Settled
      BY <1>1, <2>1, <2>4 DEF History
    <3>2. QED
      BY <1>1, <1>4, <3>1 DEF Settled
  <2>5. QED
    BY <2>2, <2>3, <2>4 DEF History
<1>7. ASSUME NEW c \in Cells, c.field \in Lasting, cells[c] # "", Owner(source, c) # NoType
      PROVE  c \in DOMAIN baseline'
  <2>1. c \in Considered(source)
    <3>1. c.sheet # "Uniclass" /\ c.field # "material"
      BY <1>7, CellFacts DEF Lasting
    <3>2. QED
      BY <1>7, <3>1 DEF Considered
  <2>2. QED
    BY <1>3, <1>4, <2>1
<1>8. QED
  BY <1>5, <1>6, <1>7

(* A property of a write that ended does not look at what it was told.       *)
LEMMA FaithfulStays ==
  ASSUME UNCHANGED <<source, output, cells, exported, split, written>>
  PROVE  (Faithful' <=> Faithful) /\ (Steady' <=> Steady)
<1>1. Wanted' = Wanted
  BY DEF Wanted
<1>2. Looked' = Looked
  BY DEF Looked
<1>3. \A c : Shared(c)' = Shared(c)
  BY DEF Shared
<1>4. \A c : Touched(c)' <=> Touched(c)
  BY <1>1, <1>3 DEF Touched
<1>5. AsAsked' <=> AsAsked
  BY <1>1, <1>2 DEF AsAsked
<1>6. NoMore' <=> NoMore
  BY <1>2, <1>4 DEF NoMore
<1>7. NotAgain' <=> NotAgain
  BY <1>2 DEF NotAgain
<1>8. OneClass(output)' <=> OneClass(output)
  BY DEF OneClass
<1>9. Steady' <=> Steady
  BY DEF Steady
<1>10. QED
  BY <1>5, <1>6, <1>7, <1>8, <1>9 DEF Faithful

LEMMA WriteEdits == WriteInv /\ Edit => WriteInv'
<1> SUFFICES ASSUME WriteInv, Edit PROVE WriteInv'
  OBVIOUS
<1> USE DEF WriteInv
<1>1. /\ step = "edit" /\ edits < MaxEdits /\ edits' = edits + 1
      /\ UNCHANGED <<source, output, memory, exported, baseline, split, step, sound, written, writes>>
  BY DEF Edit
<1>2. cells' \in [Cells -> Blankable]
  BY DEF Edit, Blankable, Text
<1>3. edits' \in 0..MaxEdits
  <2>1. MaxEdits \in Nat
    BY WriteBounds
  <2>2. QED
    BY <1>1, <2>1
<1>4. sound' => History'
  BY <1>1, HistoryStays
<1>5. source' \in WriteFiles /\ Used(source', writes')
  BY <1>1
<1>6. output' # NoFile => output' \in WriteFiles /\ Used(output', writes')
  BY <1>1
<1>7. QED
  BY <1>1, <1>2, <1>3, <1>4, <1>5, <1>6

LEMMA WritePlans == WriteInv /\ Plan => WriteInv'
<1> SUFFICES ASSUME WriteInv, Plan PROVE WriteInv'
  OBVIOUS
<1> USE DEF WriteInv
<1>1. /\ step = "edit" /\ step' = "plan" /\ writes < MaxWrites /\ writes' = writes + 1
      /\ UNCHANGED <<source, output, cells, exported, baseline, sound, written, edits>>
  BY DEF Plan
<1>2. writes \in Nat /\ writes' \in Nat /\ writes' \in 1..MaxWrites /\ writes' \in 0..MaxWrites /\ writes' - 1 = writes
      /\ writes <= writes'
  <2>1. MaxWrites \in Nat
    BY WriteBounds
  <2>2. QED
    BY <1>1, <2>1
<1>3. Used(source, writes)
  BY <1>1
<1>4. Planned'
  BY <1>1, <1>2, <1>3 DEF Planned
<1>5. output' # NoFile => output' \in WriteFiles /\ Used(output', writes')
  BY <1>1, <1>2, UsedLater
<1>6. sound' => History'
  BY <1>1, HistoryStays
<1>7. QED
  BY <1>1, <1>2, <1>4, <1>5, <1>6

LEMMA WriteRejects == WriteInv /\ Reject => WriteInv'
<1> SUFFICES ASSUME WriteInv, Reject PROVE WriteInv'
  OBVIOUS
<1> USE DEF WriteInv
<1>1. /\ step = "plan" /\ step' = "edit"
      /\ UNCHANGED <<source, output, cells, exported, baseline, split, sound, written, edits, writes>>
  BY DEF Reject
<1>2. sound' => History'
  BY <1>1, HistoryStays
<1>3. Used(source', writes')
  <2>1. MaxWrites \in Nat /\ Planned
    BY <1>1, WriteBounds
  <2>2. writes \in Nat /\ writes - 1 \in Nat /\ writes - 1 <= writes
    BY <2>1 DEF Planned
  <2>3. QED
    BY <1>1, <2>1, <2>2, UsedLater DEF Planned
<1>4. source' \in WriteFiles /\ (output' # NoFile => output' \in WriteFiles /\ Used(output', writes'))
  BY <1>1
<1>5. QED
  BY <1>1, <1>2, <1>3, <1>4

(* The steps of a write keep what it reads.                                  *)
LEMMA WritePlanned ==
  ASSUME Planned, UNCHANGED <<source, cells, writes>>
  PROVE  Planned'
  BY DEF Planned, Used

LEMMA WriteApplies == WriteInv /\ Apply => WriteInv'
<1> SUFFICES ASSUME WriteInv, Apply PROVE WriteInv'
  OBVIOUS
<1> USE DEF WriteInv
<1>1. /\ step = "plan" /\ step' = "apply" /\ ~Conflicting(source) /\ memory' = Applied(source)
      /\ UNCHANGED <<source, output, cells, exported, baseline, split, sound, written, edits, writes>>
  BY DEF Apply
<1>2. sound' => History'
  BY <1>1, HistoryStays
<1>3. Planned'
  BY <1>1, WritePlanned
<1>4. ~Conflicting(source)' /\ memory' = Applied(source)'
  BY <1>1, PlanStays
<1>5. source' \in WriteFiles /\ (output' # NoFile => output' \in WriteFiles /\ Used(output', writes'))
  BY <1>1
<1>6. QED
  BY <1>1, <1>2, <1>3, <1>4, <1>5

LEMMA WriteWrites == WriteInv /\ Write => WriteInv'
<1> SUFFICES ASSUME WriteInv, Write PROVE WriteInv'
  OBVIOUS
<1> USE DEF WriteInv
<1>1. /\ step = "apply" /\ step' = "verify" /\ output' = memory
      /\ UNCHANGED <<source, memory, cells, exported, baseline, split, sound, written, edits, writes>>
  BY DEF Write
<1>2. Planned /\ ~Conflicting(source) /\ memory = Applied(source)
  BY <1>1
<1>3. sound' => History'
  BY <1>1, HistoryStays
<1>4. Planned'
  BY <1>1, <1>2, WritePlanned
<1>5. ~Conflicting(source)' /\ output' = Applied(source)'
  BY <1>1, <1>2, PlanStays
<1>6. output' \in WriteFiles /\ Used(output', writes')
  <2> DEFINE h == Applied(source)
  <2>1. h \in WriteFiles /\ h.type = Divided(source).type
    BY <1>2, AppliedFacts
  <2>2. \A o \in Occ : h.type[o] = Assigned(source, o)
    BY <1>2, <2>1, DividedFacts
  <2>3. ASSUME NEW o \in Occ
        PROVE  h.type[o] \in {NoType, TheType} \cup ((1..writes) \X Occ)
    <3>1. writes \in 1..MaxWrites /\ MaxWrites \in Nat
      BY <1>2, WriteBounds DEF Planned
    <3>2. CASE Assigned(source, o) = source.type[o]
      <4>1. Used(source, writes)
        <5>1. writes \in Nat /\ writes - 1 \in Nat /\ writes - 1 <= writes
          BY <3>1
        <5>2. QED
          BY <1>2, <5>1, UsedLater DEF Planned
      <4>2. QED
        BY <2>2, <3>2, <4>1 DEF Used
    <3>3. CASE Assigned(source, o) # source.type[o]
      <4> DEFINE u == Assigned(source, o)
      <4>1. u \in (1..MaxWrites) \X Occ /\ u[1] = writes
        BY <1>2, <3>3, AssignedFacts
      <4> HIDE DEF u
      <4>2. u = <<u[1], u[2]>> /\ u[2] \in Occ /\ u[1] = writes
        BY <4>1
      <4>3. writes \in 1..writes
        BY <3>1
      <4>4. u \in (1..writes) \X Occ
        BY <4>2, <4>3
      <4>5. QED
        BY <2>2, <4>4 DEF u
    <3>4. QED
      BY <3>2, <3>3
  <2>4. Used(h, writes)
    BY <2>3 DEF Used
  <2> HIDE DEF h
  <2>5. output' = h /\ writes' = writes
    BY <1>1, <1>2 DEF h
  <2>6. QED
    BY <2>1, <2>4, <2>5
<1>7. source' \in WriteFiles
  BY <1>1
<1>8. QED
  BY <1>1, <1>3, <1>4, <1>5, <1>6, <1>7

LEMMA WriteVerifies == WriteInv /\ Verify => WriteInv'
<1> SUFFICES ASSUME WriteInv, Verify PROVE WriteInv'
  OBVIOUS
<1> USE DEF WriteInv
<1>1. /\ step = "verify" /\ step' = "record" /\ Verified
      /\ UNCHANGED <<source, output, memory, cells, exported, baseline, split, sound, written, edits, writes>>
  BY DEF Verify
<1>2. Planned /\ ~Conflicting(source) /\ output = Applied(source)
  BY <1>1
<1>3. sound' => History'
  BY <1>1, HistoryStays
<1>4. Planned'
  BY <1>1, <1>2, WritePlanned
<1>5. ~Conflicting(source)' /\ output' = Applied(source)' /\ Routed(source)' = Routed(source)
  BY <1>1, <1>2, PlanStays
<1>6. Verified'
  BY <1>1, <1>5 DEF Verified
<1>7. source' \in WriteFiles /\ (output' # NoFile => output' \in WriteFiles /\ Used(output', writes'))
  BY <1>1
<1>8. QED
  BY <1>1, <1>3, <1>4, <1>5, <1>6, <1>7

LEMMA WriteRecords == WriteInv /\ Record => WriteInv'
<1> SUFFICES ASSUME WriteInv, Record PROVE WriteInv'
  OBVIOUS
<1> USE DEF WriteInv
<1>1. /\ step = "record" /\ step' = "done"
      /\ UNCHANGED <<source, output, cells, exported, split, sound, written, edits, writes>>
  BY DEF Record
<1>2. Planned /\ ~Conflicting(source) /\ output = Applied(source) /\ Verified
  BY <1>1
<1>3. Planned'
  BY <1>1, <1>2, WritePlanned
<1>4. /\ \A k \in DOMAIN baseline' : baseline'[k] \in Blankable
      /\ sound => History'
      /\ \A c \in Cells : c.field \in Lasting /\ cells[c] # "" /\ Owner(source, c) # NoType =>
           c \in DOMAIN baseline'
  BY <1>2, RecordingFacts
<1>5. ASSUME sound PROVE Recorded'
  <2>1. Done
    BY <1>2, <1>5 DEF Done
  <2>2. \A o \in Occ : output.type[o] = NoType <=> source.type[o] = NoType
    BY <2>1, DoneFacts
  <2>3. QED
    BY <1>1, <1>4, <2>2 DEF Recorded
<1>6. ASSUME sound, Steady' PROVE Faithful'
  <2>1. Done
    BY <1>2, <1>6 DEF Done
  <2>2. Steady
    BY <1>1, <1>6, FaithfulStays
  <2>3. Faithful
    BY <1>2, <2>1, <2>2, DoneIsFaithful
  <2>4. QED
    BY <1>1, <2>3, FaithfulStays
<1>7. source' \in WriteFiles /\ (output' # NoFile => output' \in WriteFiles /\ Used(output', writes'))
  BY <1>1
<1>8. QED
  BY <1>1, <1>3, <1>4, <1>5, <1>6, <1>7

LEMMA WriteAborts == WriteInv /\ Abort => WriteInv'
<1> SUFFICES ASSUME WriteInv, Abort PROVE WriteInv'
  OBVIOUS
<1> USE DEF WriteInv
<1>1. /\ step \in {"plan", "apply", "verify", "record"} /\ step' = "failed"
      /\ UNCHANGED <<source, output, cells, exported, baseline, split, sound, written, edits, writes>>
  BY DEF Abort
<1>2. sound' => History'
  BY <1>1, HistoryStays
<1>3. Planned'
  BY <1>1, WritePlanned
<1>4. source' \in WriteFiles /\ (output' # NoFile => output' \in WriteFiles /\ Used(output', writes'))
  BY <1>1
<1>5. QED
  BY <1>1, <1>2, <1>3, <1>4

LEMMA WriteContinues == WriteInv /\ Continue => WriteInv'
<1> SUFFICES ASSUME WriteInv, Continue PROVE WriteInv'
  OBVIOUS
<1> USE DEF WriteInv
<1>1. /\ step \in {"done", "failed"} /\ step' = "edit" /\ output' = NoFile
      /\ UNCHANGED <<memory, cells, exported, baseline, split, edits, writes>>
  BY DEF Continue
<1>2. Planned
  BY <1>1
<1>3. CASE UNCHANGED <<source, sound, written>>
  <2>1. sound' => History'
    BY <1>1, <1>3, HistoryStays
  <2>2. Used(source', writes')
    <3>1. MaxWrites \in Nat
      BY WriteBounds
    <3>2. writes \in Nat /\ writes - 1 \in Nat /\ writes - 1 <= writes
      BY <1>2, <3>1 DEF Planned
    <3>3. QED
      BY <1>1, <1>2, <1>3, <3>2, UsedLater DEF Planned
  <2>3. QED
    BY <1>1, <1>3, <2>1, <2>2
<1>4. CASE /\ output # NoFile /\ source' = output /\ written' = cells
           /\ sound' = (step = "done" /\ sound /\ IF written = <<>> THEN Complete ELSE Steady)
  <2>1. source' \in WriteFiles /\ Used(source', writes') /\ output \in WriteFiles
    BY <1>1, <1>4
  <2>2. ASSUME sound' PROVE History'
    <3>1. step = "done" /\ sound /\ IF written = <<>> THEN Complete ELSE Steady
      BY <1>4, <2>2
    <3>2. Steady
      BY <3>1 DEF Steady
    <3>3. History /\ Recorded /\ Faithful
      BY <3>1, <3>2
    <3>4. written = <<>> => Complete
      BY <3>1
    <3>5. QED
      BY <1>1, <1>4, <2>1, <3>3, <3>4, HistoryGoesOn
  <2>3. sound' \in BOOLEAN
    BY <1>4
  <2>4. QED
    BY <1>1, <2>1, <2>2, <2>3
<1>5. QED
  BY <1>3, <1>4 DEF Continue

LEMMA WriteStutters == WriteInv /\ UNCHANGED writeVars => WriteInv'
<1> SUFFICES ASSUME WriteInv, UNCHANGED writeVars PROVE WriteInv'
  OBVIOUS
<1> USE DEF WriteInv
<1>1. UNCHANGED <<source, output, memory, cells, exported, baseline, split, step, sound, written, edits, writes>>
  BY DEF writeVars
<1>2. sound' => History'
  BY <1>1, HistoryStays
<1>3. step' # "edit" => Planned'
  BY <1>1, WritePlanned
<1>4. /\ Conflicting(source)' <=> Conflicting(source)
      /\ Applied(source)' = Applied(source) /\ Routed(source)' = Routed(source)
  BY <1>1, PlanStays
<1>5. Verified' <=> Verified
  BY <1>1, <1>4 DEF Verified
<1>6. (Faithful' <=> Faithful) /\ (Steady' <=> Steady)
  BY <1>1, FaithfulStays
<1>7. Recorded' <=> Recorded
  BY <1>1 DEF Recorded
<1>8. source' \in WriteFiles /\ (output' # NoFile => output' \in WriteFiles /\ Used(output', writes'))
  BY <1>1
<1>9. QED
  BY <1>1, <1>2, <1>3, <1>4, <1>5, <1>6, <1>7, <1>8

LEMMA WriteInvariance == WriteSpec => []WriteInv
<1>1. WriteInv /\ [WriteNext]_writeVars => WriteInv'
  BY WriteEdits, WritePlans, WriteRejects, WriteApplies, WriteWrites, WriteVerifies, WriteRecords,
     WriteAborts, WriteContinues, WriteStutters DEF WriteNext
<1>2. QED
  BY <1>1, WriteStarts, PTL DEF WriteSpec

(* A write that ends has done what the workbook asks and no more, whatever  *)
(* rows, values, edits and earlier writes there are: OutputIsFaithful.      *)
THEOREM OutputsAreFaithful == WriteSpec => []OutputIsFaithful
<1>1. WriteInv => OutputIsFaithful
  BY DEF WriteInv, Faithful, OutputIsFaithful
<1>2. QED
  BY <1>1, WriteInvariance, PTL

(* The files a write reads have types, and its workbook has values, of what *)
(* there is.                                                                *)
THEOREM WritesAreTyped == WriteSpec => []WriteTypeOK
<1>1. WriteInv => WriteTypeOK
  BY DEF WriteInv, WriteTypeOK, WriteFiles, Blankable
<1>2. QED
  BY <1>1, WriteInvariance, PTL

-----------------------------------------------------------------------------
(***************************************************************************)
(* The tools side by side: in a behaviour of MCModelTools one of them works *)
(* as it does alone, and the others stay where they started.                *)
(***************************************************************************)

(* Something of a kind that has any.                                        *)
LEMMA SomeIs ==
  ASSUME NEW S, S # {}
  PROVE  Some(S) \in S
  BY DEF Some

LEMMA AreasAreTyped == AreaInv => AreaTypeOK
<1> SUFFICES ASSUME AreaInv PROVE AreaTypeOK
  OBVIOUS
<1>1. \A v \in Purges : content[v].whole =>
        /\ content[v].exists
        /\ content[v].area \subseteq content[v].spaces /\ content[v].within \in content[v].spaces \cup {0}
        /\ \A r \in DOMAIN content[v].related : content[v].related[r] \subseteq content[v].spaces
  <2> TAKE v \in Purges
  <2> HAVE content[v].whole
  <2>1. content[v] \in AreaFiles
    BY DEF AreaInv, AreaContentOK, Missing, Truncated
  <2>2. QED
    BY <2>1 DEF AreaFiles
<1>2. child.at \in {"none", "read", "write", "report"}
  BY DEF AreaInv, AreaChildOK, NoChild
<1>3. QED
  BY <1>1, <1>2 DEF AreaInv, AreaPageOK, AreaAnswerOK, AreaTypeOK

LEMMA LevelsAreTyped == LevelInv => LevelTypeOK
<1> SUFFICES ASSUME LevelInv PROVE LevelTypeOK
  OBVIOUS
<1>1. ASSUME NEW f \in {original, workFile, batchFile} \ {NoModel}
      PROVE  /\ f.levels \subseteq Levels
             /\ f.holds \in [Things -> SUBSET f.levels]
             /\ f.parent \in [Spaces -> f.levels \cup {"none"}]
             /\ f.height \in [Things -> Int]
  <2>1. LevelModel(f)
    BY DEF LevelInv, FileTypes
  <2>2. /\ f.levels \subseteq Levels /\ f.holds \in [Things -> SUBSET Levels]
        /\ f.parent \in [Spaces -> Levels \cup {"none"}] /\ f.height \in [Things -> Int]
    BY <2>1 DEF LevelModel, LevelModels
  <2>3. /\ \A x \in Things : f.holds[x] \subseteq f.levels
        /\ \A x \in Spaces : f.parent[x] \in f.levels \cup {"none"}
    BY <2>1 DEF LevelModel
  <2>4. QED
    BY <2>2, <2>3
<1>2. ASSUME NEW p \in Pages
      PROVE  /\ batch[p].at \in {"queueing", "read", "write", "copy", "ok", "error"}
             /\ batch[p].next \in 1..(Len(queue[p]) + 1)
  <2>1. /\ batch[p].at \in {"queueing", "read", "write", "copy", "ok", "error"}
        /\ batch[p].next \in Nat \ {0} /\ queue[p] \in Seq(Offered)
    BY DEF LevelInv, BatchTypes
  <2>2. Len(queue[p]) \in Nat
    BY <2>1
  <2>3. /\ batch[p].at \in {"queueing", "error"} => batch[p].next <= Len(queue[p]) + 1
        /\ batch[p].at \in {"read", "write"} => batch[p].next <= Len(queue[p])
        /\ batch[p].at \in {"copy", "ok"} => batch[p].next = Len(queue[p]) + 1
    BY DEF LevelInv, BatchInOrder
  <2>4. QED
    BY <2>1, <2>2, <2>3
<1>3. QED
  BY <1>1, <1>2 DEF LevelInv, FileTypes, BatchTypes, LevelTypeOK

LEMMA TypesAreTyped == TypeInv => TypeEditsOK
<1> SUFFICES ASSUME TypeInv PROVE TypeEditsOK
  OBVIOUS
<1>1. \A v \in Variants : variants[v].exists => variants[v] \in TypedFiles
  BY DEF TypeInv, VariantsOK, NoVariant
<1>2. \A v \in Variants : variants[v].exists =>
        /\ variants[v].class \in [Objects \cup TypeObjects -> All]
        /\ variants[v].related \in [Objects -> TypeObjects \cup {Unresolved}]
        /\ variants[v].psets \subseteq (Objects \cup TypeObjects) \X Classes \X Words
  BY <1>1 DEF TypedFiles, Typed
<1>3. QED
  BY <1>2 DEF TypeInv, RowsOK, Typed, TypeEditsOK

(* Each tool keeps its types and its promise while it rests, and while it     *)
(* works by what is proved of it alone.                                       *)
LEMMA ReportAtRest ==
  ASSUME ReportStart(RestingReport, {})
  PROVE  ReportTypeOK /\ ReportShowsFailures
  BY DEF ReportStart, ReportTypeOK, ReportShowsFailures, NoHtml

LEMMA ReportBehaves == Spec => [](ReportTypeOK /\ ReportShowsFailures)
<1> DEFINE Here == tool = "report"
           Rests == ReportStart(RestingReport, {})
<1>1. Init => (Here => ReportInit) /\ (~Here => Rests)
  BY DEF Init
<1>2. [Next]_vars => (Here' <=> Here)
  BY DEF Next, vars
<1>3. Here /\ [Next]_vars => [ReportNext]_reportVars
  BY DEF Next, vars
<1>4. ~Here /\ Rests /\ [Next]_vars => Rests'
  BY DEF Next, vars, reportVars, ReportStart
<1>5. ReportInv => ReportTypeOK
  BY DEF ReportInv, ReportShape
<1>6. Rests => ReportTypeOK /\ ReportShowsFailures
  BY ReportAtRest
<1> HIDE DEF Here, Rests
<1>7. QED
  BY <1>1, <1>2, <1>3, <1>4, <1>5, <1>6, ReportInvariance,
     FailuresAreShown, PTL DEF Spec, ReportSpec

LEMMA AssetsAtRest ==
  ASSUME AssetStart(RestingAssets, "valid", [l \in Libraries |-> "none"], [d \in Dirs |-> {}])
  PROVE  AssetTypeOK /\ JobsFindTheirResources
<1>1. RestingAssets \in Environments
  <2>1. [refresh |-> TRUE, force |-> TRUE, urls |-> {}, sources |-> TRUE] \in Environments
    BY DEF Environments
  <2>2. QED
    BY <2>1, SomeIs DEF RestingAssets
<1>2. 0 \in 0..MaxRuns
  BY MaxRunsAssumption
<1>3. JobsFindTheirResources
  BY DEF AssetStart, NoJob, JobsFindTheirResources
<1>4. QED
  BY <1>1, <1>2, <1>3 DEF AssetStart, AssetTypeOK, NoStatus, NoJob

LEMMA AssetsBehave == Spec => [](AssetTypeOK /\ JobsFindTheirResources)
<1> DEFINE Here == tool = "assets"
           Rests == AssetStart(RestingAssets, "valid", [l \in Libraries |-> "none"], [d \in Dirs |-> {}])
<1>1. Init => (Here => AssetInit) /\ (~Here => Rests)
  BY DEF Init
<1>2. [Next]_vars => (Here' <=> Here)
  BY DEF Next, vars
<1>3. Here /\ [Next]_vars => [AssetNext]_assetVars
  BY DEF Next, vars
<1>4. ~Here /\ Rests /\ [Next]_vars => Rests'
  BY DEF Next, vars, assetVars, AssetStart
<1>5. AssetInv => AssetTypeOK
  BY DEF AssetInv
<1>6. Rests => AssetTypeOK /\ JobsFindTheirResources
  BY AssetsAtRest
<1> HIDE DEF Here, Rests
<1>7. QED
  BY <1>1, <1>2, <1>3, <1>4, <1>5, <1>6, AssetInvariance,
     JobsAreServed, PTL DEF Spec, AssetSpec

LEMMA LevelsAtRest ==
  ASSUME LevelStart(RestingModel, TRUE, [x \in Things |-> x])
  PROVE  LevelTypeOK /\ ElementsKeepTheirLevel
<1>1. Some(Storeys) \in Storeys /\ Storeys \subseteq Levels
  BY LevelAssumption, SomeIs DEF Levels
<1>2. \A f \in {original, workFile, batchFile} \ {NoModel} : f = RestingModel
  BY DEF LevelStart
<1>3. /\ RestingModel.levels = Storeys
      /\ RestingModel.holds \in [Things -> SUBSET Storeys]
      /\ RestingModel.parent \in [Spaces -> Storeys \cup {"none"}]
      /\ RestingModel.height \in [Things -> Int]
  BY <1>1, SpacesAreThings DEF RestingModel, Models
<1>4. \A p \in Pages : /\ batch[p].at = "queueing" /\ batch[p].next = 1 /\ queue[p] = <<>>
                        /\ alone[p] = FALSE
  BY DEF LevelStart, Ready
<1>5. alone \in [Pages -> BOOLEAN]
  BY DEF LevelStart
<1>6. \A p \in Pages : batch[p].next \in 1..(Len(queue[p]) + 1)
  BY <1>4
<1>7. original = RestingModel
  BY DEF LevelStart
<1>8. ElementsKeepTheirLevel
  BY <1>4 DEF ElementsKeepTheirLevel
<1>10. twin \in Twins
  BY DEF LevelStart, Twins
<1>9. QED
  BY <1>1, <1>2, <1>3, <1>4, <1>5, <1>6, <1>7, <1>8, <1>10 DEF LevelTypeOK

LEMMA LevelsBehave == Spec => [](LevelTypeOK /\ ElementsKeepTheirLevel)
<1> DEFINE Here == tool = "levels"
           Rests == LevelStart(RestingModel, TRUE, [x \in Things |-> x])
<1>1. Init => (Here => LevelInit) /\ (~Here => Rests)
  BY DEF Init
<1>2. [Next]_vars => (Here' <=> Here)
  BY DEF Next, vars
<1>3. Here /\ [Next]_vars => [LevelNext]_levelVars
  BY DEF Next, vars
<1>4. ~Here /\ Rests /\ [Next]_vars => Rests'
  BY DEF Next, vars, levelVars, LevelStart
<1>5. LevelInv => LevelTypeOK
  BY LevelsAreTyped
<1>6. Rests => LevelTypeOK /\ ElementsKeepTheirLevel
  BY LevelsAtRest
<1> HIDE DEF Here, Rests
<1>7. QED
  BY <1>1, <1>2, <1>3, <1>4, <1>5, <1>6, LevelInvariance,
     ElementsAreKept, PTL DEF Spec, LevelSpec

LEMMA AreasAtRest ==
  ASSUME AreaStart(RestingSpaces, {})
  PROVE  AreaTypeOK /\ PurgeIsExact
<1>1. RestingSpaces \in Contents({})
  <2>1. [whole |-> TRUE, exists |-> TRUE, spaces |-> {}, area |-> {}, onLine |-> {}, large |-> "no",
         related |-> [r \in Relations |-> {}], within |-> 0] \in Contents({})
    BY DEF Contents
  <2>2. QED
    BY <2>1, SomeIs DEF RestingSpaces
<1>2. /\ RestingSpaces.exists /\ RestingSpaces.area \subseteq RestingSpaces.spaces
      /\ RestingSpaces.within \in RestingSpaces.spaces \cup {0}
      /\ \A r \in DOMAIN RestingSpaces.related : RestingSpaces.related[r] \subseteq RestingSpaces.spaces
  BY <1>1 DEF Contents
<1>3. \A v \in Purges : content[v] = RestingSpaces \/ ~content[v].whole
  BY DEF AreaStart, Missing
<1>4. \A v \in Purges : content[v].whole =>
        /\ content[v].exists
        /\ content[v].area \subseteq content[v].spaces /\ content[v].within \in content[v].spaces \cup {0}
        /\ \A r \in DOMAIN content[v].related : content[v].related[r] \subseteq content[v].spaces
  BY <1>2, <1>3
<1>5. 0 \in 0..MaxReplaced
  BY AreaBoundsAssumption
<1>6. PurgeIsExact
  BY DEF AreaStart, PurgeIsExact, NoChild
<1>7. QED
  BY <1>4, <1>5, <1>6 DEF AreaStart, AreaTypeOK, NoPage, NoChild

LEMMA AreasBehave == Spec => [](AreaTypeOK /\ PurgeIsExact)
<1> DEFINE Here == tool = "areas"
           Rests == AreaStart(RestingSpaces, {})
<1>1. Init => (Here => AreaInit) /\ (~Here => Rests)
  BY DEF Init
<1>2. [Next]_vars => (Here' <=> Here)
  BY DEF Next, vars
<1>3. Here /\ [Next]_vars => [AreaNext]_areaVars
  BY DEF Next, vars
<1>4. ~Here /\ Rests /\ [Next]_vars => Rests'
  BY DEF Next, vars, areaVars, AreaStart
<1>5. AreaInv => AreaTypeOK
  BY AreasAreTyped
<1>6. Rests => AreaTypeOK /\ PurgeIsExact
  BY AreasAtRest
<1> HIDE DEF Here, Rests
<1>7. QED
  BY <1>1, <1>2, <1>3, <1>4, <1>5, <1>6, AreaInvariance,
     PurgesAreExact, PTL DEF Spec, AreaSpec

LEMMA LayersAtRest ==
  ASSUME LayerStart(RestingLayers, {})
  PROVE  LayerTypeOK /\ ReviewIsCarriedOut
<1>1. 0 \in 0..MaxChanges
  BY LayerAssumption
<1>2. Sound(model)
  BY DEF LayerStart, RestingLayers, Sound
<1>3. ReviewIsCarriedOut
  BY DEF LayerStart, Nothing, ReviewIsCarriedOut
<1>4. QED
  BY <1>1, <1>2, <1>3 DEF LayerStart, LayerTypeOK, Nothing

LEMMA LayersBehave == Spec => [](LayerTypeOK /\ ReviewIsCarriedOut)
<1> DEFINE Here == tool = "layers"
           Rests == LayerStart(RestingLayers, {})
<1>1. Init => (Here => LayerInit) /\ (~Here => Rests)
  BY DEF Init
<1>2. [Next]_vars => (Here' <=> Here)
  BY DEF Next, vars
<1>3. Here /\ [Next]_vars => [LayerNext]_layerVars
  BY DEF Next, vars
<1>4. ~Here /\ Rests /\ [Next]_vars => Rests'
  BY DEF Next, vars, layerVars, LayerStart
<1>5. LayerInv => LayerTypeOK
  BY DEF LayerInv
<1>6. Rests => LayerTypeOK /\ ReviewIsCarriedOut
  BY LayersAtRest
<1> HIDE DEF Here, Rests
<1>7. QED
  BY <1>1, <1>2, <1>3, <1>4, <1>5, <1>6, LayerInvariance,
     ReviewsAreCarriedOut, PTL DEF Spec, LayerSpec

LEMMA TypesAtRest ==
  ASSUME TypeStart(RestingFile, RestingNames, RestingLiterals, RestingElements, "IFC4", {})
  PROVE  TypeEditsOK /\ ThingsFitTheirTypes
<1> DEFINE Blank == {f \in IfcFiles : \A x \in DOMAIN f.value : f.value[x] = "unset"}
<1>1. RestingFile \in IfcFiles
  <2> DEFINE b == [exists |-> TRUE, class |-> [x \in Objects \cup TypeObjects |-> Proxy],
                   value |-> [x \in Objects \cup TypeObjects |-> "unset"],
                   related |-> [x \in Objects |-> Unresolved], legible |-> {}, psets |-> {}]
  <2>1. b \in IfcFiles
    BY DEF IfcFiles, All
  <2>2. b \in Blank
    BY <2>1
  <2>3. Some(Blank) \in Blank
    BY <2>2, SomeIs
  <2>4. QED
    BY <2>3 DEF RestingFile
<1>2. /\ RestingFile.class \in [Objects \cup TypeObjects -> All]
      /\ RestingFile.related \in [Objects -> TypeObjects \cup {Unresolved}]
      /\ RestingFile.psets = {}
  BY <1>1 DEF IfcFiles
<1>3. \A v \in Variants : variants[v] = RestingFile \/ ~variants[v].exists
  BY DEF TypeStart, NoVariant
<1>4. \A v \in Variants : variants[v].exists => variants[v] = RestingFile
  BY DEF TypeStart, NoVariant
<1>5. InSchema(RestingFile) /\ variants["uploaded"] = RestingFile
  BY DEF TypeStart, Variants
<1>6. ThingsFitTheirTypes
  <2>1. \A t \in TypeObjects : Has(RestingFile.class[t]) =>
          RestingFile.value[t] \in literals[RestingFile.class[t]] \cup {"unset"}
    BY <1>5 DEF InSchema
  <2> QED
    BY <1>4, <1>5, <2>1 DEF ThingsFitTheirTypes
<1>7. QED
  BY <1>2, <1>3, <1>6 DEF TypeStart, TypeEditsOK

LEMMA TypesBehave == Spec => [](TypeEditsOK /\ ThingsFitTheirTypes)
<1> DEFINE Here == tool = "types"
           Rests == TypeStart(RestingFile, RestingNames, RestingLiterals, RestingElements, "IFC4", {})
<1>1. Init => (Here => TypeInit) /\ (~Here => Rests)
  BY DEF Init
<1>2. [Next]_vars => (Here' <=> Here)
  BY DEF Next, vars
<1>3. Here /\ [Next]_vars => [TypeEditsNext]_typeVars
  BY DEF Next, vars
<1>4. ~Here /\ Rests /\ [Next]_vars => Rests'
  BY DEF Next, vars, typeVars, TypeStart, InSchema, Has
<1>5. TypeInv => TypeEditsOK
  BY TypesAreTyped
<1>6. Rests => TypeEditsOK /\ ThingsFitTheirTypes
  BY TypesAtRest
<1> HIDE DEF Here, Rests
<1>7. QED
  BY <1>1, <1>2, <1>3, <1>4, <1>5, <1>6, TypeInvariance,
     TypesAreKept, PTL DEF Spec, TypeEditsSpec

LEMMA WritesBehave == Spec => [](WriteTypeOK /\ OutputIsFaithful)
<1>1. Init => WriteInit
  BY DEF Init
<1>2. [Next]_vars => [WriteNext]_writeVars
  BY DEF Next, vars
<1>3. QED
  BY <1>1, <1>2, WritesAreTyped, OutputsAreFaithful, PTL DEF Spec, WriteSpec

(* Type correctness of the tools side by side: a COBie check, the assets of  *)
(* COBieQC, a write-back, levels, area spaces, layers and types.             *)
THEOREM ToolsAreTyped == Spec => []TypeOK
  BY ReportBehaves, AssetsBehave, WritesBehave, LevelsBehave, AreasBehave,
     LayersBehave, TypesBehave, PTL DEF TypeOK

(* What each tool promises holds of the tools side by side: a check hides no *)
(* failure, a job finds its resources, and what levels, write-backs, purges, *)
(* layer reviews and types were asked for is what their outputs hold.        *)
THEOREM ToolsKeepTheirPromises ==
  Spec => []( /\ ReportShowsFailures /\ JobsFindTheirResources /\ OutputIsFaithful
              /\ ElementsKeepTheirLevel /\ PurgeIsExact /\ ReviewIsCarriedOut
              /\ ThingsFitTheirTypes)
  BY ReportBehaves, AssetsBehave, WritesBehave, LevelsBehave, AreasBehave,
     LayersBehave, TypesBehave, PTL
=============================================================================
