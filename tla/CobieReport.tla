---------------------------- MODULE CobieReport ----------------------------
(***************************************************************************)
(* One check of a COBie workbook: run_cobieqc of cobieqc_service/runner.py *)
(* and the native engine.  The workbook becomes XML, the phases of the     *)
(* Schematron that fit the stage are compiled and applied one after the    *)
(* other, their results are merged into one SVRL file, and that becomes an *)
(* HTML report.  Each transformation is a process or library call that can *)
(* fail, and some failures are replaced by a fallback.                     *)
(*                                                                         *)
(* A pattern of the Schematron is known by the entity whose rows it        *)
(* checks; a group is what one pattern left in the SVRL: a fired-rule with *)
(* the failed asserts that follow it.                                      *)
(***************************************************************************)
EXTENDS Naturals, FiniteSets

CONSTANTS
  Entities,  \* worksheets with rules, e.g. Contact, Floor
  Phases,    \* phase ids of COBieRules.sch
  MaxRows    \* bound: rows of the workbook

VARIABLES
  config,     \* the engine, XSLT engine and renderer of the environment
  stage,      \* where the check is
  workbook,   \* its rows
  elements,   \* rows of the generated XML
  active,     \* per phase: the patterns it activates
  remaining,  \* phases still to be compiled and applied
  done,       \* phases applied
  groups,     \* what the SVRL holds
  warnings,   \* the kinds of warnings collected
  html,       \* the HTML report: what wrote it, which groups it shows
  answer      \* "none", "ok" or "error"

reportVars == <<config, stage, workbook, elements, active, remaining, done, groups,
                warnings, html, answer>>

Roles == {"", "WorksheetErrors", "other"}
(* A row belongs to what its sheet's name, singular or plural, stands for.  *)
SheetRows == [entity : Entities, cells : {"blank", "good", "bad", "undated"}]
NoHtml == [by |-> "nobody", shows |-> {}, notes |-> {}]
Default == "(default)"

Configs ==
  {c \in [engine : {"java", "python"}, xslt : {"saxon", "lxml", "other"},
          renderer : {"native_svrl", "legacy"}] :
     c.engine = "java" => c.xslt = "other" /\ c.renderer = "legacy"}

ReportStart(c, w) ==
  /\ config = c /\ workbook = w
  /\ stage = "start" /\ elements = {}
  /\ active = [p \in Phases |-> {}]
  /\ remaining = {} /\ done = {} /\ groups = {} /\ warnings = {}
  /\ html = NoHtml /\ answer = "none"

ReportInit ==
  \E c \in Configs, w \in {w \in SUBSET SheetRows : Cardinality(w) <= MaxRows} : ReportStart(c, w)

ReportTypeOK ==
  /\ stage \in {"start", "xml", "inspect", "phases", "compile", "apply", "merge",
               "normalise", "render", "integrity", "override", "end"}
  /\ elements \subseteq workbook
  /\ active \in [Phases -> SUBSET Entities]
  /\ remaining \subseteq Phases \cup {Default} /\ done \subseteq Phases \cup {Default}
  /\ \A g \in groups : g.role \in Roles /\ g.failed \subseteq elements
  /\ warnings \subseteq {"date", "fallback", "unfired", "transform", "mismatch"}
  /\ html.shows \subseteq groups /\ html.notes \subseteq warnings
  /\ answer \in {"none", "ok", "error"}

-----------------------------------------------------------------------------
End(a) == stage' = "end" /\ answer' = a

(* The one handler around everything: the answer is an error, whatever the *)
(* files hold by then.                                                      *)
Fail ==
  /\ stage \in {"start", "xml", "inspect", "phases", "compile", "apply", "merge",
               "normalise", "render", "integrity", "override"}
  /\ config.engine = "python"
  /\ stage \in {"compile", "apply"} => config.xslt = "saxon"
  /\ End("error")
  /\ UNCHANGED <<config, workbook, elements, active, remaining, done, groups,
                 warnings, html>>

(* The Java reporter writes its own page, or not: no jar or resources, heap *)
(* settings it refuses, a timeout, an exit code, an empty file.             *)
JavaRun ==
  /\ stage = "start" /\ config.engine = "java"
  /\ \/ End("error") /\ UNCHANGED html
     \/ End("ok") /\ html' = [NoHtml EXCEPT !.by = "jar"]
  /\ UNCHANGED <<config, workbook, elements, active, remaining, done, groups, warnings>>

Choose ==
  /\ stage = "start" /\ config.engine = "python"
  /\ stage' = "xml"
  /\ UNCHANGED <<config, workbook, elements, active, remaining, done, groups,
                 warnings, html, answer>>

Kept(rows) == {r \in rows : r.cells # "blank"}

(* Singular and plural worksheets fill one container; blank rows are left   *)
(* out; a CreatedOn that cannot be read is dropped with a warning.          *)
Build ==
  /\ stage = "xml"
  /\ elements' = Kept(workbook)
  /\ warnings' = IF \E r \in Kept(workbook) : r.cells = "undated"
                 THEN warnings \cup {"date"} ELSE warnings
  /\ stage' = "inspect"
  /\ UNCHANGED <<config, workbook, active, remaining, done, groups, html, answer>>

(* Diagnostics of the XML are logged only; whatever they meet ends the run. *)
Inspect ==
  /\ stage = "inspect"
  /\ stage' = "phases"
  /\ UNCHANGED <<config, workbook, elements, active, remaining, done, groups,
                 warnings, html, answer>>

(* The phases configured that exist, else those named like the stage, else  *)
(* the first; a Schematron without phases runs its default.                 *)
Selected(ids, configured, named) ==
  IF configured \cap ids # {} THEN {configured \cap ids}
  ELSE IF ids = {} THEN {{Default}}
  ELSE IF named # {} THEN {named}
  ELSE {{p} : p \in ids}

LoadPhases ==
  /\ stage = "phases" /\ config.xslt # "other"
  /\ \E ids \in SUBSET Phases : \E configured \in {{}, Phases}, named \in SUBSET ids :
       /\ active' \in {a \in [Phases -> SUBSET Entities] : \A p \in Phases : a[p] = {} <=> p \notin ids}
       /\ remaining' \in Selected(ids, configured, named)
  /\ stage' = "compile"
  /\ UNCHANGED <<config, workbook, elements, done, groups, warnings, html, answer>>

(* _write_fallback_svrl: a failed assert for the error, if there is one.    *)
Fallback(errors) ==
  /\ groups' = {[phase |-> "fallback", pattern |-> "", role |-> "", failed |-> {}, error |-> TRUE] : e \in errors}
  /\ warnings' = warnings \cup {"fallback"}
  /\ remaining' = {} /\ done' = {}
  /\ stage' = "normalise"

(* lxml that cannot be imported, and any failure with it.                   *)
FallBack ==
  /\ config.xslt = "lxml"
  /\ \/ stage = "phases" /\ Fallback({})
     \/ stage \in {"phases", "compile", "apply"} /\ Fallback({"error"})
  /\ UNCHANGED <<config, workbook, elements, active, html, answer>>

Compile ==
  /\ stage = "compile" /\ remaining # {}
  /\ stage' = "apply"
  /\ UNCHANGED <<config, workbook, elements, active, remaining, done, groups,
                 warnings, html, answer>>

Activated(p) == IF p = Default THEN Entities ELSE active[p]

(* A pattern fires where its container has rows; roles come from the rules. *)
Checked(p, role) ==
  {[phase |-> p, pattern |-> e, role |-> role[e], error |-> FALSE,
    failed |-> {r \in elements : r.entity = e /\ r.cells # "good"}]
     : e \in {x \in Activated(p) : \E r \in elements : r.entity = x}}

ApplyPhase ==
  /\ stage = "apply"
  /\ \E p \in remaining, role \in [Entities -> Roles] :
       /\ \A e \in Entities : (\A r \in elements : r.entity # e) => role[e] = ""
       /\ groups' = groups \cup Checked(p, role)
       /\ remaining' = remaining \ {p} /\ done' = done \cup {p}
  /\ stage' = IF remaining' = {} THEN "merge" ELSE "compile"
  /\ UNCHANGED <<config, workbook, elements, active, warnings, html, answer>>

(* The children of every phase's SVRL are appended to the first one's.      *)
Merge ==
  /\ stage = "merge"
  /\ stage' = "normalise"
  /\ UNCHANGED <<config, workbook, elements, active, remaining, done, groups,
                 warnings, html, answer>>

Failing(gs) == {g \in gs : g.failed # {} \/ g.error}

(* A fired rule without a role gets that of an error group.                 *)
WithRole(g) ==
  IF g.role = "" /\ ~g.error /\ g.failed # {} THEN [g EXCEPT !.role = "WorksheetErrors"] ELSE g

(* Afterwards the SVRL is read: no rule fired may be warned of.             *)
Normalise ==
  /\ stage = "normalise"
  /\ groups' = {WithRole(g) : g \in groups}
  /\ \/ UNCHANGED warnings
     \/ (\A g \in groups : g.error) /\ warnings' = warnings \cup {"unfired"}
  /\ stage' = "render"
  /\ UNCHANGED <<config, workbook, elements, active, remaining, done, html, answer>>

Native(notes) == [by |-> "native", shows |-> Failing(groups), notes |-> notes]

(* The stylesheet that comes with the resources shows the error groups, and *)
(* says that there are no errors when it finds none.                        *)
Legacy == [by |-> "legacy", notes |-> {},
           shows |-> {g \in Failing(groups) : g.role = "WorksheetErrors"}]

(* Variant: the text is looked for in capitals.                             *)
SaysNoErrors_Never(p) == FALSE

SaysNoErrors(p) == p.by = "legacy" /\ p.shows = {}

(* The native page, when it is configured or no stylesheet could be used;   *)
(* it also replaces what a stylesheet wrote if that says there are no errors *)
(* and there are.                                                            *)
Render ==
  /\ stage = "render"
  /\ \/ /\ html' = Native(warnings) /\ stage' = "integrity"
        /\ \/ UNCHANGED warnings
           \/ config.renderer = "legacy" /\ warnings' = warnings \cup {"transform"}
     \/ /\ config.renderer = "legacy"
        /\ IF Failing(groups) # {} /\ SaysNoErrors(Legacy)
           THEN html' = Native(warnings) /\ stage' = "override"
           ELSE html' = Legacy /\ stage' = "integrity"
        /\ UNCHANGED warnings
  /\ UNCHANGED <<config, workbook, elements, active, remaining, done, groups, answer>>

(* run_cobieqc_native looks at the page once more, and then answers.        *)
CheckIntegrity ==
  /\ stage \in {"integrity", "override"}
  /\ IF Failing(groups) # {} /\ (stage = "override" \/ SaysNoErrors(html))
     THEN /\ warnings' = warnings \cup {"mismatch"}
          /\ html' = Native(warnings')
     ELSE UNCHANGED <<warnings, html>>
  /\ End("ok")
  /\ UNCHANGED <<config, workbook, elements, active, remaining, done, groups>>

ReportNext ==
  \/ Fail \/ JavaRun \/ Choose \/ Build \/ Inspect \/ LoadPhases \/ FallBack
  \/ Compile \/ ApplyPhase \/ Merge \/ Normalise \/ Render \/ CheckIntegrity

ReportSpec == ReportInit /\ [][ReportNext]_reportVars

-----------------------------------------------------------------------------
Faulty == {r \in workbook : r.cells \in {"bad", "undated"}}

(* A check that is answered with success never hides what is wrong with the *)
(* workbook: whichever phases ran, a faulty row of a worksheet they look at *)
(* is among the failures the native page lists (it stops at the thousandth),*)
(* a stylesheet's page lists some failure, and a check that could not be    *)
(* carried out says so, in the page or in the warnings of the result; a     *)
(* date that was dropped is told.                                           *)
ReportShowsFailures ==
  answer = "ok" /\ config.engine = "python" =>
    /\ "fallback" \in warnings \/ done # {}
    /\ \A p \in done, r \in Faulty : r.entity \in Activated(p) =>
         IF html.by = "native" THEN \E g \in html.shows : g.phase = p /\ r \in g.failed
                               ELSE html.shows # {}
    /\ \A g \in groups : g.error => g \in html.shows
    /\ html.by = "native" => warnings \ {"transform"} \subseteq html.notes
    /\ (\E r \in Faulty : r.cells = "undated") => "date" \in warnings

===========================================================================
