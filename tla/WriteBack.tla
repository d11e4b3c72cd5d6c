----------------------------- MODULE WriteBack -----------------------------
(***************************************************************************)
(* The Excel round trip: a workbook is exported from an IFC file, edited,  *)
(* and written back by update_ifc_from_excel (app.py), whose plan          *)
(* (ifc_write_plan.py, ifc_excel_native_plan.py) collects what the cells   *)
(* ask for, decides it before anything is changed, applies it to the model *)
(* in memory, writes the output, verifies it, and only then records in the *)
(* workbook what the cells held when they were exported.                   *)
(*                                                                         *)
(* What is told apart is who shares what: occurrences share a type, whose  *)
(* name a cell of any of them edits, a material may be the occurrence's or *)
(* its type's, and property sets and classification references may be      *)
(* shared.  A new type is known by the write that split it off and by one of *)
(* the occurrences it was split off for.                                    *)
(***************************************************************************)
EXTENDS Naturals, Sequences, FiniteSets

CONSTANTS
  Rows,      \* the occurrences in the order of their rows
  TheType,   \* the type of the file, which has a row of its own
  NoType,    \* stands where there is none
  Values,    \* what the user may type; "old" is what everything was
  MaxEdits,  \* bound: cells edited
  MaxWrites  \* bound: writes

VARIABLES
  source,    \* the IFC file the next write reads
  output,    \* the file it writes; NoFile before
  memory,    \* the model in memory while a write runs
  cells,     \* the workbook; "" is blank
  exported,  \* what the cells held when it was exported
  baseline,  \* its sheet _IFCWritebackBaseline
  split,     \* split_shared_types of the running write
  step,      \* where it is
  sound,     \* the source is what was exported or such an output, see Continue
  written,   \* the cells of the write that made the source
  edits, writes

writeVars == <<source, output, memory, cells, exported, baseline, split, step,
               sound, written, edits, writes>>

Occ == {Rows[i] : i \in DOMAIN Rows}
Old == "old"
Text == Values \cup {Old}
Types == {TheType} \cup ((1..MaxWrites) \X Occ)
NoFile == [type |-> <<>>]

ASSUME WriteAssumption ==
  /\ Rows \in Seq(Occ) /\ Rows # <<>>
  /\ TheType \notin (1..MaxWrites) \X Occ
  /\ NoType \notin Types /\ Occ \cap (Types \cup {NoType}) = {}
  /\ "" \notin Values /\ MaxEdits \in Nat /\ MaxWrites \in Nat

(* The cells that can be edited, by sheet, row and what they address.       *)
Cells ==
  [sheet : {"Elements"}, of : Occ, field : {"typeName", "material", "class"}]
    \cup [sheet : {"Types"}, of : {TheType}, field : {"typeName", "class"}]
    \cup [sheet : {"COBieMapping"}, of : Occ, field : {"property"}]
    \cup [sheet : {"Uniclass"}, of : Occ, field : {"code"}]

Files(typed, sets, refs, material) ==
  [type |-> [o \in Occ |-> IF o \in typed THEN TheType ELSE NoType],
   name |-> [t \in Types |-> Old],
   class |-> [x \in Occ \cup Types |-> Old],
   material |-> [x \in Occ \cup Types |-> IF x \in material THEN Old ELSE ""],
   set |-> sets, property |-> [o \in Occ |-> Old],
   ref |-> refs, code |-> [o \in Occ |-> Old]]

-----------------------------------------------------------------------------
(* material_assignment: the occurrence's own, else its type's if it has one. *)
MaterialOwner(f, x) ==
  IF x \in Occ /\ f.material[x] = "" /\ f.type[x] # NoType /\ f.material[f.type[x]] # ""
  THEN f.type[x] ELSE x

(* What a cell addresses, which may be a type that is not there.            *)
Owner(f, c) ==
  IF c.field = "typeName" /\ c.of \in Occ THEN f.type[c.of]
  ELSE IF c.field = "material" THEN MaterialOwner(f, c.of) ELSE c.of

(* read_source *)
Value(f, x, field) ==
  CASE field = "typeName" -> IF x = NoType THEN "" ELSE f.name[x]
    [] field = "material" -> f.material[MaterialOwner(f, x)]
    [] field = "class"    -> f.class[x]
    [] field = "property" -> f.property[f.set[x]]
    [] field = "code"     -> f.code[f.ref[x]]

Read(f, c) == Value(f, Owner(f, c), c.field)

WriteInit ==
  /\ \E typed \in {Occ, {Rows[1]}}, material \in {{}, {Rows[1]}, {TheType}},
        sets \in {[o \in Occ |-> o], [o \in Occ |-> Rows[1]]} :
       source = Files(typed, sets, sets, material)
  /\ output = NoFile /\ memory = NoFile
  /\ exported = [c \in Cells |-> Read(source, c)]
  /\ cells = exported
  /\ baseline = <<>>
  /\ split = FALSE /\ step = "edit" /\ sound = TRUE /\ written = <<>>
  /\ edits = 0 /\ writes = 0

Edit ==
  /\ step = "edit" /\ edits < MaxEdits
  /\ \E c \in Cells, v \in Values \cup {""} : cells[c] # v /\ cells' = [cells EXCEPT ![c] = v]
  /\ edits' = edits + 1
  /\ UNCHANGED <<source, output, memory, exported, baseline, split, step, sound,
                 written, writes>>

-----------------------------------------------------------------------------
LastOf(S) == LET i == CHOOSE i \in DOMAIN Rows : Rows[i] \in S /\ \A k \in DOMAIN Rows : k > i => Rows[k] \notin S
             IN  Rows[i]

Members(f, t) == {o \in Occ : f.type[o] = t}

(* add: blanks and types that are not there ask for nothing, nor does a     *)
(* cell that still holds what was exported.  A material is not even looked  *)
(* up there while the cell says what the source does.                       *)
Exported(f, c) == IF c \in DOMAIN baseline THEN baseline[c] ELSE Read(f, c)
Considered(f) ==
  {c \in Cells : /\ c.sheet # "Uniclass" /\ cells[c] # "" /\ Owner(f, c) # NoType
                 /\ c.field = "material" => cells[c] # Read(f, c)}
Asking(f) == {c \in Considered(f) : cells[c] # Exported(f, c)}

(* expand_classes: a class is asked for the type and for all its members.   *)
Sharing(f, c) ==
  LET t == IF c.of \in Occ THEN f.type[c.of] ELSE c.of
  IN  IF t = NoType THEN {} ELSE Members(f, t) \cup {t}
Expansions(f) ==
  UNION {{[sheet |-> c.sheet, of |-> x, field |-> "class", value |-> cells[c]] : x \in Sharing(f, c) \ {c.of}} :
           c \in {c \in Asking(f) : c.field = "class"}}
Key(e) == [sheet |-> e.sheet, of |-> e.of, field |-> e.field]

Requests(f) ==
  {[by |-> c.of, to |-> Owner(f, c), field |-> c.field, value |-> cells[c]] : c \in Asking(f)}
    \cup {[by |-> e.of, to |-> e.of, field |-> "class", value |-> e.value] :
            e \in {x \in Expansions(f) : x.value # Exported(f, Key(x))}}

(* The names asked for the type of an occurrence, by its own row or by the  *)
(* row of the type.                                                         *)
NamesFor(f, o) ==
  {r.value : r \in {x \in Requests(f) : x.field = "typeName" /\ x.to = f.type[o] /\ x.by \in {o, x.to}}}
Contradictory(f) == \E o \in Occ : Cardinality(NamesFor(f, o)) > 1

NameOf(f, o) == IF NamesFor(f, o) = {} THEN f.name[f.type[o]] ELSE CHOOSE n \in NamesFor(f, o) : TRUE

(* The type an occurrence will have: a new one if its group is not the      *)
(* whole type, nor the group that keeps the name.                           *)
Group(f, o) == {p \in Members(f, f.type[o]) : NameOf(f, p) = NameOf(f, o)}
Assigned(f, o) ==
  IF /\ split /\ f.type[o] # NoType
     /\ NameOf(f, o) # f.name[f.type[o]] /\ Group(f, o) # Members(f, f.type[o])
  THEN <<writes, CHOOSE p \in Group(f, o) : TRUE>> ELSE f.type[o]
Splits(f) == {<<f.type[o], Assigned(f, o)>> : o \in {x \in Occ : Assigned(f, x) # f.type[x]}}

(* Variant: requests stay with the type they were read from.                *)
Routed_Source(f) == {[to |-> r.to, field |-> r.field, value |-> r.value] : r \in Requests(f)}

(* resolve: what a row asks of its type is asked of the type the row will   *)
(* have; what is asked of a type directly, of all that come from it.        *)
Routed(f) ==
  UNION {LET via == r.by # r.to
             all == IF via THEN {IF r.by \in Occ /\ r.to = f.type[r.by] THEN Assigned(f, r.by) ELSE r.to}
                    ELSE {r.to} \cup {s[2] : s \in {x \in Splits(f) : x[1] = r.to}}
         IN  {[to |-> d, field |-> r.field, value |-> r.value] : d \in all} : r \in Requests(f)}

Conflicting(f) ==
  \/ split /\ Contradictory(f)
  \/ \E r, s \in Routed(f) : r.to = s.to /\ r.field = s.field /\ r.value # s.value

(* Errors of the plan are reported before anything is changed.              *)
Plan ==
  /\ step = "edit" /\ writes < MaxWrites
  /\ writes' = writes + 1
  /\ split' \in BOOLEAN
  /\ memory' = source /\ step' = "plan"
  /\ UNCHANGED <<source, output, cells, exported, baseline, sound, written, edits>>

Reject ==
  /\ step = "plan" /\ Conflicting(source)
  /\ step' = "edit" /\ memory' = NoFile
  /\ UNCHANGED <<source, output, cells, exported, baseline, split, sound, written,
                 edits, writes>>

(* set_uniclass: every row that is not blank writes its reference in place,  *)
(* in the order of the rows.                                                 *)
Codes(f) ==
  [r \in Occ |->
    LET rows == {o \in Occ : f.ref[o] = r /\ cells[[sheet |-> "Uniclass", of |-> o, field |-> "code"]] # ""}
    IN  IF rows = {} THEN f.code[r]
        ELSE cells[[sheet |-> "Uniclass", of |-> LastOf(rows), field |-> "code"]]]

(* _apply_splits: a new type is a copy with its own association, and takes  *)
(* its group over.                                                          *)
Divided(f) ==
  LET from(t) == IF \E s \in Splits(f) : s[2] = t THEN f.type[t[2]] ELSE t
      of(x) == IF x \in Occ THEN x ELSE from(x)
  IN  [f EXCEPT !.type = [o \in Occ |-> Assigned(f, o)],
                !.name = [t \in Types |-> f.name[from(t)]],
                !.class = [x \in Occ \cup Types |-> f.class[of(x)]],
                !.material = [x \in Occ \cup Types |-> f.material[of(x)]]]

(* write_source for every request, those of properties in row order into    *)
(* the set the occurrence has.                                              *)
Applied(f) ==
  LET todo == Routed(f)
      is(x, field) == \E r \in todo : r.to = x /\ r.field = field
      new(x, field) == (CHOOSE r \in todo : r.to = x /\ r.field = field).value
      g == Divided(f)
      writers(s) == {o \in Occ : g.set[o] = s /\ is(o, "property")}
  IN  [g EXCEPT
        !.name = [t \in Types |-> IF is(t, "typeName") THEN new(t, "typeName") ELSE @[t]],
        !.class = [x \in Occ \cup Types |-> IF is(x, "class") THEN new(x, "class") ELSE @[x]],
        !.material = [x \in Occ \cup Types |-> IF is(x, "material") THEN new(x, "material") ELSE @[x]],
        !.property = [s \in Occ |-> IF writers(s) = {} THEN @[s]
                        ELSE new(LastOf(writers(s)), "property")],
        !.code = Codes(f)]

Apply ==
  /\ step = "plan" /\ ~Conflicting(source)
  /\ memory' = Applied(source)
  /\ step' = "apply"
  /\ UNCHANGED <<source, output, cells, exported, baseline, split, sound, written,
                 edits, writes>>

Write ==
  /\ step = "apply"
  /\ output' = memory
  /\ step' = "verify"
  /\ UNCHANGED <<source, memory, cells, exported, baseline, split, sound, written,
                 edits, writes>>

(* verify: the file is opened again; every request reads back.              *)
Verified == \A r \in Routed(source) : Value(output, r.to, r.field) = r.value

Verify ==
  /\ step = "verify" /\ Verified
  /\ step' = "record"
  /\ UNCHANGED <<source, output, memory, cells, exported, baseline, split, sound,
                 written, edits, writes>>

Record ==
  /\ step = "record"
  /\ baseline' = [k \in DOMAIN baseline \cup Considered(source) \cup {Key(e) : e \in Expansions(source)}
                    |-> IF k \in DOMAIN baseline THEN baseline[k] ELSE Read(source, k)]
  /\ memory' = NoFile /\ step' = "done"
  /\ UNCHANGED <<source, output, cells, exported, split, sound, written, edits, writes>>

(* What the next write may take for granted: no cell was emptied before it   *)
(* was recorded, no class edited after the first output was taken.           *)
Complete == \A c \in Cells : cells[c] = "" => exported[c] = ""
Steady == written # <<>> => \A c \in Cells : c.field = "class" => cells[c] = written[c]

(* The job fails or its process dies; what was written stays.               *)
Abort ==
  /\ step \in {"plan", "apply", "verify", "record"}
  /\ memory' = NoFile /\ step' = "failed"
  /\ UNCHANGED <<source, output, cells, exported, baseline, split, sound, written,
                 edits, writes>>

(* The session keeps both files, and the next write may name either.        *)
Continue ==
  /\ step \in {"done", "failed"}
  /\ step' = "edit"
  /\ \/ UNCHANGED <<source, sound, written>>
     \/ /\ output # NoFile
        /\ source' = output /\ written' = cells
        /\ sound' = (step = "done" /\ sound /\ IF written = <<>> THEN Complete ELSE Steady)
  /\ output' = NoFile
  /\ UNCHANGED <<memory, cells, exported, baseline, split, edits, writes>>

WriteNext ==
  \/ Edit \/ Plan \/ Reject \/ Apply \/ Write \/ Verify \/ Record \/ Abort \/ Continue

WriteSpec == WriteInit /\ [][WriteNext]_writeVars

WriteTypeOK ==
  /\ step \in {"edit", "plan", "apply", "verify", "record", "done", "failed"}
  /\ cells \in [Cells -> Text \cup {""}] /\ exported \in [Cells -> Text \cup {""}]
  /\ \A k \in DOMAIN baseline : baseline[k] \in Text \cup {""}
  /\ source.type \in [Occ -> Types \cup {NoType}] /\ source.name \in [Types -> Text]
  /\ edits \in 0..MaxEdits /\ writes \in 0..MaxWrites

-----------------------------------------------------------------------------
Wanted == {c \in Cells : cells[c] \notin {"", exported[c]} /\ Owner(source, c) # NoType}

(* What a cell shares with others in the source.                            *)
Shared(c) ==
  CASE c.field = "typeName" -> IF split /\ c.of \in Occ THEN c.of ELSE Owner(source, c)
    [] c.field = "material" -> Owner(source, c)
    [] c.field = "class"    -> IF c.of \in Occ /\ source.type[c.of] # NoType
                               THEN source.type[c.of] ELSE c.of
    [] OTHER                -> source.set[c.of]

Touched(c) ==
  \E w \in Wanted : /\ w.field = c.field
                    /\ \/ Shared(w) = Shared(c)
                       \/ w.field = "typeName" /\ (w.of = Owner(source, c) \/ c.of = Owner(source, w))

(* A write that ends has done what the workbook asks and no more: a cell    *)
(* that was edited reads back from the output, whichever types were split;  *)
(* one that shares nothing with an edited cell reads as before, and where   *)
(* types are split an occurrence keeps its type's name unless its own row   *)
(* or the type's asks otherwise; occurrences keep the class of their type.  *)
(* The same workbook written to that output again changes nothing.  The     *)
(* source is what was exported, or the output of such a write: after one    *)
(* that failed, cells nobody touched would be taken for edits, and so would *)
(* cells that were empty in the first write; and a class edited after the   *)
(* first output was taken may be known to have been asked of a type or a    *)
(* member of it and not of the others.  Codes are excepted, which the last  *)
(* row that shares them decides, and materials after the first write, which *)
(* may go back to what they were.                                           *)
Looked == {c \in Cells : c.field # "code" /\ (c.field = "material" => written = <<>>)}

AsAsked == \A c \in Wanted \cap Looked : Read(output, c) = cells[c]
NoMore == \A c \in Looked : ~Touched(c) => Read(output, c) = Read(source, c)
OneClass(f) == \A o \in Occ : f.type[o] # NoType => f.class[o] = f.class[f.type[o]]
NotAgain == written = cells => \A c \in Looked : Read(output, c) = Read(source, c)

OutputIsFaithful ==
  step = "done" /\ sound /\ Steady => AsAsked /\ NoMore /\ OneClass(output) /\ NotAgain
===========================================================================
