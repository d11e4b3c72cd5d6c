----------------------------- MODULE TypeEdits -----------------------------
(***************************************************************************)
(* Types of proxies and predefined types: app.py and the two panels of the *)
(* "Proxy -> Types" page.  One rewrites the text of an IFC file: a type of *)
(* a proxy whose name begins with that of a class becomes a type of that   *)
(* class, and the proxies that a relation gives to it become elements of   *)
(* the class of its occurrences, if there is one.  The other scans the     *)
(* objects of a file, proposes a PredefinedType from the rest of the       *)
(* type's name, and sets those the user left ticked.  Each reads the file  *)
(* that is selected in its panel by then, which need not be the file that  *)
(* was scanned.                                                            *)
(***************************************************************************)
EXTENDS FiniteSets

CONSTANTS
  Objects,      \* the objects of the file
  TypeObjects,  \* their types
  Classes,      \* what names of types resolve to, e.g. "Wall"; each is a
                \* class of types, and of elements if it has any
  Words         \* what follows in the names, e.g. "Shear"

ASSUME ObjectsAreNotTypes == Objects \cap TypeObjects = {}

VARIABLES
  variants,   \* the uploaded file, {base}_typed, and {base}_predefined_{time}
  names,      \* per type: the class its name resolves to, the word after it
  literals,   \* per class: the literals of its PredefinedType, if it has one
  element,    \* per class of types: the class of their occurrences
  schema,     \* "IFC2X3" or "IFC4"
  templates,  \* Psets of the IFC2X3 templates: class and word
  ticked,     \* the rows scanned that are ticked
  reply       \* "none", "ok", or "error" for the unhandled exceptions

typeVars == <<variants, names, literals, element, schema, templates, ticked, reply>>

Proxy == "Proxy"
Unresolved == "none"
NoVariant == [exists |-> FALSE]
UserDefined == "USERDEFINED"
All == Classes \cup {Proxy}
Variants == {"uploaded", "typed", "predefined"}

Has(class) == literals[class] # {}

(* class and value of things and types: a type and a thing of a class have  *)
(* the same literals; related: a thing's type; legible: types whose         *)
(* relation is written the way the rewriting expects; psets: given to what. *)
InSchema(f) == \A t \in TypeObjects : Has(f.class[t]) => f.value[t] \in literals[f.class[t]] \cup {"unset"}

TypeStart(f, n, l, e, s, t) ==
  /\ names = n /\ literals = l /\ element = e /\ schema = s /\ templates = t
  /\ InSchema(f)
  /\ variants = [v \in Variants |-> IF v = "uploaded" THEN f ELSE NoVariant]
  /\ ticked = {} /\ reply = "none"

IfcFiles ==
  {f \in [exists : {TRUE}, class : [Objects \cup TypeObjects -> All],
          value : [Objects \cup TypeObjects -> Words \cup {UserDefined, "unset"}],
          related : [Objects -> TypeObjects \cup {Unresolved}], legible : SUBSET TypeObjects,
          psets : {{}}] : \A x \in Objects : f.value[x] = "unset"}
Literals == [All -> SUBSET (Words \cup {UserDefined})]

(* resolve_occurrence_from_type_class: a class without occurrences leaves   *)
(* them proxies; for three there is another one.                            *)
Occurrences == [Classes -> All]

TypeNames == [TypeObjects -> [class : Classes \cup {Unresolved}, word : Words]]

TypeInit ==
  \E f \in IfcFiles, n \in TypeNames, l \in Literals, e \in Occurrences,
     s \in {"IFC2X3", "IFC4"} :
    \E t \in IF s = "IFC2X3" THEN SUBSET (Classes \X Words) ELSE {{}} :
      TypeStart(f, n, l, e, s, t)

TypeEditsOK ==
  /\ \A v \in Variants : variants[v].exists =>
       /\ variants[v].class \in [Objects \cup TypeObjects -> All]
       /\ variants[v].related \in [Objects -> TypeObjects \cup {Unresolved}]
       /\ variants[v].psets \subseteq (Objects \cup TypeObjects) \X Classes \X Words
  /\ \A r \in ticked : r.of \in Objects /\ r.target \in Objects \cup TypeObjects
                     /\ r.by \in {"literal", "pset"} /\ r.value \in Words \cup {UserDefined}
  /\ reply \in {"none", "ok", "error"}

-----------------------------------------------------------------------------
(* Variant: what the name says is written as it is.                         *)
Literal_AsNamed(class, word) == word

(* resolve_predefined_literal, and what the rewriting makes of no literal,   *)
(* whether the class defines that or not.                                   *)
Literal(class, word) == IF word \in literals[class] THEN word ELSE UserDefined

(* Types of proxies and of unspecified building elements, by their names.   *)
Converted(f) == {t \in TypeObjects : f.class[t] = Proxy /\ names[t].class # Unresolved}

(* Proxies of such a type whose relation to it is read.                     *)
Retyped(f) == {o \in Objects : f.class[o] = Proxy /\ f.related[o] \in Converted(f) \cap f.legible}

Rewritten(f) ==
  [f EXCEPT
     !.class = [x \in Objects \cup TypeObjects |->
                  IF x \in Converted(f) THEN names[x].class
                  ELSE IF x \in Retyped(f) THEN element[names[f.related[x]].class] ELSE @[x]],
     !.value = [x \in Objects \cup TypeObjects |->
                  IF x \in Converted(f) THEN Literal(names[x].class, names[x].word) ELSE @[x]]]

(* rewrite_proxy_types                                                      *)
Rewrite(v) ==
  /\ v # "typed" /\ variants[v].exists
  /\ variants' = [variants EXCEPT !["typed"] = Rewritten(variants[v])]
  /\ reply' = "ok"
  /\ UNCHANGED <<names, literals, element, schema, templates, ticked>>

-----------------------------------------------------------------------------
(* What a row sets: the type, if its class has the attribute, or the thing. *)
TargetOf(f, x) ==
  LET t == f.related[x]
  IN  IF t # Unresolved /\ Has(f.class[t]) THEN {t} ELSE IF Has(f.class[x]) THEN {x} ELSE {}

(* The literal that the name stands for, of the type's class or, if that    *)
(* has none, of the thing's; else a Pset for it; else USERDEFINED.          *)
Proposed(f, x, target) ==
  LET t == f.related[x]
      word == names[t].word
      literal(value) == [of |-> x, target |-> target, by |-> "literal", value |-> value]
  IN  IF t = Unresolved \/ names[t].class = Unresolved THEN literal(UserDefined)
      ELSE IF word \in literals[f.class[target]] \cup literals[f.class[x]] THEN literal(word)
      ELSE IF <<names[t].class, word>> \in templates THEN [literal(word) EXCEPT !.by = "pset"]
      ELSE literal(UserDefined)

(* scan_predefined_types of the things of some classes: rows with a target  *)
(* are ticked.                                                              *)
ScanTypes(v) ==
  /\ variants[v].exists
  /\ \E classes \in SUBSET All :
       ticked' = {Proposed(variants[v], p[1], p[2]) :
                  p \in {q \in Objects \X (Objects \cup TypeObjects) :
                    variants[v].class[q[1]] \in classes /\ q[2] \in TargetOf(variants[v], q[1])}}
  /\ reply' = "none"
  /\ UNCHANGED <<variants, names, literals, element, schema, templates>>

UntickRow(r) ==
  /\ ticked' = ticked \ {r} /\ reply' = "none"
  /\ UNCHANGED <<variants, names, literals, element, schema, templates>>

(* apply_predefined_type_changes to the file selected now: of several rows  *)
(* for one type the last counts.  A value that its class lacks fails, but    *)
(* is not set where it is read to be there already.                         *)
ApplyTypes(v) ==
  LET f == variants[v]
      literal == {r \in ticked : r.by = "literal" /\ Has(f.class[r.target])}
      targets == {r.target : r \in literal}
      psets == {<<r.target, names[f.related[r.of]].class, r.value>> : r \in ticked \ {s \in ticked : s.by = "literal"}}
  IN  /\ ticked # {} /\ f.exists
      /\ \/ /\ \A r \in literal :
                r.value \in literals[f.class[r.target]] \cup {f.value[r.target]}
            /\ \E last \in [targets -> literal] :
                 /\ \A t \in targets : last[t].target = t
                 /\ variants' = [variants EXCEPT !["predefined"] =
                      [f EXCEPT !.value = [x \in Objects \cup TypeObjects |-> IF x \in targets THEN last[x].value ELSE @[x]],
                                !.psets = @ \cup psets]]
            /\ reply' = "ok"
         \/ /\ \E r \in literal : r.value \notin literals[f.class[r.target]]
            /\ reply' = "error" /\ UNCHANGED variants
      /\ UNCHANGED <<names, literals, element, schema, templates, ticked>>

TypeEditsNext ==
  \/ \E v \in Variants : Rewrite(v) \/ ScanTypes(v) \/ ApplyTypes(v)
  \/ \E r \in ticked : UntickRow(r)

TypeEditsSpec == TypeInit /\ [][TypeEditsNext]_typeVars

-----------------------------------------------------------------------------
(* Whatever files are rewritten, scanned and changed in which order, a type *)
(* in them has a value that its class defines, or none, unless it was        *)
(* converted and its name has no literal of the class, when USERDEFINED is   *)
(* written; and a proxy whose type has become one of a class is of the       *)
(* class that the schema has for the occurrences of that, or a proxy still.  *)
ThingsFitTheirTypes ==
  \A v \in Variants : variants[v].exists =>
    LET f == variants[v]
        converted == {t \in TypeObjects :
                        variants["uploaded"].class[t] = Proxy /\ f.class[t] = names[t].class}
    IN  /\ \A t \in TypeObjects : Has(f.class[t]) =>
             \/ f.value[t] \in literals[f.class[t]] \cup {"unset"}
             \/ /\ t \in converted /\ f.value[t] = UserDefined
                /\ names[t].word \notin literals[f.class[t]]
        /\ \A x \in Objects :
             (/\ variants["uploaded"].class[x] = Proxy
              /\ f.related[x] \in converted \cap f.legible /\ f.class[f.related[x]] # Proxy)
               => f.class[x] = element[f.class[f.related[x]]]
===========================================================================
