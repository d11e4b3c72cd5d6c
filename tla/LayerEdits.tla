----------------------------- MODULE LayerEdits -----------------------------
(***************************************************************************)
(* Presentation layer alignment: app.py and the page in static/app.js.     *)
(* The page extracts the layers of an IFC file, each with the allowed      *)
(* layer that resembles it most; without layers, the Uniclass codes; and   *)
(* always, by class, the elements that have neither layer nor code.  The   *)
(* user settles a final layer for each row, and apply_layer_changes writes *)
(* a copy in which approved rows are carried out.                          *)
(*                                                                         *)
(* Every element has one representation item, or none.                     *)
(***************************************************************************)
EXTENDS Naturals, FiniteSets, FiniteSetsExt

CONSTANTS
  Elements,        \* the elements of the file
  Names,           \* names of layers, in the file or given by the user
  UniclassCodes,   \* Uniclass codes
  ElementClasses,  \* IFC classes of elements
  MaxLayers,       \* bound: layer assignments of a file that is uploaded
  MaxChanges       \* bound: changes to the rows, uploads of another file

(* The rows that are sent are known by their existing value, and no layer   *)
(* or code is called as a class is.                                         *)
ASSUME LayerAssumption ==
  /\ IsFiniteSet(Names)
  /\ MaxLayers \in Nat /\ MaxChanges \in Nat
  /\ (Names \cup UniclassCodes) \cap ElementClasses = {}

VARIABLES
  model,    \* the file in the session
  allowed,  \* the allowed layers
  review,   \* the review shown on the page
  applied,  \* what the last apply read, the rows it was sent, what it wrote
  changes   \* counts against MaxChanges

layerVars == <<model, allowed, review, applied, changes>>

Nothing == [done |-> FALSE]
Unnamed == ""

(* layers: the assignments by number, two of which may have one name, and   *)
(* one may have none or hold nothing; text: "Layer" properties; shown:      *)
(* elements with a representation.                                          *)
LayerFiles ==
  [layers : UNION {[1..n -> [name : Names \cup {Unnamed}, items : SUBSET Elements]] : n \in 0..MaxLayers},
   text : [Elements -> Names \cup {Unnamed}], code : [Elements -> UniclassCodes \cup {Unnamed}],
   class : [Elements -> ElementClasses], shown : SUBSET Elements]
Sound(f) == \A l \in DOMAIN f.layers : f.layers[l].items \subseteq f.shown

LayerStart(f, a) ==
  /\ model = f /\ allowed = a
  /\ review = {} /\ applied = Nothing /\ changes = 0

LayerInit == \E f \in {f \in LayerFiles : Sound(f)}, a \in SUBSET Names : LayerStart(f, a)

LayerTypeOK ==
  /\ Sound(model) /\ allowed \subseteq Names
  /\ \A r \in review : /\ r.kind \in {"layer", "code", "class"}
                     /\ r.final \in Names \cup {Unnamed} /\ r.apply \in BOOLEAN
  /\ \A r, s \in review : r.existing = s.existing => r = s
  /\ applied.done => Sound(applied.wrote)
  /\ changes \in 0..MaxChanges

-----------------------------------------------------------------------------
NamesOf(f, e) == {f.layers[l].name : l \in {l \in DOMAIN f.layers : e \in f.layers[l].items}}

(* extract_presentation_layers, else extract_uniclass_ss_classifications.   *)
Extracted(f) ==
  LET layers == {f.layers[l].name : l \in DOMAIN f.layers} \ {Unnamed}
  IN  IF layers # {} THEN {<<"layer", n>> : n \in layers}
      ELSE {<<"code", c>> : c \in {f.code[e] : e \in Elements} \ {Unnamed}}

(* extract_unassigned_elements_by_ifcclass                                  *)
Unassigned(f) ==
  {e \in Elements : NamesOf(f, e) \subseteq {Unnamed} /\ f.text[e] = Unnamed /\ f.code[e] = Unnamed}

(* propose_layer_mapping: the resemblance of names is chosen.  A suggestion *)
(* that is not sure is shown, and is not the final value.                   *)
Suggestions(n) == IF n \in allowed THEN {n} ELSE allowed \cup {Unnamed}

Row(kind, n, suggestion, final, elements) ==
  [kind |-> kind, existing |-> n, suggestion |-> suggestion, final |-> final,
   apply |-> final \notin {Unnamed, n}, elements |-> elements]

(* build_layer_review                                                       *)
Extract ==
  /\ \E s \in [Extracted(model) -> allowed \cup {Unnamed}] : \E sure \in SUBSET DOMAIN s :
       /\ \A x \in DOMAIN s : s[x] \in Suggestions(x[2]) /\ (x[2] \in allowed => x \in sure)
       /\ review' = {Row(x[1], x[2], s[x], IF x \in sure THEN s[x] ELSE Unnamed, {}) : x \in DOMAIN s}
             \cup {Row("class", c, Unnamed, Unnamed, {e \in Unassigned(model) : model.class[e] = c}) :
                     c \in {model.class[e] : e \in Unassigned(model)}}
  /\ UNCHANGED <<model, allowed, applied, changes>>

(* A final value typed, set for the selected rows or filled down.           *)
SetFinal(r, n) ==
  /\ changes < MaxChanges /\ changes' = changes + 1
  /\ review' = (review \ {r}) \cup {[r EXCEPT !.final = n, !.apply = n \notin {Unnamed, r.existing}]}
  /\ UNCHANGED <<model, allowed, applied>>

TickApply(r) ==
  /\ changes < MaxChanges /\ changes' = changes + 1
  /\ review' = (review \ {r}) \cup {[r EXCEPT !.apply = ~@]}
  /\ UNCHANGED <<model, allowed, applied>>

AcceptSuggestions ==
  /\ review' = {IF r.suggestion = Unnamed THEN r
              ELSE [r EXCEPT !.final = r.suggestion, !.apply = r.suggestion # r.existing] : r \in review}
  /\ review' # review
  /\ UNCHANGED <<model, allowed, applied, changes>>

(* Another file under the same name, with one layer.                        *)
Upload ==
  /\ changes < MaxChanges /\ changes' = changes + 1
  /\ \E n \in Names, e \in Elements :
       model' = [layers |-> <<[name |-> n, items |-> {e}]>>,
                 text |-> [x \in Elements |-> Unnamed], code |-> [x \in Elements |-> Unnamed],
                 class |-> model.class, shown |-> Elements]
  /\ UNCHANGED <<allowed, review, applied>>

-----------------------------------------------------------------------------
(* What an approved row makes of a name.                                    *)
Target(sent, n) ==
  IF \E r \in sent : r.existing = n /\ r.apply /\ r.final # Unnamed
  THEN (CHOOSE r \in sent : r.existing = n).final ELSE n

(* Rows of unassigned elements that are approved.                           *)
Approved(sent) == {r \in sent : r.kind = "class" /\ r.apply /\ r.final # Unnamed}

(* Variant: elements without a representation are given to the layer too.   *)
Given_All(r, f) == r.elements

(* Only what represents an element can be on a layer.                       *)
Given(r, f) == r.elements \cap f.shown

(* _assign_items_to_layer, for the rows of unassigned elements: the first   *)
(* layer of the name, or a new one.                                         *)
AssignedLayers(f) ==
  LET approved == {r \in Approved(review) : Given(r, f) # {}}
      given(n) == UNION {Given(r, f) : r \in {r \in approved : r.final = n}}
      named(n) == {l \in DOMAIN f.layers : f.layers[l].name = n}
      new == {r.final : r \in approved} \ {f.layers[l].name : l \in DOMAIN f.layers}
      order == CHOOSE o \in [1..Cardinality(new) -> new] : {o[i] : i \in DOMAIN o} = new
      count == Cardinality(DOMAIN f.layers)
  IN  [l \in 1..(count + Cardinality(new)) |->
         IF l > count THEN [name |-> order[l - count], items |-> given(order[l - count])]
         ELSE [f.layers[l] EXCEPT !.items = IF l = Min(named(f.layers[l].name))
                                            THEN @ \cup given(f.layers[l].name) ELSE @]]

(* Variant: a layer is renamed again when its new name has a row too.       *)
Renamed_Again(layers) == [l \in DOMAIN layers |-> [layers[l] EXCEPT !.name = Target(review, Target(review, @))]]

Renamed(layers) == [l \in DOMAIN layers |-> [layers[l] EXCEPT !.name = Target(review, @)]]

(* remove_orphans, which the page always asks for.                          *)
WithoutOrphans(layers) == [l \in {l \in DOMAIN layers : layers[l].items # {}} |-> layers[l]]

(* apply_layer_changes, with update_both, which the page always asks for.   *)
ApplyReview ==
  /\ review # {}
  /\ applied' = [done |-> TRUE, read |-> model, sent |-> review,
                wrote |-> [model EXCEPT
                  !.layers = WithoutOrphans(Renamed(AssignedLayers(model))),
                  !.text = [e \in Elements |-> Target(review, @[e])]]]
  /\ UNCHANGED <<model, allowed, review, changes>>

LayerNext ==
  \/ Extract \/ AcceptSuggestions \/ Upload \/ ApplyReview
  \/ \E r \in review : TickApply(r) \/ \E n \in Names \cup {Unnamed} : SetFinal(r, n)

LayerSpec == LayerInit /\ [][LayerNext]_layerVars

-----------------------------------------------------------------------------
(* What is written holds every element on the layers that the review made   *)
(* of its own, and those without on the layer settled for their class, on   *)
(* no other one; and no layer that is empty.  Excepted are layers settled   *)
(* for a class that the review renames as well: see the hazards.            *)
ReviewIsCarriedOut ==
  LET f == applied.read
      g == applied.wrote
      approved == Approved(applied.sent)
  IN  applied.done /\ (\A r \in approved : Target(applied.sent, r.final) = r.final) =>
        /\ \A e \in Elements :
             NamesOf(g, e) = {Target(applied.sent, n) : n \in NamesOf(f, e)}
                               \cup {r.final : r \in {r \in approved : e \in Given(r, f)}}
        /\ \A l \in DOMAIN g.layers : g.layers[l].items # {}
===========================================================================
