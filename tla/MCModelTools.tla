---------------------------- MODULE MCModelTools ----------------------------
(* The tools that read and write the IFC files and workbooks of a session   *)
(* and share nothing else, checked side by side: a behaviour is a behaviour *)
(* of one of them, and the others rest in one of their initial states.      *)
EXTENDS CobieReport, CobieAssets, WriteBack, LevelEdits, AreaSpaces, LayerEdits, TypeEdits, TLC

CONSTANTS occ1, occ2

VARIABLE tool
vars == <<tool, reportVars, assetVars, writeVars, levelVars, areaVars, layerVars, typeVars>>

(* The rows of the workbook of WriteBack.                                   *)
MCRows == <<occ1, occ2>>

(* What a tool that rests starts from.                                      *)
Some(S) == CHOOSE x \in S : TRUE
RestingReport == Some(Configs)
RestingAssets == Some(Environments)
RestingModel == Models([x \in Things |-> Some(Storeys)], {})
RestingSpaces == Some(Contents({}))
RestingLayers == [layers |-> <<>>, text |-> [e \in Elements |-> Unnamed],
                  code |-> [e \in Elements |-> Unnamed],
                  class |-> [e \in Elements |-> Some(ElementClasses)], shown |-> {}]
RestingFile == Some({f \in IfcFiles : \A x \in DOMAIN f.value : f.value[x] = "unset"})
RestingNames == Some(TypeNames)
RestingLiterals == Some(Literals)
RestingElements == Some(Occurrences)

(* Fewer files, where some say no more than others: a layer file in which   *)
(* two elements have a text or a code, or no representation and a layer; a  *)
(* class with other literals than one word and USERDEFINED, or that has     *)
(* none but no templates, or no occurrences though all literals, and types  *)
(* that cannot be read among things of a class; elements in spaces of large *)
(* files, or relations of some spaces; points shared in files with an empty *)
(* storey, or where attributes cannot be assigned; one of two names for an  *)
(* only allowed layer; a jar that is broken, or refreshed when the          *)
(* resources are not.                                                       *)
FewLayers ==
  /\ Cardinality({e \in Elements : model.text[e] # Unnamed}) +
       Cardinality({e \in Elements : model.code[e] # Unnamed}) <= 1
  /\ model.shown = Elements \/ model.layers = <<>>
  /\ allowed # {} => Some(Names) \in allowed
FewTypes ==
  /\ literals[Proxy] = {UserDefined}
  /\ \A c \in Classes : literals[c] \in {{}, {Some(Words)}, {Some(Words), UserDefined}}
  /\ schema = "IFC2X3" => templates = Classes \X Words
  /\ schema = "IFC4" => \A c \in Classes : literals[c] # {}
  /\ \A c \in Classes : element[c] # c => schema = "IFC2X3" /\ literals[c] = {Some(Words)}
  /\ \A t \in TypeObjects : names[t].class = Unresolved => names[t].word = Some(Words)
  /\ LET f == variants["uploaded"]
     IN  f.legible = TypeObjects \/ \A x \in Objects \cup TypeObjects : f.class[x] = Proxy
FewLevels == (\E x \in Things : twin[x] # x) => settable /\ original.filled = Storeys
FewSpaces ==
  content[0].large # "no" =>
    content[0].within = 0 /\ \A r \in Relations : content[0].related[r] = SpaceNumbers
FewAssets == jar # "broken" /\ env.refresh = env.force /\ env.sources

Init ==
  /\ tool \in {"report", "assets", "write", "levels", "areas", "layers", "types"}
  /\ IF tool = "report" THEN ReportInit ELSE ReportStart(RestingReport, {})
  /\ IF tool = "assets" THEN AssetInit /\ FewAssets
     ELSE AssetStart(RestingAssets, "valid", [l \in Libraries |-> "none"], [d \in Dirs |-> {}])
  /\ WriteInit /\ (tool # "write" => source = Files(Occ, [o \in Occ |-> o], [o \in Occ |-> o], {}))
  /\ IF tool = "levels" THEN LevelInit /\ FewLevels ELSE LevelStart(RestingModel, TRUE, [x \in Things |-> x])
  /\ IF tool = "areas" THEN AreaInit /\ FewSpaces ELSE AreaStart(RestingSpaces, {})
  /\ IF tool = "layers" THEN LayerInit /\ FewLayers ELSE LayerStart(RestingLayers, {})
  /\ IF tool = "types" THEN TypeInit /\ FewTypes ELSE TypeStart(RestingFile, RestingNames, RestingLiterals, RestingElements, "IFC4", {})

Next ==
  \/ tool = "report" /\ ReportNext
     /\ UNCHANGED <<tool, assetVars, writeVars, levelVars, areaVars, layerVars, typeVars>>
  \/ tool = "assets" /\ AssetNext
     /\ UNCHANGED <<tool, reportVars, writeVars, levelVars, areaVars, layerVars, typeVars>>
  \/ tool = "write" /\ WriteNext
     /\ UNCHANGED <<tool, reportVars, assetVars, levelVars, areaVars, layerVars, typeVars>>
  \/ tool = "levels" /\ LevelNext
     /\ UNCHANGED <<tool, reportVars, assetVars, writeVars, areaVars, layerVars, typeVars>>
  \/ tool = "areas" /\ AreaNext
     /\ UNCHANGED <<tool, reportVars, assetVars, writeVars, levelVars, layerVars, typeVars>>
  \/ tool = "layers" /\ LayerNext
     /\ UNCHANGED <<tool, reportVars, assetVars, writeVars, levelVars, areaVars, typeVars>>
  \/ tool = "types" /\ TypeEditsNext
     /\ UNCHANGED <<tool, reportVars, assetVars, writeVars, levelVars, areaVars, layerVars>>

Spec == Init /\ [][Next]_vars

(* Type correctness of every tool.                                          *)
TypeOK ==
  /\ ReportTypeOK /\ AssetTypeOK /\ WriteTypeOK /\ LevelTypeOK /\ AreaTypeOK
  /\ LayerTypeOK /\ TypeEditsOK

(* Elements, pages and objects are interchangeable; two of them share their *)
(* model values where two tools have some.                                  *)
Symmetry == Permutations(Elements) \cup Permutations(Pages)
===========================================================================
