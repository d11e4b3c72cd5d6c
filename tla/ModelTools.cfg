SPECIFICATION Spec
CONSTANTS
  Entities = {"Contact", "Floor"}
  Phases = {"Design", "Construction"}
  MaxRows = 1
  Required = {"sch", "css"}
  Libraries = {"saxon"}
  MaxRuns = 2
  occ1 = occ1
  occ2 = occ2
  Rows <- MCRows
  TheType = TheType
  NoType = NoType
  Values = {"A"}
  MaxEdits = 1
  MaxWrites = 2
  Storeys = {"A", "B"}
  Things = {"e", "s"}
  Spaces = {"s"}
  NewLevels = {"new1", "new2"}
  Pages = {p1, p2}
  MaxHeight = 2
  MaxActions = 2
  SpaceNumbers = {2, 3}
  Relations = {r1}
  MaxVersion = 1
  MaxReplaced = 1
  Elements = {e1, e2}
  Names = {"a", "b"}
  UniclassCodes = {"Ss"}
  ElementClasses = {"IfcWall"}
  MaxLayers = 2
  MaxChanges = 1
  Objects = {e1, e2}
  TypeObjects = {t1}
  Classes = {"Wall"}
  Words = {"SHEAR", "PARTITION"}
SYMMETRY Symmetry
CHECK_DEADLOCK FALSE
INVARIANTS TypeOK ReportShowsFailures JobsFindTheirResources OutputIsFaithful ElementsKeepTheirLevel
           PurgeIsExact ReviewIsCarriedOut ThingsFitTheirTypes
