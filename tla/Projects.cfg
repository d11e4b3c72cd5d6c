SPECIFICATION Spec
CONSTANTS
  Models = {x1, x2}
  NoModel = NoModel
  Handlers = {p1, p2}
  MaxFailures = 1
  Spaces = {x1, x2}
  Editors = {p1, p2}
  MaxEdits = 3
  MaxScans = 2
  MaxRefusals = 1
  Objects = {x1, x2}
  Loads = {p1, p2}
  Uploads = {u1, u2}
  MaxDecisions = 1
  MaxLosses = 1
  Requests = {p1, p2}
  MaxSignIns = 1
  MaxRefreshes = 3
  MaxHiccups = 1
SYMMETRY Symmetry
CHECK_DEADLOCK FALSE
INVARIANTS TypeOK ModelsAreKept EvidenceIsTraceable SessionsEndAndLast
PROPERTIES ReviewIsKept
