SPECIFICATION Spec
CONSTANTS
  Models = {x1}
  NoModel = NoModel
  Handlers = {p1}
  MaxFailures = 0
  Spaces = {x1}
  Editors = {p1}
  MaxEdits = 1
  MaxScans = 1
  MaxRefusals = 0
  Objects = {x1, x2}
  Loads = {p1, p2}
  Uploads = {u1}
  MaxDecisions = 1
  MaxLosses = 0
  Requests = {p1}
  MaxSignIns = 1
  MaxRefreshes = 1
  MaxHiccups = 0
CHECK_DEADLOCK FALSE
PROPERTIES DecisionsSurviveLoading
