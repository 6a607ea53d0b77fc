SPECIFICATION Spec
CONSTANTS
  Key = {k1, k2}
  NoKey = NoKey
  Qty = {1}
  MaxSubmits = 3
  Allocations = {}
  MaxVersion = 2
  Expirable = {}
  MaxRestarts = 0
  MaxControls = 0
  ChangeKinds = {}
  Rules = {"PRICE"}
  MaxTime = 0
  MaxAge = 0
  Worker = {}
  MaxIncidents = 1
SYMMETRY KeySymmetry
PROPERTY FillsProtected
