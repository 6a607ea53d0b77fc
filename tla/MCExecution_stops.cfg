SPECIFICATION Spec
CONSTANTS
  Key = {k1, k2, k3}
  NoKey = NoKey
  Qty = {1}
  MaxSubmits = 1
  Allocations = {}
  MaxVersion = 2
  Expirable = {}
  MaxRestarts = 0
  MaxControls = 0
  ChangeKinds = {}
  Rules = {"COST"}
  MaxTime = 2
  MaxAge = 0
  Worker = {w1, w2}
  MaxIncidents = 0
SYMMETRY KeySymmetry
INVARIANT ObligationsMatchLatch
PROPERTY NoStopRetry
 
