SPECIFICATION Spec
CONSTANTS
  Key = {k1, k2}
  NoKey = NoKey
  Qty = {1}
  MaxSubmits = 3
  Allocations = {1}
  MaxVersion = 2
  Expirable = {}
  MaxRestarts = 0
  MaxControls = 1
  ChangeKinds = {"Cancel"}
  Rules = {}
  MaxTime = 0
  MaxAge = 0
  Worker = {w1, w2}
  MaxIncidents = 0
SYMMETRY KeySymmetry
INVARIANT NeverOversell
PROPERTY CallIsCurrent
