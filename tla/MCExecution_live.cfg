SPECIFICATION FairSpec
CONSTANTS
  Key = {k1, k2}
  NoKey = NoKey
  Qty = {1}
  MaxSubmits = 3
  Allocations = {1}
  MaxVersion = 1
  Expirable = {k1}
  MaxRestarts = 1
  MaxControls = 0
  ChangeKinds = {"Amend", "Cancel"}
  Rules = {}
  MaxTime = 0
  MaxAge = 0
  Worker = {}
  MaxIncidents = 1
PROPERTY SessionReopens
