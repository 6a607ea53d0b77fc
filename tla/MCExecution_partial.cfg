SPECIFICATION Spec
CONSTANTS
  Key = {k1, k2}
  NoKey = NoKey
  Qty = {1, 2}
  MaxSubmits = 3
  Allocations = {2}
  MaxVersion = 1
  Expirable = {}
  MaxRestarts = 1
  MaxControls = 0
  ChangeKinds = {"Amend", "Cancel"}
  Rules = {}
  MaxTime = 0
  MaxAge = 0
  Worker = {}
  MaxIncidents = 0
SYMMETRY KeySymmetry
INVARIANT TypeOK
INVARIANT ReservationCovers
INVARIANT EvidenceAdmissible
INVARIANT SettledAgreement
PROPERTY RequestsImplemented
