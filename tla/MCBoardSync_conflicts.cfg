SPECIFICATION Spec
CONSTANTS
  Page = {c1, c2}
  MaxEdits = 1
  MaxSaves = 2
  MaxLogins = 2
  MaxLate = 1
  Pins = {TRUE}
  MaxFailures = 2
  MaxSessions = 2
  MaxReceipts = 2
SYMMETRY PageSymmetry
INVARIANT RefusedNeverApplied
INVARIANT OthersKept
