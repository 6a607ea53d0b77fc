SPECIFICATION Spec
CONSTANTS
  Page = {c1}
  MaxEdits = 2
  MaxSaves = 3
  MaxLogins = 1
  MaxLate = 1
  Pins = {TRUE}
  MaxFailures = 2
  MaxSessions = 2
  MaxReceipts = 3
INVARIANT NoLostUpdate
