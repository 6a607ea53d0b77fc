SPECIFICATION FairSpec
CONSTANTS
  Page = {c1}
  MaxEdits = 1
  MaxSaves = 3
  MaxLogins = 2
  MaxLate = 1
  Pins = {TRUE, FALSE}
  MaxFailures = 2
  MaxSessions = 1
  MaxReceipts = 2
INVARIANT BoardTypeOK
PROPERTY SaveDecided
