SPECIFICATION FairSpec
CONSTANTS
  Process = {runner, operator}
  Runner = runner
  Reconnects = 1
  MaxAge = 0
  Margin = 1
  MaxTime = 1
  MaxRollbacks = 1
  MaxDays = 2
  MaxKills = 1
  MaxRuns = 1
  MaxBuys = 1
  PageLimit = 3
INVARIANT RunTypeOK
INVARIANT QuoteIsCurrent
 
INVARIANT OrderFromFreshQuote
INVARIANT EvidenceIsWhole
PROPERTY RunEnds
CHECK_DEADLOCK FALSE
