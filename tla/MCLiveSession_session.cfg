SPECIFICATION FairSpec
CONSTANTS
  Code = {c1}
  Account = {c1}
  Working = {}
  MaxRecoveries = 1
  MaxFaults <- MCFaults
  MaxDepth = 3
INVARIANT SessionTypeOK
INVARIANT WaitsCurrent
 
INVARIANT AnswersWhole
 
PROPERTY SessionRecovers
PROPERTY LifeImplemented
CHECK_DEADLOCK FALSE
