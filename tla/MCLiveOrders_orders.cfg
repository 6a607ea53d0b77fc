SPECIFICATION Spec
CONSTANTS
  Symbol = {s1}
  Strategy = {"close_buy"}
  Modes = {"live", "paper"}
  Levels <- MCLevels
  FillLevels <- MCFillLevels
  Lots = {2}
  OrderLimit = 2
  PositionLimit = 1
  LossLimit = 1
  RetryLimit = 1
  ErrorLimit = 1
  DailyLoss <- MCDailyLoss
  MaxOrders = 3
  MaxSent = 3
  MaxBoots = 2
  Overnight = FALSE
  MaxDays = 2
  MaxFaults = 1
INVARIANT OrdersTypeOK
 
 
INVARIANT SellingHasOrder
 
 
INVARIANT StoppedNotRebought
CHECK_DEADLOCK FALSE
