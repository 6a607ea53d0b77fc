SPECIFICATION FairSpec
CONSTANTS
  Thread = {t1, t2}
  MaxCommands = 2
  MaxVersion = 2
  MaxLocal = 1
  MaxStops = 1
INVARIANT ConfigTypeOK
INVARIANT AppliedIsDurable
INVARIANT VersionsAdvance
INVARIANT AuthenticatedOnly
PROPERTY Converges
