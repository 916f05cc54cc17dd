SPECIFICATION FairSpec
CONSTANTS
  d1 = d1
  d2 = d2
  Dispatcher <- TwoDispatchers
  Commands = 2
  MaximumAttempts = 2
  Limit = 2
  MaxRestarts = 1
  MaxErrors = 1
INVARIANTS
  TypeOK
  DeliveredByOne
  OutcomesTrue
PROPERTIES
  CommandsKept
  CommandsSettle
