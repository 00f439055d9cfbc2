\* A builder and its owner; the provider and the clock keep away from it.
CONSTANTS
  NotRatable = NotRatable
  Registry   <- MCRegistry
  Upper      <- MCUpper
  Builders   <- AllBuilders
  Entries    <- AllEntries
  Metadata   <- SomeKeys
  Rates      <- AllRates
  Times      <- Clock
  Reentrant  = FALSE
  MaxEntries = 3
  MaxBuilds  = 3
  MaxDepth   = 1
SPECIFICATION Spec
INVARIANTS
  TypeOK
  BuiltTransactionsSound
  OneTransactionPerBuilder
  WorthyBuildersNotRejected
PROPERTIES
  FailedBuildKeepsBuilder
