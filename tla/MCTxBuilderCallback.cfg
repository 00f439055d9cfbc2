\* The same, asked for the guarantees doc.go gives of every Transaction.
CONSTANTS
  NotRatable = NotRatable
  Registry   <- MCRegistry
  Upper      <- MCUpper
  Builders   <- OneBuilder
  Entries    <- SomeEntries
  Metadata   = {}
  Rates      <- SomeRates
  Times      <- Clock
  Reentrant  = TRUE
  MaxEntries = 3
  MaxBuilds  = 3
  MaxDepth   = 2
SPECIFICATION Spec
INVARIANT
  BuiltTransactionsSound
