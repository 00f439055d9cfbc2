\* The provider and the clock call the builder from within Build.
CONSTANTS
  NotRatable = NotRatable
  Registry   <- MCRegistry
  Upper      <- MCUpper
  Builders   <- OneBuilder
  Entries    <- SomeEntries
  Metadata   = {}
  Rates      <- SomeRates
  Times      <- Clock
  Reentrant  = TRUE
  MaxEntries = 3
  MaxBuilds  = 3
  MaxDepth   = 2
SPECIFICATION Spec
INVARIANTS
  FoundEntriesChecked
PROPERTIES
  FinalizedFrozen
