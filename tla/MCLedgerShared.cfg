\* Two goroutines validate while the ledger is replaced by UpdateConfig.
CONSTANTS
  NotRatable = NotRatable
  Registry   <- MCRegistry
  Upper      <- MCUpper
  Goroutines = {g1, g2}
  Configs    <- TwoConfigs
  Providers  = {"ecb"}
  Inputs     <- SomeInputs
  Rates      <- SomeRates
  Times      <- Clock
  MaxLedgers = 2
  MaxCalls   = 1
SPECIFICATION Spec
SYMMETRY Permuted
CHECK_DEADLOCK FALSE
INVARIANTS
  Deterministic
  RefusalsStand
PROPERTIES
  ImplementsAtomicLedger
  LedgersImmutable
