\* Two calls of a ledger, whose provider is wrong for a moment.
CONSTANTS
  NotRatable = NotRatable
  Registry   <- MCRegistry
  Upper      <- MCUpper
  Goroutines = {g1, g2}
  Configs    <- OneConfig
  Providers  = {"ecb"}
  Inputs     <- LiveInputs
  Rates      <- AllRates
  Times      <- Clock
  MaxLedgers = 1
  MaxCalls   = 1
SPECIFICATION Spec
SYMMETRY Permuted
CHECK_DEADLOCK FALSE
INVARIANT OnlyProviderErrorsRetryable
