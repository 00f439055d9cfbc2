\* An effective date before Go's zero time.
CONSTANTS
  NotRatable = NotRatable
  Registry   <- MCRegistry
  Upper      <- MCUpper
  Goroutines = {g1}
  Configs    <- TwoConfigs
  Providers  = {"nil", "ecb"}
  Inputs     <- AncientInputs
  Rates      <- AllRates
  Times      <- Clock
  MaxLedgers = 1
  MaxCalls   = 2
SPECIFICATION Spec
\* A caller may stop after its last call.
CHECK_DEADLOCK FALSE
INVARIANT
  ZeroClosedDateDisablesCheck
