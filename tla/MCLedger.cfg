\* One goroutine, two calls in a row, every input and every kind of answer or
\* none, under the fairness of FairSpec.
CONSTANTS
  NotRatable = NotRatable
  Registry   <- MCRegistry
  Upper      <- MCUpper
  Goroutines = {g1}
  Configs    <- AllConfigs
  Providers  = {"nil", "ecb"}
  Inputs     <- AllInputs
  Rates      <- AllRates
  Times      <- Clock
  MaxLedgers = 1
  MaxCalls   = 2
SPECIFICATION FairSpec
\* A caller may stop after its last call.
CHECK_DEADLOCK FALSE
INVARIANTS
  TypeOK
  SoundTransactions
  RatesAsAnswered
  AskedOnceAndNeeded
  CancellationStopsRequests
  ProviderAskedLast
  RejectionNamesFirstFault
PROPERTIES
  ImplementsAtomicLedger
  CanceledCallsReturn
  DomesticCallsReturn
