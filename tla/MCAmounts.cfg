\* Every pure call, and any sequence of calls on two variables of type Money.
CONSTANTS
  NotRatable = NotRatable
  Registry     <- MCRegistry
  Upper        <- MCUpper
  AccountIDs   <- MCIDs
  AccountTypeArgs <- MCTypes
  CategoryArgs    <- MCCategories
  Codes        <- MCCodes
  EntryAmounts <- MCEntryAmounts
  EntryRates   <- MCEntryRates
  RoundAmounts <- MCRoundAmounts
  Modes        <- MCModes
  x = x
  y = y
  Slots = {x, y}
  MoneyAmounts <- MCMoneyAmounts
  MoneyCodes   <- MCMoneyCodes
  MaxUnits     <- MCMaxUnits
SYMMETRY MCSymmetry
SPECIFICATION Spec
\* A pure call is over when it returned.
CHECK_DEADLOCK FALSE
INVARIANTS
  AcceptedEntriesRevalidate
  AcceptsExactlyTheHoldable
  RoundsAsNamed
  RoundedAmountsHeld
  PrecisionAsHeld
  AccountRefusalNamesFault
  WorthWhatWentIn
  PrintsWhatIsHeld
