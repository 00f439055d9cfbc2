-------------------------------- MODULE Errors --------------------------------
(***************************************************************************)
(* pkg/errors: what a failed operation returns.  A ValidationError is its  *)
(* sentinel Code, the entry index (-1 at transaction level), the Field and *)
(* the Cause; a cause is the set of the errors joined in it.  Operation,   *)
(* which names the public call and feeds only the message, is left out.    *)
(* A nil error is the record NoError, so that every result has one shape.  *)
(***************************************************************************)
EXTENDS Integers, Sequences

(* The sentinels an operation of the model can return. *)
Sentinels ==
  {"ErrZeroSumViolation", "ErrPeriodClosed", "ErrRateDeviation", "ErrRateProvider",
   "ErrInvalidPrecision", "ErrCurrencyMismatch", "ErrEmptyTransaction",
   "ErrZeroAmount", "ErrFunctionalAmountZero", "ErrInvalidEntry",
   "ErrNilRateProvider", "ErrInvalidTransactionID", "ErrInvalidEffectiveDate",
   "ErrInvalidMetadata", "ErrInvalidAccountID", "ErrInvalidAccountType",
   "ErrInvalidMeasurementCategory", "ErrInvalidExchangeRate",
   "ErrInvalidConfiguration", "ErrUnknownCurrency", "ErrInvalidCurrencyCode",
   "ErrCurrencyNotRatable", "ErrInvalidRoundingMode", "ErrInexactRounding",
   "ErrBuilderFinalized"}

Fields ==
  {"", "accountID", "amount", "builder", "category", "code", "config", "context",
   "currency", "effectiveDate", "entries", "entry", "exchangeRate",
   "functionalAmount", "functionalCurrency", "id", "metadata", "mode", "rate",
   "rateTolerance", "txAmount", "txCurrency", "type"}

(* What can be joined in a cause: the error of the context, the error of   *)
(* the provider, and the sentinel of a failed lookup.                      *)
Causes == Sentinels \cup {"context", "provider"}

NoError == [code |-> "nil", entryIndex |-> -1, field |-> "", cause |-> {}]

ValidationError ==
  [code : Sentinels, entryIndex : Int, field : Fields, cause : SUBSET Causes]
    \cup {NoError}

NewValidationError(code, field, cause) ==
  [code |-> code, entryIndex |-> -1, field |-> field, cause |-> cause]

NewEntryValidationError(code, entryIndex, field, cause) ==
  [code |-> code, entryIndex |-> entryIndex, field |-> field, cause |-> cause]

(* Adds the caller's field, or the position of an entry, to an error of a  *)
(* callee: the code and the cause pass through.  A nil error stays nil.    *)
rewrapValidationError(err, field) ==
  IF err = NoError THEN NoError ELSE NewValidationError(err.code, field, err.cause)

rewrapEntryValidationError(err, entryIndex) ==
  IF err = NoError
    THEN NoError
    ELSE NewEntryValidationError(err.code, entryIndex, err.field, err.cause)

(* The checks of a fail-fast function, in the order the code makes them:   *)
(* the result is the first failure, or NoError when every check succeeds.  *)
firstError[checks \in Seq(ValidationError)] ==
  LET failing == {i \in DOMAIN checks : checks[i] # NoError}
  IN  IF failing = {}
        THEN NoError
        ELSE checks[CHOOSE i \in failing : \A j \in failing : i <= j]

failIf(condition, err) == IF condition THEN err ELSE NoError
===============================================================================
