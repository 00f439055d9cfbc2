------------------------------ MODULE Validation ------------------------------
(***************************************************************************)
(* The validation pipeline of pkg/core: the configuration, the builder and *)
(* the checks of TxBuilder.build (tx.go, rates.go, period.go).  Ledger.tla *)
(* and TxBuilder.tla turn them into steps; here they are functions of a    *)
(* builder record                                                          *)
(*                                                                         *)
(*   [id, effectiveDate, isAdjustingEvent, entries, metadata, finalized,   *)
(*    rateProvider, config]                                                *)
(*                                                                         *)
(* in which metadata is the set of its keys (values are never read) and    *)
(* rateProvider is "nil" or the name of a provider.  initErr is left out:  *)
(* no option the package exports can fail (clock.go).                      *)
(* Entry indices are the 1-based positions of TLA+ sequences.              *)
(***************************************************************************)
EXTENDS Entry, SequencesExt

MaxMetadataKeyBytes == 64

(***************************************************************************)
(* time.Time: an instant, 0 being Go's zero time (year 1), and a location, *)
(* of which only UTC matters.                                              *)
(***************************************************************************)
Time(at, zone) == [at |-> at, zone |-> zone]
UTC(t)         == [t EXCEPT !.zone = "UTC"]
IsZeroTime(t)  == t.at = 0
After(t, u)    == t.at > u.at

(***************************************************************************)
(* LedgerConfig: [closedDate, functionalCurrency, rateTolerance].          *)
(***************************************************************************)
validateConfig(config) ==
  firstError[<<
    failIf(ratableCurrency(config.functionalCurrency) # "nil",
           NewValidationError("ErrInvalidConfiguration", "functionalCurrency",
                              {ratableCurrency(config.functionalCurrency)})),
    failIf(Decimal!IsNegative(config.rateTolerance),
           NewValidationError("ErrInvalidConfiguration", "rateTolerance", {})) >>]

(* Mutant: the currency keeps the caller's letter case. *)
normalizeConfigCase(config) ==
  [config EXCEPT !.closedDate = IF IsZeroTime(@) THEN @ ELSE UTC(@)]

normalizeConfig(config) ==
  [config EXCEPT
     !.functionalCurrency = IF lookup(@) = "nil" THEN Code(@) ELSE @,
     !.closedDate         = IF IsZeroTime(@) THEN @ ELSE UTC(@)]

NewTxBuilder(id, date, config, rp) ==
  [id               |-> id,
   effectiveDate    |-> date,
   isAdjustingEvent |-> FALSE,
   entries          |-> <<>>,
   metadata         |-> {},
   finalized        |-> FALSE,
   rateProvider     |-> rp,
   config           |-> normalizeConfig(config)]

(* The zero TxBuilder, which a caller may declare without NewTxBuilder. *)
ZeroBuilder ==
  [id |-> Id(0, FALSE), effectiveDate |-> Time(0, "UTC"), isAdjustingEvent |-> FALSE,
   entries |-> <<>>, metadata |-> {}, finalized |-> FALSE, rateProvider |-> "nil",
   config |-> [closedDate |-> Time(0, "UTC"), functionalCurrency |-> NoCode,
               rateTolerance |-> Decimal!Zero]]

(***************************************************************************)
(* The checks build makes before it asks for a rate, in their order.       *)
(***************************************************************************)
validationContext(canceled) ==
  failIf(canceled, NewValidationError("ErrRateProvider", "context", {"context"}))

validMetadataKey(key) == key.len \in 1 .. MaxMetadataKeyBytes /\ ~key.control

validateMetadataKeys(metadata) ==
  failIf(\E key \in metadata : ~validMetadataKey(key),
         NewValidationError("ErrInvalidMetadata", "metadata", {}))

validateTransactionFields(b) ==
  firstError[<<
    failIf(~validAccountID(b.id), NewValidationError("ErrInvalidTransactionID", "id", {})),
    failIf(IsZeroTime(b.effectiveDate),
           NewValidationError("ErrInvalidEffectiveDate", "effectiveDate", {})),
    failIf(b.entries = <<>>, NewValidationError("ErrEmptyTransaction", "entries", {})),
    validateMetadataKeys(b.metadata) >>]

validateEntries(b) ==
  firstError[[i \in DOMAIN b.entries |->
    rewrapEntryValidationError(Validate(b.entries[i]), i)]]

(* Mutant: only the first entry is compared with the ledger. *)
validateCurrencyOfFirst(b) ==
  failIf(/\ b.entries # <<>>
         /\ b.entries[1].functionalCurrency # b.config.functionalCurrency,
         NewEntryValidationError("ErrCurrencyMismatch", 1, "functionalCurrency", {}))

validateCurrencyConsistency(b) ==
  firstError[[i \in DOMAIN b.entries |->
    failIf(b.entries[i].functionalCurrency # b.config.functionalCurrency,
           NewEntryValidationError("ErrCurrencyMismatch", i, "functionalCurrency", {}))]]

functionalSum(entries) ==
  FoldLeft(LAMBDA sum, e : Decimal!Add(sum, e.functionalAmount), Decimal!Zero, entries)

validateZeroSum(b) ==
  failIf(~Decimal!IsZero(functionalSum(b.entries)),
         NewValidationError("ErrZeroSumViolation", "entries", {}))

(* Mutant: the closed date itself counts as open. *)
validatePeriodInclusive(b) ==
  failIf(/\ b.config.closedDate.at > b.effectiveDate.at
         /\ ~b.isAdjustingEvent,
         NewValidationError("ErrPeriodClosed", "effectiveDate", {}))

validatePeriod(b) ==
  failIf(/\ ~After(UTC(b.effectiveDate), b.config.closedDate)
         /\ ~b.isAdjustingEvent,
         NewValidationError("ErrPeriodClosed", "effectiveDate", {}))

(* Mutant: the period is not checked before the rates. *)
staticErrorNoPeriod(b) ==
  firstError[<<
    rewrapValidationError(validateConfig(b.config), "config"),
    validateTransactionFields(b),
    validateEntries(b),
    validateCurrencyConsistency(b),
    validateZeroSum(b) >>]

staticError(b) ==
  firstError[<<
    rewrapValidationError(validateConfig(b.config), "config"),
    validateTransactionFields(b),
    validateEntries(b),
    validateCurrencyConsistency(b),
    validateZeroSum(b),
    validatePeriod(b) >>]

(***************************************************************************)
(* Rate integrity: one turn of the loop of validateRates, for entry i.     *)
(***************************************************************************)
rateError(code, i, field, cause) == NewEntryValidationError(code, i, field, cause)

(* Mutant: same-currency entries are checked too. *)
foreignAlways(entry) == TRUE

foreign(entry) == entry.txCurrency # entry.functionalCurrency

rateRequest(entry, asOf) ==
  [base |-> entry.txCurrency, quote |-> entry.functionalCurrency, asOf |-> UTC(asOf)]

(* Mutant: the context is not read before a request. *)
rateGuardDeaf(entry, i, canceled, provider) ==
  firstError[<<
    failIf(~Decimal!Positive(entry.exchangeRate),
           rateError("ErrInvalidExchangeRate", i, "exchangeRate", {})),
    failIf(provider = "nil", rateError("ErrNilRateProvider", i, "rate", {})) >>]

(* What stops validateEntryRate before it has a provider rate. *)
rateGuard(entry, i, canceled, provider) ==
  firstError[<<
    failIf(~Decimal!Positive(entry.exchangeRate),
           rateError("ErrInvalidExchangeRate", i, "exchangeRate", {})),
    failIf(canceled, rateError("ErrRateProvider", i, "context", {"context"})),
    failIf(provider = "nil", rateError("ErrNilRateProvider", i, "rate", {})) >>]

(* What resolveRate makes of the provider's answer: an error is wrapped,   *)
(* and the context read after the call is joined to it or fails alone.     *)
answerError(failed, i, canceled) ==
  firstError[<<
    failIf(failed /\ canceled,
           rateError("ErrRateProvider", i, "context", {"provider", "context"})),
    failIf(failed, rateError("ErrRateProvider", i, "rate", {"provider"})),
    failIf(canceled, rateError("ErrRateProvider", i, "context", {"context"})) >>]

(* Mutant: a deviation of exactly the tolerance is too much. *)
withinToleranceExclusive(providerRate, exchangeRate, tolerance) ==
  Decimal!GreaterThan(tolerance, Decimal!Abs(Decimal!Sub(providerRate, exchangeRate)))

withinTolerance(providerRate, exchangeRate, tolerance) ==
  ~Decimal!GreaterThan(Decimal!Abs(Decimal!Sub(providerRate, exchangeRate)), tolerance)

(* Mutant: the deviation is not looked at. *)
compareRateSignOnly(entry, i, providerRate, tolerance) ==
  failIf(~Decimal!Positive(providerRate),
         rateError("ErrInvalidExchangeRate", i, "rate", {}))

compareRate(entry, i, providerRate, tolerance) ==
  firstError[<<
    failIf(~Decimal!Positive(providerRate),
           rateError("ErrInvalidExchangeRate", i, "rate", {})),
    failIf(~withinTolerance(providerRate, entry.exchangeRate, tolerance),
           rateError("ErrRateDeviation", i, "rate", {})) >>]

(***************************************************************************)
(* The cache of one validation, a finite map from requests to rates.       *)
(***************************************************************************)
emptyCache == [request \in {} |-> Decimal!Zero]

(* Mutant: the rate is not kept. *)
storeNothing(cache, request, rate) == cache

store(cache, request, rate) ==
  [r \in DOMAIN cache \cup {request} |-> IF r = request THEN rate ELSE cache[r]]

(***************************************************************************)
(* The Transaction a validated builder yields.  postedAt is the clock      *)
(* reading in UTC; NoTransaction is the zero Transaction of an error.      *)
(***************************************************************************)
Transaction(b, entries, postedAt) ==
  [id               |-> b.id,
   effectiveDate    |-> UTC(b.effectiveDate),
   isAdjustingEvent |-> b.isAdjustingEvent,
   postedAt         |-> UTC(postedAt),
   entries          |-> entries,
   metadata         |-> b.metadata]

NoTransaction ==
  [id               |-> Id(0, FALSE),
   effectiveDate    |-> Time(0, "UTC"),
   isAdjustingEvent |-> FALSE,
   postedAt         |-> Time(0, "UTC"),
   entries          |-> <<>>,
   metadata         |-> {}]

(***************************************************************************)
(* The types of these values.                                              *)
(***************************************************************************)
IdSet    == [len : Nat, control : BOOLEAN]
TimeSet  == [at : Int, zone : {"UTC", "local"}]
MoneySet == [amount : Decimal!Decimal, code : STRING]
EntrySet ==
  [accountID : IdSet,
   txAmount : Decimal!Decimal, txCurrency : STRING,
   exchangeRate : Decimal!Decimal,
   functionalAmount : Decimal!Decimal, functionalCurrency : STRING,
   txMoney : MoneySet, functionalMoney : MoneySet]
LedgerConfig ==
  [closedDate : TimeSet, functionalCurrency : STRING, rateTolerance : Decimal!Decimal]
BuilderSet ==
  [id : IdSet, effectiveDate : TimeSet, isAdjustingEvent : BOOLEAN,
   entries : Seq(EntrySet), metadata : SUBSET IdSet, finalized : BOOLEAN,
   rateProvider : STRING, config : LedgerConfig]
TransactionSet ==
  [id : IdSet, effectiveDate : TimeSet, isAdjustingEvent : BOOLEAN,
   postedAt : TimeSet, entries : Seq(EntrySet), metadata : SUBSET IdSet]
RequestSet == [base : STRING, quote : STRING, asOf : TimeSet]
===============================================================================
