--------------------------------- MODULE Entry ---------------------------------
(***************************************************************************)
(* pkg/core/entry.go: the line items of a transaction.  The fields of an   *)
(* Entry are unexported, so the entries a caller can hold are the ones     *)
(* NewEntry returns and the zero value ZeroEntry.                          *)
(*                                                                         *)
(* An identifier is reduced to what the code reads of it: its length in    *)
(* bytes and whether it holds a control character.                         *)
(***************************************************************************)
EXTENDS Currency

Id(len, control) == [len |-> len, control |-> control]

MaxAccountIDBytes == 255

validAccountID(id) == id.len \in 1 .. MaxAccountIDBytes /\ ~id.control

lookupRatableCurrency(code, field) ==
  failIf(ratableCurrency(code) # "nil",
         NewValidationError(ratableCurrency(code), field, {}))

(***************************************************************************)
(* The checks NewEntry and Validate share.  The second table is reached    *)
(* only with two ratable currencies, whose minor units it reads.           *)
(***************************************************************************)
validateEntryFields(accountID, txAmount, txCurrency, exchangeRate, functionalCurrency) ==
  LET unidentified == firstError[<<
        failIf(~validAccountID(accountID),
               NewValidationError("ErrInvalidAccountID", "accountID", {})),
        lookupRatableCurrency(txCurrency, "txCurrency"),
        lookupRatableCurrency(functionalCurrency, "functionalCurrency") >>]
      misvalued == firstError[<<
        failIf(txAmount.exp < -MinorUnits(txCurrency),
               NewValidationError("ErrInvalidPrecision", "txAmount", {})),
        failIf(Decimal!IsZero(txAmount),
               NewValidationError("ErrZeroAmount", "txAmount", {})),
        failIf(~Decimal!Positive(exchangeRate),
               NewValidationError("ErrInvalidExchangeRate", "exchangeRate", {})),
        failIf(/\ Code(txCurrency) = Code(functionalCurrency)
               /\ ~Decimal!Equal(exchangeRate, Decimal!One),
               NewValidationError("ErrInvalidExchangeRate", "exchangeRate", {})) >>]
  IN  IF unidentified # NoError THEN unidentified ELSE misvalued

(* Mutant: ties round away from zero. *)
functionalAmountHalfUp(txAmount, exchangeRate, functionalCurrency) ==
  Round(Decimal!Mul(txAmount, exchangeRate), Code(functionalCurrency), "RoundHalfUp")

(* The amount in the functional currency, and the error of computing it. *)
functionalAmountOf(txAmount, exchangeRate, functionalCurrency) ==
  Round(Decimal!Mul(txAmount, exchangeRate), Code(functionalCurrency), "RoundHalfEven")

(***************************************************************************)
(* NewEntry.  The error, and the entry when there is none.                 *)
(***************************************************************************)
ZeroEntry ==
  [accountID          |-> Id(0, FALSE),
   txAmount           |-> Decimal!Zero,
   txCurrency         |-> NoCode,
   exchangeRate       |-> Decimal!Zero,
   functionalAmount   |-> Decimal!Zero,
   functionalCurrency |-> NoCode,
   txMoney            |-> NoMoney,
   functionalMoney    |-> NoMoney]

(* Mutant: the entry keeps the caller's spelling of its currency. *)
newEntryValueAsSpelled(accountID, txAmount, txCurrency, exchangeRate, functionalCurrency) ==
  LET functional == functionalAmountOf(txAmount, exchangeRate, functionalCurrency).amount
  IN  [accountID          |-> accountID,
       txAmount           |-> txAmount,
       txCurrency         |-> txCurrency,
       exchangeRate       |-> exchangeRate,
       functionalAmount   |-> functional,
       functionalCurrency |-> Code(functionalCurrency),
       txMoney            |-> NewMoney(txAmount, Code(txCurrency)).money,
       functionalMoney    |-> NewMoney(functional, Code(functionalCurrency)).money]

newEntryValue(accountID, txAmount, txCurrency, exchangeRate, functionalCurrency) ==
  LET functional == functionalAmountOf(txAmount, exchangeRate, functionalCurrency).amount
  IN  [accountID          |-> accountID,
       txAmount           |-> txAmount,
       txCurrency         |-> Code(txCurrency),
       exchangeRate       |-> exchangeRate,
       functionalAmount   |-> functional,
       functionalCurrency |-> Code(functionalCurrency),
       txMoney            |-> NewMoney(txAmount, Code(txCurrency)).money,
       functionalMoney    |-> NewMoney(functional, Code(functionalCurrency)).money]

newEntryError(accountID, txAmount, txCurrency, exchangeRate, functionalCurrency) ==
  LET fields == validateEntryFields(accountID, txAmount, txCurrency,
                                    exchangeRate, functionalCurrency)
      functional == functionalAmountOf(txAmount, exchangeRate, functionalCurrency)
      computed == firstError[<<
        rewrapValidationError(functional.err, "functionalCurrency"),
        failIf(~Decimal!IsZero(txAmount) /\ Decimal!IsZero(functional.amount),
               NewValidationError("ErrFunctionalAmountZero", "functionalAmount", {})),
        rewrapValidationError(NewMoney(txAmount, Code(txCurrency)).err, "txAmount"),
        rewrapValidationError(NewMoney(functional.amount, Code(functionalCurrency)).err,
                              "functionalAmount") >>]
  IN  IF fields # NoError THEN fields ELSE computed

NewEntry(accountID, txAmount, txCurrency, exchangeRate, functionalCurrency) ==
  LET err == newEntryError(accountID, txAmount, txCurrency, exchangeRate, functionalCurrency)
  IN  [err   |-> err,
       entry |-> IF err = NoError
                   THEN newEntryValue(accountID, txAmount, txCurrency,
                                      exchangeRate, functionalCurrency)
                   ELSE ZeroEntry]

(***************************************************************************)
(* Validate: the stored fields, the recomputed functional amount and the   *)
(* two Money values must agree.                                            *)
(***************************************************************************)
invalidEntry(condition, field) ==
  failIf(condition, NewValidationError("ErrInvalidEntry", field, {}))

validateStoredValues(e) ==
  firstError[<<
    invalidEntry(\/ e.txCurrency # Code(e.txCurrency)
                 \/ e.functionalCurrency # Code(e.functionalCurrency), "entry"),
    invalidEntry(\/ ~Decimal!Equal(e.txMoney.amount, e.txAmount)
                 \/ e.txMoney.code # Code(e.txCurrency), "entry"),
    invalidEntry(\/ ~Decimal!Equal(e.functionalMoney.amount, e.functionalAmount)
                 \/ e.functionalMoney.code # Code(e.functionalCurrency),
                 "functionalAmount") >>]

Validate(e) ==
  LET fields == validateEntryFields(e.accountID, e.txAmount, e.txCurrency,
                                    e.exchangeRate, e.functionalCurrency)
      expected == functionalAmountOf(e.txAmount, e.exchangeRate, e.functionalCurrency)
      recomputed == firstError[<<
        rewrapValidationError(expected.err, "functionalAmount"),
        invalidEntry(Decimal!IsZero(expected.amount), "functionalAmount"),
        invalidEntry(~Decimal!Equal(e.functionalAmount, expected.amount),
                     "functionalAmount"),
        validateStoredValues(e) >>]
  IN  IF e = ZeroEntry THEN NewValidationError("ErrInvalidEntry", "entry", {})
      ELSE IF fields # NoError THEN fields
      ELSE recomputed

(* The entries there are: NewEntry returns what it would accept again, and *)
(* nothing else yields an Entry but the zero value.                        *)
MadeEntry(e) == e = ZeroEntry \/ Validate(e) = NoError
===============================================================================
