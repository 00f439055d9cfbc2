-------------------------------- MODULE Account --------------------------------
(***************************************************************************)
(* pkg/core/account.go: NewAccount and Account.Validate.  Metadata, which  *)
(* no check reads, is left to Ownership.                                   *)
(***************************************************************************)
EXTENDS Entry

AccountTypes == 1 .. 5           \* Asset .. Expense: int8 values, 0 is none
MeasurementCategories == 0 .. 3  \* NotApplicable .. FVOCI

ZeroAccount == [id |-> Id(0, FALSE), typ |-> 0, cat |-> 0, currencyCode |-> NoCode]

(* Mutant: the error of Lookup is returned as it is. *)
validateAccountCurrencyBare(code) ==
  failIf(ratableCurrency(code) # "nil",
         NewValidationError(ratableCurrency(code), "code", {}))

validateAccountCurrency(code) ==
  failIf(ratableCurrency(code) # "nil",
         NewValidationError(ratableCurrency(code), "currency", {}))

validateAccount(id, typ, cat, currencyCode) ==
  firstError[<<
    failIf(~validAccountID(id), NewValidationError("ErrInvalidAccountID", "id", {})),
    failIf(typ \notin AccountTypes, NewValidationError("ErrInvalidAccountType", "type", {})),
    failIf(cat \notin MeasurementCategories,
           NewValidationError("ErrInvalidMeasurementCategory", "category", {})),
    validateAccountCurrency(currencyCode) >>]

NewAccount(id, typ, cat, currencyCode) ==
  LET err == validateAccount(id, typ, cat, currencyCode)
  IN  [err     |-> err,
       account |-> IF err # NoError THEN ZeroAccount
                   ELSE [id |-> id, typ |-> typ, cat |-> cat,
                         currencyCode |-> Code(currencyCode)]]

ValidateAccount(a) == validateAccount(a.id, a.typ, a.cat, a.currencyCode)
===============================================================================
