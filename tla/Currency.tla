------------------------------- MODULE Currency -------------------------------
(***************************************************************************)
(* pkg/currency: the registry lookup, the six rounding modes and NewMoney. *)
(*                                                                         *)
(* Registry is the table the package builds at init from                   *)
(* internal/iso4217, reduced to what validation reads: the minor units of  *)
(* a ratable currency, or NotRatable.  A code is malformed unless it is in *)
(* DOMAIN Upper, and Upper[code] is strings.ToUpper of a well-formed one,  *)
(* so "usd" and "USD" are two codes that name one currency.                *)
(***************************************************************************)
EXTENDS Errors

CONSTANTS
  Registry,    \* [canonical code -> minor units, or NotRatable]
  NotRatable,  \* the published "N.A."
  Upper        \* [well-formed code -> its upper-case form]

NoCode == ""  \* the Code nobody set

(* The codes of the table are well formed and in upper case. *)
ASSUME CurrencyAssumption ==
  /\ NoCode \notin DOMAIN Upper
  /\ \A code \in DOMAIN Registry :
       /\ code \in DOMAIN Upper /\ Upper[code] = code
       /\ Registry[code] \in Nat \/ Registry[code] = NotRatable
  /\ \A code \in DOMAIN Upper :
       Upper[code] \in DOMAIN Upper /\ Upper[Upper[code]] = Upper[code]

Decimal == INSTANCE Decimals

(***************************************************************************)
(* Lookup.  The sentinel of a failed lookup, or "nil"; the canonical code  *)
(* of a successful one; and whether the currency can carry amounts.        *)
(***************************************************************************)
validCode(code) == code \in DOMAIN Upper

(* Mutant: the registry is asked for the code as it was written. *)
lookupAsWritten(code) ==
  IF ~validCode(code) THEN "ErrInvalidCurrencyCode"
  ELSE IF code \notin DOMAIN Registry THEN "ErrUnknownCurrency"
  ELSE "nil"

lookup(code) ==
  IF ~validCode(code) THEN "ErrInvalidCurrencyCode"
  ELSE IF Upper[code] \notin DOMAIN Registry THEN "ErrUnknownCurrency"
  ELSE "nil"

Code(code)    == Upper[code]
Ratable(code) == Registry[Code(code)] # NotRatable
MinorUnits(code) == Registry[Code(code)]

(* The sentinel that keeps a code from carrying amounts, or "nil". *)
ratableCurrency(code) ==
  IF lookup(code) # "nil" THEN lookup(code)
  ELSE IF ~Ratable(code) THEN "ErrCurrencyNotRatable"
  ELSE "nil"

(***************************************************************************)
(* Round: a result is an amount with the error that came with it.          *)
(***************************************************************************)
RoundingModes ==
  {"RoundHalfEven", "RoundHalfUp", "RoundHalfDown", "RoundFloor",
   "RoundCeiling", "RoundUnnecessary"}

HalfUnit == Decimal!Dec(5, -1)

(* Mutant: the distance to the truncated value keeps its sign. *)
roundHalfDownSigned(amount, places) ==
  LET scaled    == Decimal!Shift(amount, places)
      truncated == Decimal!Truncate(scaled, 0)
  IN  IF Decimal!Equal(Decimal!Sub(scaled, truncated), HalfUnit)
        THEN Decimal!Shift(truncated, -places)
        ELSE Decimal!Round(amount, places)

roundHalfDown(amount, places) ==
  LET scaled    == Decimal!Shift(amount, places)
      truncated == Decimal!Truncate(scaled, 0)
  IN  IF Decimal!Equal(Decimal!Abs(Decimal!Sub(scaled, truncated)), HalfUnit)
        THEN Decimal!Shift(truncated, -places)
        ELSE Decimal!Round(amount, places)

roundedTo(amount, places, mode) ==
  CASE mode = "RoundHalfEven"    -> Decimal!RoundBank(amount, places)
    [] mode = "RoundHalfUp"      -> Decimal!Round(amount, places)
    [] mode = "RoundHalfDown"    -> roundHalfDown(amount, places)
    [] mode = "RoundFloor"       -> Decimal!RoundFloor(amount, places)
    [] mode = "RoundCeiling"     -> Decimal!RoundCeil(amount, places)
    [] mode = "RoundUnnecessary" -> Decimal!Round(amount, places)

roundError(amount, code, mode) ==
  IF ratableCurrency(code) # "nil"
    THEN NewValidationError(ratableCurrency(code), "code", {})
  ELSE IF mode \notin RoundingModes
    THEN NewValidationError("ErrInvalidRoundingMode", "mode", {})
  ELSE failIf(/\ mode = "RoundUnnecessary"
              /\ ~Decimal!Equal(amount, roundedTo(amount, MinorUnits(code), mode)),
              NewValidationError("ErrInexactRounding", "amount", {}))

(* Mutant: RoundUnnecessary returns the amount as it was given. *)
RoundAsGiven(amount, code, mode) ==
  LET err == roundError(amount, code, mode)
  IN  [err    |-> err,
       amount |-> IF err # NoError THEN Decimal!Zero
                  ELSE IF mode = "RoundUnnecessary" THEN amount
                  ELSE roundedTo(amount, MinorUnits(code), mode)]

Round(amount, code, mode) ==
  LET err == roundError(amount, code, mode)
  IN  [err    |-> err,
       amount |-> IF err = NoError
                    THEN roundedTo(amount, MinorUnits(code), mode)
                    ELSE Decimal!Zero]

RoundToPrecision(amount, code) ==
  LET rounded == Round(amount, code, "RoundHalfEven")
  IN  [rounded EXCEPT !.err = rewrapValidationError(@, @.field)]

(* Mutant: a currency without minor units has none after the point. *)
GetPrecisionUnratable(code) ==
  IF lookup(code) # "nil" THEN [places |-> 0, ok |-> FALSE]
  ELSE [places |-> IF Ratable(code) THEN MinorUnits(code) ELSE 0, ok |-> TRUE]

GetPrecision(code) ==
  IF lookup(code) # "nil" THEN [places |-> 0, ok |-> FALSE]
  ELSE [places |-> IF Ratable(code) THEN MinorUnits(code) ELSE 0, ok |-> Ratable(code)]

(***************************************************************************)
(* Money: an amount with a canonical code; NoMoney is the zero Money.      *)
(***************************************************************************)
NoMoney == [amount |-> Decimal!Zero, code |-> NoCode]

newMoney(amount, code) == [amount |-> amount, code |-> code]

NewMoney(amount, code) ==
  LET err == IF ratableCurrency(code) # "nil"
               THEN NewValidationError(ratableCurrency(code), "code", {})
             ELSE failIf(amount.exp < -MinorUnits(code),
                         NewValidationError("ErrInvalidPrecision", "amount", {}))
  IN  [err   |-> err,
       money |-> IF err = NoError THEN newMoney(amount, Code(code)) ELSE NoMoney]
===============================================================================
