--------------------------------- MODULE Money ---------------------------------
(***************************************************************************)
(* pkg/currency/money.go: a caller computes with Money.  Its variables are *)
(* the slots, which are the zero Money before it assigns to them, and get  *)
(* the zero Money with every error.  `worth` says what the caller put in,  *)
(* counted in minor units and currency by currency, outside of the code.   *)
(***************************************************************************)
EXTENDS Currency

CONSTANTS
  Slots,     \* the variables of the caller
  MoneyAmounts, MoneyCodes,  \* what NewMoney is called with
  MaxUnits   \* [currency -> bound on the worth of a slot]

ASSUME MoneyAssumption == MoneyAmounts \subseteq Decimal!Decimal

VARIABLES held, worth
moneyVars == <<held, worth>>

Add(m, other) ==
  IF m.code # other.code
    THEN [err |-> NewValidationError("ErrCurrencyMismatch", "currency", {}), money |-> NoMoney]
    ELSE [err |-> NoError, money |-> newMoney(Decimal!Add(m.amount, other.amount), m.code)]

(* Mutant: the currencies are not compared. *)
SubAny(m, other) ==
  [err |-> NoError, money |-> newMoney(Decimal!Sub(m.amount, other.amount), m.code)]

Sub(m, other) ==
  IF m.code # other.code
    THEN [err |-> NewValidationError("ErrCurrencyMismatch", "currency", {}), money |-> NoMoney]
    ELSE [err |-> NoError, money |-> newMoney(Decimal!Sub(m.amount, other.amount), m.code)]

Neg(m) == newMoney(Decimal!Dec(-m.amount.coef, m.amount.exp), m.code)

(* A text is the decimal with the digits it shows and the code, if any. *)
Text(amount, code) == [amount |-> amount, code |-> code]

(* Mutant: the amount is printed with the digits it has. *)
StringAsStored(m) == Text(Decimal!Trimmed(m.amount), m.code)

String(m) ==
  IF m.code = NoCode \/ ratableCurrency(m.code) # "nil"
    THEN Text(Decimal!Trimmed(m.amount), m.code)
    ELSE Text(Decimal!Fixed(m.amount, MinorUnits(m.code)), m.code)

-------------------------------------------------------------------------------
Currencies == {code \in DOMAIN Registry : Registry[code] # NotRatable}
nothing    == [code \in Currencies |-> 0]

(* The result of a call and what it is worth go to a slot. *)
assign(slot, result, units) ==
  /\ held' = [held EXCEPT ![slot] = result.money]
  /\ worth' = [worth EXCEPT ![slot] = IF result.err = NoError THEN units ELSE nothing]
  /\ \A code \in Currencies : worth'[slot][code] \in -MaxUnits[code] .. MaxUnits[code]

unitsOf(amount, code) ==
  [c \in Currencies |->
     IF c = Code(code) THEN Decimal!At(amount, -MinorUnits(code)) ELSE 0]

CallNewMoney ==
  \E slot \in Slots, amount \in MoneyAmounts, code \in MoneyCodes :
    assign(slot, NewMoney(amount, code), unitsOf(amount, code))

CallAdd ==
  \E slot, a, b \in Slots :
    assign(slot, Add(held[a], held[b]), [c \in Currencies |-> worth[a][c] + worth[b][c]])

CallSub ==
  \E slot, a, b \in Slots :
    assign(slot, Sub(held[a], held[b]), [c \in Currencies |-> worth[a][c] - worth[b][c]])

CallNeg ==
  \E slot, a \in Slots :
    assign(slot, [err |-> NoError, money |-> Neg(held[a])], [c \in Currencies |-> -worth[a][c]])

MoneyInit ==
  /\ held = [slot \in Slots |-> NoMoney]
  /\ worth = [slot \in Slots |-> nothing]

MoneyNext == CallNewMoney \/ CallAdd \/ CallSub \/ CallNeg

-------------------------------------------------------------------------------
(* However it was computed, a Money is worth what went into it, to the     *)
(* minor unit, and it never mixes currencies: the amount is the worth in   *)
(* its currency, and the worth in all the others is nothing.               *)
WorthWhatWentIn ==
  \A slot \in Slots :
    LET m == held[slot]
    IN  /\ \A c \in Currencies \ {m.code} : worth[slot][c] = 0
        /\ m.code # NoCode =>
             Decimal!Equal(m.amount, Decimal!Dec(worth[slot][m.code], -Registry[m.code]))

(* What is printed is what is held: all its minor units and no rounding,   *)
(* and two Moneys look alike if and only if they are equal, whichever      *)
(* exponents their decimals have.                                          *)
PrintsWhatIsHeld ==
  \A a, b \in Slots :
    LET text == String(held[a])
    IN  /\ Decimal!Equal(text.amount, held[a].amount)
        /\ held[a].code # NoCode => text.amount.exp = -Registry[held[a].code]
        /\ text = String(held[b]) <=>
             held[a].code = held[b].code /\ Decimal!Equal(held[a].amount, held[b].amount)
===============================================================================
