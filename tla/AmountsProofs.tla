------------------------------ MODULE AmountsProofs ------------------------------
(***************************************************************************)
(* The calls of Amounts and the computations of Money, for every table,    *)
(* every amount and every rate.  What a call returned follows from its     *)
(* arguments, which the inductive invariant keeps beside the result; what  *)
(* a variable holds is compared with what went into it at the exponent of  *)
(* a minor unit, where both are whole numbers.                             *)
(***************************************************************************)
EXTENDS Amounts, ValidationProofs

(***************************************************************************)
(* The invariant.                                                          *)
(***************************************************************************)
EntryAnswered ==
  \E id \in AccountIDs, amount \in EntryAmounts, tx \in Codes,
     rate \in EntryRates, functional \in Codes :
    /\ call = [op |-> "NewEntry", id |-> id, amount |-> amount, tx |-> tx,
               rate |-> rate, functional |-> functional]
    /\ out = NewEntry(id, amount, tx, rate, functional)

RoundAnswered ==
  \E amount \in RoundAmounts, code \in Codes, mode \in Modes :
    /\ call = [op |-> "Round", amount |-> amount, code |-> code, mode |-> mode]
    /\ out = Round(amount, code, mode)

PrecisionAnswered ==
  \/ \E amount \in RoundAmounts, code \in Codes :
       /\ call = [op |-> "RoundToPrecision", amount |-> amount, code |-> code]
       /\ out = RoundToPrecision(amount, code)
  \/ \E code \in Codes :
       /\ call = [op |-> "GetPrecision", code |-> code]
       /\ out = GetPrecision(code)

AccountAnswered ==
  \E id \in AccountIDs, type \in AccountTypeArgs, category \in CategoryArgs, code \in Codes :
    /\ call = [op |-> "NewAccount", id |-> id, type |-> type, category |-> category,
               currency |-> code]
    /\ out = NewAccount(id, type, category, code)

Answered ==
  \/ call = [op |-> "none"]
  \/ EntryAnswered \/ RoundAnswered \/ PrecisionAnswered \/ AccountAnswered

(* A Money is the zero one, and worth nothing, or an amount of a ratable   *)
(* currency within its scale, and worth its minor units.                   *)
InUnits(m) ==
  [c \in Currencies |-> IF c = m.code THEN Decimal!At(m.amount, -Registry[m.code]) ELSE 0]

Ratified(m) ==
  /\ m = newMoney(m.amount, m.code)
  /\ m.amount \in Decimal!Decimal /\ m.code \in Currencies
  /\ -Registry[m.code] <= m.amount.exp

Accounted(m, units) ==
  \/ m = NoMoney /\ units = nothing
  \/ Ratified(m) /\ units = InUnits(m)

MoneyInv ==
  /\ DOMAIN held = Slots /\ DOMAIN worth = Slots
  /\ \A slot \in Slots : Accounted(held[slot], worth[slot])

IInv == Answered /\ MoneyInv

LEMMA CurrencyFacts ==
  ASSUME NEW code \in Currencies
  PROVE  /\ code # NoCode /\ Registry[code] \in Nat /\ Code(code) = code
         /\ ratableCurrency(code) = "nil" /\ MinorUnits(code) = Registry[code]
         /\ -Registry[code] \in Int
<1>1. /\ code # NoCode /\ Registry[code] \in Nat /\ Code(code) = code
      /\ ratableCurrency(code) = "nil" /\ MinorUnits(code) = Registry[code]
  BY CurrencyAssumption
  DEF Currencies, Code, ratableCurrency, lookup, validCode, Ratable, MinorUnits
<1>2. \A n \in Nat : -n \in Int
  OBVIOUS
<1>. QED
  BY <1>1, <1>2, Zenon

LEMMA RatableFacts ==
  ASSUME NEW code, ratableCurrency(code) = "nil"
  PROVE  Code(code) \in Currencies /\ MinorUnits(code) = Registry[Code(code)]
BY CanonicalCode DEF Currencies, MinorUnits

LEMMA UnitsType ==
  ASSUME NEW m, NEW units, Accounted(m, units)
  PROVE  /\ units \in [Currencies -> Int]
         /\ m \in [amount : Decimal!Decimal, code : Currencies \cup {NoCode}]
         /\ m.code # NoCode => Ratified(m) /\ units = InUnits(m)
         /\ m.code = NoCode => m = NoMoney /\ units = nothing
<1>1. CASE m = NoMoney /\ units = nothing
  <2>1. NoMoney = [amount |-> [coef |-> 0, exp |-> 0], code |-> NoCode]
    BY DEF NoMoney, Decimal!Zero, Decimal!Dec
  <2>2. [coef |-> 0, exp |-> 0] \in Decimal!Decimal
    BY DEF Decimal!Decimal
  <2>. HIDE DEF NoMoney
  <2>3. units \in [Currencies -> Int]
    BY <1>1 DEF nothing
  <2>. QED
    BY <1>1, <2>1, <2>2, <2>3
<1>2. CASE Ratified(m) /\ units = InUnits(m)
  <2>1. m.code \in Currencies /\ m.code # NoCode /\ Registry[m.code] \in Nat
    BY <1>2, CurrencyFacts DEF Ratified
  <2>2. Decimal!At(m.amount, -Registry[m.code]) \in Int
    <3>1. -Registry[m.code] \in Int
      BY <2>1, CurrencyFacts
    <3>2. m.amount \in Decimal!Decimal /\ -Registry[m.code] <= m.amount.exp
      BY <1>2, Zenon DEF Ratified
    <3>. QED
      BY <3>1, <3>2, AtFiner
  <2>3. units \in [Currencies -> Int]
    BY <1>2, <2>2 DEF InUnits
  <2>. QED
    BY <1>2, <2>1, <2>3 DEF Ratified, newMoney
<1>. QED
  BY <1>1, <1>2 DEF Accounted

(* What a call gives to a slot is accounted for, so that the slot is.      *)
LEMMA Assigned ==
  ASSUME MoneyInv, NEW slot \in Slots, NEW result, NEW units,
         assign(slot, result, units),
         result.err = NoError => Accounted(result.money, units),
         result.err # NoError => result.money = NoMoney
  PROVE  MoneyInv'
<1>1. /\ held' = [held EXCEPT ![slot] = result.money]
      /\ worth' = [worth EXCEPT ![slot] = IF result.err = NoError THEN units ELSE nothing]
  BY DEF assign
<1>2. Accounted(result.money, IF result.err = NoError THEN units ELSE nothing)
  BY DEF Accounted
<1>. QED
  BY <1>1, <1>2 DEF MoneyInv

LEMMA NewMoneyAccounted ==
  ASSUME NEW amount \in Decimal!Decimal, NEW code
  PROVE  /\ NewMoney(amount, code).err = NoError =>
              Accounted(NewMoney(amount, code).money, unitsOf(amount, code))
         /\ NewMoney(amount, code).err # NoError => NewMoney(amount, code).money = NoMoney
<1>1. ASSUME NewMoney(amount, code).err = NoError
      PROVE  /\ ratableCurrency(code) = "nil" /\ ~(amount.exp < -MinorUnits(code))
             /\ NewMoney(amount, code).money = newMoney(amount, Code(code))
  <2>1. ratableCurrency(code) # "nil"
          => NewValidationError(ratableCurrency(code), "code", {}) # NoError
    BY RatableType, NewErrorType DEF Fields
  <2>2. NewValidationError("ErrInvalidPrecision", "amount", {}) # NoError
    BY NewErrorType DEF Sentinels, Fields
  <2>. QED
    BY <1>1, <2>1, <2>2 DEF NewMoney, failIf
<1>2. ASSUME NewMoney(amount, code).err = NoError
      PROVE  Accounted(newMoney(amount, Code(code)), unitsOf(amount, code))
  <2>1. Code(code) \in Currencies /\ MinorUnits(code) = Registry[Code(code)]
    BY <1>1, <1>2, RatableFacts
  <2>2. Registry[Code(code)] \in Nat
    BY <2>1, CurrencyFacts
  <2>3. -Registry[Code(code)] <= amount.exp
    BY <1>1, <1>2, <2>1, <2>2 DEF Decimal!Decimal
  <2>. QED
    BY <2>1, <2>3 DEF Accounted, Ratified, InUnits, unitsOf, newMoney
<1>. QED
  BY <1>1, <1>2 DEF NewMoney

LEMMA SumAccounted ==
  ASSUME NEW a, NEW x, Accounted(a, x), NEW b, NEW y, Accounted(b, y)
  PROVE  /\ Add(a, b).err = NoError =>
              Accounted(Add(a, b).money, [c \in Currencies |-> x[c] + y[c]])
         /\ Add(a, b).err # NoError => Add(a, b).money = NoMoney
         /\ Sub(a, b).err = NoError =>
              Accounted(Sub(a, b).money, [c \in Currencies |-> x[c] - y[c]])
         /\ Sub(a, b).err # NoError => Sub(a, b).money = NoMoney
<1>. DEFINE sum == newMoney(Decimal!Add(a.amount, b.amount), a.code)
            difference == newMoney(Decimal!Sub(a.amount, b.amount), a.code)
            mismatch == NewValidationError("ErrCurrencyMismatch", "currency", {})
<1>1. mismatch # NoError
  BY NewErrorType DEF Sentinels, Fields
<1>2. /\ Add(a, b) = IF a.code # b.code THEN [err |-> mismatch, money |-> NoMoney]
                     ELSE [err |-> NoError, money |-> sum]
      /\ Sub(a, b) = IF a.code # b.code THEN [err |-> mismatch, money |-> NoMoney]
                     ELSE [err |-> NoError, money |-> difference]
  BY DEF Add, Sub
<1>3. ASSUME a.code = b.code
      PROVE  /\ Accounted(sum, [c \in Currencies |-> x[c] + y[c]])
             /\ Accounted(difference, [c \in Currencies |-> x[c] - y[c]])
  <2>1. CASE a.code = NoCode
    <3>1. a = NoMoney /\ b = NoMoney /\ x = nothing /\ y = nothing
      <4>1. a.code = NoCode /\ b.code = NoCode
        BY <1>3, <2>1
      <4>. QED
        BY <4>1, UnitsType, Zenon
    <3>2. sum = NoMoney /\ difference = NoMoney
      <4>1. 0 - 0 = 0 /\ 0 + 0 = 0 /\ 0 * Decimal!Pow10[0] = 0
        BY Powers
      <4>. QED
        BY <3>1, <4>1 DEF NoMoney, newMoney, Decimal!Add, Decimal!Sub, Decimal!At,
                          Decimal!Common, Decimal!Zero, Decimal!Dec
    <3>3. /\ [c \in Currencies |-> x[c] + y[c]] = nothing
          /\ [c \in Currencies |-> x[c] - y[c]] = nothing
      BY <3>1 DEF nothing
    <3>. QED
      BY <3>2, <3>3 DEF Accounted
  <2>2. CASE a.code # NoCode
    <3>1. Ratified(a) /\ Ratified(b) /\ x = InUnits(a) /\ y = InUnits(b)
      BY <1>3, <2>2, UnitsType
    <3>2. /\ a.amount \in Decimal!Decimal /\ b.amount \in Decimal!Decimal
          /\ a.code \in Currencies
          /\ -Registry[a.code] <= a.amount.exp /\ -Registry[a.code] <= b.amount.exp
      BY <1>3, <3>1, Zenon DEF Ratified
    <3>3. -Registry[a.code] \in Int
      BY <3>2, CurrencyFacts, Zenon
    <3>4. PICK e \in Int : e = -Registry[a.code]
      BY <3>3, Zenon
    <3>5. /\ Decimal!Add(a.amount, b.amount) \in Decimal!Decimal
          /\ e <= Decimal!Add(a.amount, b.amount).exp
          /\ Decimal!At(Decimal!Add(a.amount, b.amount), e)
               = Decimal!At(a.amount, e) + Decimal!At(b.amount, e)
          /\ Decimal!Sub(a.amount, b.amount) \in Decimal!Decimal
          /\ e <= Decimal!Sub(a.amount, b.amount).exp
          /\ Decimal!At(Decimal!Sub(a.amount, b.amount), e)
               = Decimal!At(a.amount, e) - Decimal!At(b.amount, e)
      BY <3>2, <3>4, SumAt
    <3>6. Ratified(sum) /\ Ratified(difference)
      BY <3>2, <3>4, <3>5 DEF Ratified, newMoney
    <3>7. /\ [c \in Currencies |-> x[c] + y[c]] = InUnits(sum)
          /\ [c \in Currencies |-> x[c] - y[c]] = InUnits(difference)
      BY <1>3, <3>1, <3>2, <3>4, <3>5 DEF InUnits, newMoney
    <3>. QED
      BY <3>6, <3>7 DEF Accounted
  <2>. QED
    BY <2>1, <2>2
<1>. HIDE DEF sum, difference, mismatch
<1>. QED
  BY <1>1, <1>2, <1>3

LEMMA NegAccounted ==
  ASSUME NEW a, NEW x, Accounted(a, x)
  PROVE  Accounted(Neg(a), [c \in Currencies |-> -x[c]])
<1>1. CASE a.code = NoCode
  <2>1. a = NoMoney /\ x = nothing
    BY <1>1, UnitsType
  <2>2. PICK zero : zero = -0
    OBVIOUS
  <2>3. zero = 0
    <3>1. zero \in Int /\ zero + 0 = 0
      BY <2>2
    <3>. QED
      BY <3>1
  <2>4. Neg(a) = NoMoney
    <3>1. Neg(a) = newMoney(Decimal!Dec(zero, 0), NoCode)
      BY <2>1, <2>2 DEF Neg, NoMoney, Decimal!Zero, Decimal!Dec
    <3>. QED
      BY <2>3, <3>1 DEF newMoney, NoMoney, Decimal!Zero
  <2>5. [c \in Currencies |-> -x[c]] = nothing
    <3>1. [c \in Currencies |-> -x[c]] = [c \in Currencies |-> zero]
      BY <2>1, <2>2 DEF nothing
    <3>. QED
      BY <2>3, <3>1 DEF nothing
  <2>. QED
    BY <2>4, <2>5 DEF Accounted
<1>2. CASE a.code # NoCode
  <2>1. Ratified(a) /\ x = InUnits(a)
    BY <1>2, UnitsType
  <2>2. /\ a.amount \in Decimal!Decimal /\ a.code \in Currencies
        /\ -Registry[a.code] <= a.amount.exp
    BY <2>1, Zenon DEF Ratified
  <2>3. PICK e \in Int : e = -Registry[a.code]
    BY <2>2, CurrencyFacts, Zenon
  <2>4. PICK negated : negated = Decimal!Dec(-a.amount.coef, a.amount.exp)
    OBVIOUS
  <2>5. /\ negated \in Decimal!Decimal /\ negated.exp = a.amount.exp
        /\ Decimal!At(negated, e) = -Decimal!At(a.amount, e)
    <3>1. PICK coef \in Int, exp \in Int : coef = a.amount.coef /\ exp = a.amount.exp
      BY <2>2 DEF Decimal!Decimal
    <3>2. negated = [coef |-> -coef, exp |-> exp]
      BY <2>4, <3>1 DEF Decimal!Dec
    <3>3. PICK p \in Nat : p = Decimal!Pow10[exp - e]
      BY <2>2, <2>3, <3>1, Powers
    <3>4. (-coef) * p = -(coef * p)
      OBVIOUS
    <3>. QED
      BY <3>1, <3>2, <3>3, <3>4 DEF Decimal!At, Decimal!Decimal
  <2>6. Neg(a) = newMoney(negated, a.code)
    BY <2>4 DEF Neg
  <2>7. Ratified(Neg(a))
    BY <2>2, <2>3, <2>5, <2>6 DEF Ratified, newMoney
  <2>8. [c \in Currencies |-> -x[c]] = InUnits(Neg(a))
    <3>1. ASSUME NEW c \in Currencies
          PROVE  -x[c] = InUnits(Neg(a))[c]
      <4>1. CASE c = a.code
        BY <2>1, <2>2, <2>3, <2>5, <2>6, <4>1 DEF InUnits, newMoney
      <4>2. CASE c # a.code
        <5>1. x[c] = 0 /\ InUnits(Neg(a))[c] = 0
          BY <2>1, <2>6, <4>2 DEF InUnits, newMoney
        <5>2. PICK zero : zero = -0
          OBVIOUS
        <5>3. zero \in Int /\ zero + 0 = 0
          BY <5>2
        <5>4. zero = 0
          BY <5>3
        <5>. QED
          BY <5>1, <5>2, <5>4
      <4>. QED
        BY <4>1, <4>2
    <3>2. InUnits(Neg(a)) = [c \in Currencies |-> InUnits(Neg(a))[c]]
      BY DEF InUnits
    <3>. QED
      BY <3>1, <3>2
  <2>. QED
    BY <2>7, <2>8 DEF Accounted
<1>. QED
  BY <1>1, <1>2

LEMMA InitHolds ==
  ASSUME Init
  PROVE  IInv
BY DEF Init, MoneyInit, IInv, Answered, MoneyInv, Accounted

LEMMA MoneyKept ==
  ASSUME MoneyInv, MoneyNext
  PROVE  MoneyInv'
<1>1. CASE CallNewMoney
  <2>1. PICK slot \in Slots, amount \in MoneyAmounts, code \in MoneyCodes :
          assign(slot, NewMoney(amount, code), unitsOf(amount, code))
    BY <1>1 DEF CallNewMoney
  <2>2. amount \in Decimal!Decimal
    BY MoneyAssumption
  <2>. QED
    BY <2>1, <2>2, NewMoneyAccounted, Assigned
<1>2. CASE CallAdd
  <2>1. PICK slot \in Slots, a \in Slots, b \in Slots :
          assign(slot, Add(held[a], held[b]), [c \in Currencies |-> worth[a][c] + worth[b][c]])
    BY <1>2 DEF CallAdd
  <2>2. Accounted(held[a], worth[a]) /\ Accounted(held[b], worth[b])
    BY DEF MoneyInv
  <2>. QED
    BY <2>1, <2>2, SumAccounted, Assigned
<1>3. CASE CallSub
  <2>1. PICK slot \in Slots, a \in Slots, b \in Slots :
          assign(slot, Sub(held[a], held[b]), [c \in Currencies |-> worth[a][c] - worth[b][c]])
    BY <1>3 DEF CallSub
  <2>2. Accounted(held[a], worth[a]) /\ Accounted(held[b], worth[b])
    BY DEF MoneyInv
  <2>. QED
    BY <2>1, <2>2, SumAccounted, Assigned
<1>4. CASE CallNeg
  <2>1. PICK slot \in Slots, a \in Slots :
          assign(slot, [err |-> NoError, money |-> Neg(held[a])],
                 [c \in Currencies |-> -worth[a][c]])
    BY <1>4 DEF CallNeg
  <2>2. Accounted(held[a], worth[a])
    BY DEF MoneyInv
  <2>. QED
    BY <2>1, <2>2, NegAccounted, Assigned
<1>. QED
  BY <1>1, <1>2, <1>3, <1>4 DEF MoneyNext

LEMMA StepKeeps ==
  ASSUME IInv, [Next]_vars
  PROVE  IInv'
<1>1. CASE UNCHANGED vars
  <2>1. UNCHANGED <<call, out, held, worth>>
    BY <1>1 DEF vars, moneyVars
  <2>. QED
    BY <2>1 DEF IInv, Answered, EntryAnswered, RoundAnswered, PrecisionAnswered,
                AccountAnswered, MoneyInv, Accounted
<1>2. CASE PureCall
  <2>1. UNCHANGED <<held, worth>>
    BY <1>2 DEF PureCall, moneyVars
  <2>2. MoneyInv'
    BY <2>1 DEF IInv, MoneyInv
  <2>3. CASE CallNewEntry
    <3>1. EntryAnswered'
      BY <2>3, Zenon DEF CallNewEntry, EntryAnswered
    <3>. QED
      BY <2>2, <3>1 DEF IInv, Answered
  <2>4. CASE CallRound
    <3>1. RoundAnswered'
      BY <2>4, Zenon DEF CallRound, RoundAnswered
    <3>. QED
      BY <2>2, <3>1 DEF IInv, Answered
  <2>5. CASE CallRoundToPrecision \/ CallGetPrecision
    <3>1. PrecisionAnswered'
      BY <2>5, Zenon DEF CallRoundToPrecision, CallGetPrecision, PrecisionAnswered
    <3>. QED
      BY <2>2, <3>1 DEF IInv, Answered
  <2>6. CASE CallNewAccount
    <3>1. AccountAnswered'
      BY <2>6, Zenon DEF CallNewAccount, AccountAnswered
    <3>. QED
      BY <2>2, <3>1 DEF IInv, Answered
  <2>. QED
    BY <1>2, <2>3, <2>4, <2>5, <2>6 DEF PureCall
<1>3. CASE MoneyNext /\ UNCHANGED <<call, out>>
  <2>1. MoneyInv'
    BY <1>3, MoneyKept DEF IInv
  <2>2. Answered'
    BY <1>3 DEF IInv, Answered, EntryAnswered, RoundAnswered, PrecisionAnswered,
                AccountAnswered
  <2>. QED
    BY <2>1, <2>2 DEF IInv
<1>. QED
  BY <1>1, <1>2, <1>3 DEF Next

(* What a call returned is what its arguments make of it, and every Money  *)
(* is accounted for, at any time.                                          *)
THEOREM Inductive == Spec => []IInv
<1>1. Init => IInv
  BY InitHolds
<1>2. IInv /\ [Next]_vars => IInv'
  BY StepKeeps
<1>. QED
  BY <1>1, <1>2, PTL DEF Spec

(***************************************************************************)
(* Money.                                                                  *)
(***************************************************************************)
(* At the exponent of a minor unit, an amount is the units it is worth.    *)
LEMMA AtUnits ==
  ASSUME NEW m, NEW units, Accounted(m, units), m.code # NoCode
  PROVE  LET e == -Registry[m.code]
         IN  /\ Registry[m.code] \in Nat /\ e \in Int
             /\ m.amount \in Decimal!Decimal /\ m.code \in Currencies /\ e <= m.amount.exp
             /\ units[m.code] = Decimal!At(m.amount, e) /\ units[m.code] \in Int
             /\ Decimal!Equal(m.amount, Decimal!Dec(units[m.code], e))
             /\ \A c \in Currencies \ {m.code} : units[c] = 0
<1>1. Ratified(m) /\ units = InUnits(m) /\ units \in [Currencies -> Int]
  BY UnitsType
<1>2. /\ m.amount \in Decimal!Decimal /\ m.code \in Currencies
      /\ -Registry[m.code] <= m.amount.exp
  BY <1>1, Zenon DEF Ratified
<1>3. Registry[m.code] \in Nat /\ -Registry[m.code] \in Int
  BY <1>2, CurrencyFacts
<1>4. PICK e \in Int : e = -Registry[m.code]
  BY <1>3, Zenon
<1>5. PICK q \in Int : q = units[m.code] /\ q = Decimal!At(m.amount, e)
  BY <1>1, <1>2, <1>4 DEF InUnits
<1>6. /\ Decimal!Dec(q, e) \in Decimal!Decimal /\ Decimal!Dec(q, e).exp = e
      /\ Decimal!At(Decimal!Dec(q, e), e) = q
  <2>1. e - e = 0
    OBVIOUS
  <2>2. Decimal!At(Decimal!Dec(q, e), e) = q * 1
    BY <2>1, Powers DEF Decimal!At, Decimal!Dec
  <2>. QED
    BY <2>2 DEF Decimal!Dec, Decimal!Decimal
<1>7. Decimal!Equal(m.amount, Decimal!Dec(q, e))
  BY <1>2, <1>4, <1>5, <1>6, CompareAt
<1>8. \A c \in Currencies \ {m.code} : units[c] = 0
  BY <1>1 DEF InUnits
<1>. QED
  BY <1>2, <1>3, <1>4, <1>5, <1>7, <1>8

LEMMA WorthHolds == IInv => WorthWhatWentIn
<1>. SUFFICES ASSUME IInv, NEW slot \in Slots
              PROVE  /\ \A c \in Currencies \ {held[slot].code} : worth[slot][c] = 0
                     /\ held[slot].code # NoCode =>
                          Decimal!Equal(held[slot].amount,
                            Decimal!Dec(worth[slot][held[slot].code],
                                        -Registry[held[slot].code]))
  BY DEF WorthWhatWentIn
<1>1. Accounted(held[slot], worth[slot])
  BY DEF IInv, MoneyInv
<1>2. CASE held[slot].code = NoCode
  BY <1>1, <1>2, UnitsType DEF nothing
<1>3. CASE held[slot].code # NoCode
  BY <1>1, <1>3, AtUnits
<1>. QED
  BY <1>2, <1>3

(* However it was computed, a Money is worth what went into it, to the     *)
(* minor unit, and in one currency: for every number of variables, every   *)
(* amount and every sequence of computations.                              *)
THEOREM MoneyIsWorthItsInputs == Spec => []WorthWhatWentIn
BY Inductive, WorthHolds, PTL

LEMMA Printed ==
  ASSUME NEW m, NEW units, Accounted(m, units)
  PROVE  /\ m.code = NoCode => String(m) = Text(Decimal!Zero, NoCode) /\ m.amount = Decimal!Zero
         /\ m.code # NoCode =>
              String(m) = Text(Decimal!Dec(units[m.code], -Registry[m.code]), m.code)
<1>1. CASE m.code = NoCode
  <2>1. m.amount = Decimal!Zero /\ String(m) = Text(Decimal!Trimmed(m.amount), NoCode)
    BY <1>1, UnitsType DEF NoMoney, String
  <2>2. Decimal!Trimmed(Decimal!Zero) = Decimal!Zero
    <3>1. 0 >= 0 /\ 0 - 0 = 0 /\ 0 * Decimal!Pow10[0] = 0
      BY Powers
    <3>. QED
      BY <3>1 DEF Decimal!Trimmed, Decimal!Zero, Decimal!Dec, Decimal!At
  <2>. QED
    BY <1>1, <2>1, <2>2
<1>2. CASE m.code # NoCode
  <2>1. /\ m.amount \in Decimal!Decimal /\ m.code \in Currencies
        /\ -Registry[m.code] <= m.amount.exp
        /\ units[m.code] = Decimal!At(m.amount, -Registry[m.code])
    BY <1>2, AtUnits
  <2>2. Registry[m.code] \in Int
    BY <2>1, CurrencyFacts
  <2>3. Decimal!Fixed(m.amount, Registry[m.code])
          = Decimal!Dec(OnGrid(m.amount, Registry[m.code]), -Registry[m.code])
    BY <2>1, <2>2, ExactRescale
  <2>4. OnGrid(m.amount, Registry[m.code]) = units[m.code]
    <3>1. ~(m.amount.exp < -Registry[m.code])
      BY <2>1, <2>2 DEF Decimal!Decimal
    <3>. QED
      BY <2>1, <3>1 DEF OnGrid, Grid
  <2>. QED
    BY <1>2, <2>1, <2>3, <2>4, CurrencyFacts DEF String
<1>. QED
  BY <1>1, <1>2

LEMMA PrintHolds == IInv => PrintsWhatIsHeld
<1>. SUFFICES ASSUME IInv, NEW a \in Slots, NEW b \in Slots
              PROVE  LET text == String(held[a])
                     IN  /\ Decimal!Equal(text.amount, held[a].amount)
                         /\ held[a].code # NoCode => text.amount.exp = -Registry[held[a].code]
                         /\ text = String(held[b]) <=>
                              /\ held[a].code = held[b].code
                              /\ Decimal!Equal(held[a].amount, held[b].amount)
  BY DEF PrintsWhatIsHeld
<1>. PICK m : m = held[a]
  OBVIOUS
<1>. PICK o : o = held[b]
  OBVIOUS
<1>1. Accounted(m, worth[a]) /\ Accounted(o, worth[b])
  BY DEF IInv, MoneyInv
<1>. DEFINE text == String(m)
            other == String(o)
<1>2. CASE m.code = NoCode
  <2>1. text = Text(Decimal!Zero, NoCode) /\ m.amount = Decimal!Zero
    BY <1>1, <1>2, Printed
  <2>2. Decimal!Equal(Decimal!Zero, Decimal!Zero)
    BY DEF Decimal!Equal
  <2>3. text = other <=> o.code = NoCode
    BY <1>1, <2>1, Printed DEF Text
  <2>4. o.code = NoCode => o.amount = Decimal!Zero
    BY <1>1, Printed
  <2>. HIDE DEF text, other
  <2>5. text.amount = Decimal!Zero
    BY <2>1 DEF Text
  <2>. QED
    BY <1>2, <2>1, <2>2, <2>3, <2>4, <2>5 DEF text, other
<1>3. CASE m.code # NoCode
  <2>. PICK e : e = -Registry[m.code]
    OBVIOUS
  <2>. PICK q : q = worth[a][m.code]
    OBVIOUS
  <2>1. /\ e \in Int /\ m.amount \in Decimal!Decimal /\ e <= m.amount.exp
        /\ q = Decimal!At(m.amount, e) /\ q \in Int
        /\ Decimal!Equal(m.amount, Decimal!Dec(q, e))
    BY <1>1, <1>3, AtUnits
  <2>2. text = Text(Decimal!Dec(q, e), m.code)
    BY <1>1, <1>3, Printed
  <2>3. text.amount = Decimal!Dec(q, e) /\ text.amount.exp = e /\ text.code = m.code
    BY <2>2 DEF Text, Decimal!Dec
  <2>4. Decimal!Equal(Decimal!Dec(q, e), m.amount)
    <3>1. Decimal!Dec(q, e) \in Decimal!Decimal
      BY <2>1 DEF Decimal!Dec, Decimal!Decimal
    <3>. QED
      BY <2>1, <3>1, EqualSymmetric
  <2>5. text = other <=> m.code = o.code /\ Decimal!Equal(m.amount, o.amount)
    <3>1. CASE m.code = o.code
      <4>. PICK p : p = worth[b][m.code]
        OBVIOUS
      <4>1. /\ o.amount \in Decimal!Decimal /\ e <= o.amount.exp
            /\ p = Decimal!At(o.amount, e)
        BY <1>1, <1>3, <3>1, AtUnits
      <4>2. other = Text(Decimal!Dec(p, e), m.code)
        BY <1>1, <1>3, <3>1, Printed
      <4>3. text = other <=> q = p
        BY <2>2, <4>2 DEF Text, Decimal!Dec
      <4>4. Decimal!Equal(m.amount, o.amount) <=> q = p
        BY <2>1, <4>1, CompareAt
      <4>. QED
        BY <3>1, <4>3, <4>4
    <3>2. CASE m.code # o.code
      <4>1. other.code = o.code
        BY <1>1, Printed DEF Text
      <4>. QED
        BY <2>3, <3>2, <4>1
    <3>. QED
      BY <3>1, <3>2
  <2>. QED
    BY <2>3, <2>4, <2>5
<1>. QED
  BY <1>2, <1>3

(* What is printed is what is held, to the last minor unit, and two Moneys *)
(* look alike if and only if they are equal.                               *)
THEOREM PrintIsFaithful == Spec => []PrintsWhatIsHeld
BY Inductive, PrintHolds, PTL

(***************************************************************************)
(* Entries.                                                                *)
(***************************************************************************)
LEMMA NewMoneyResult ==
  ASSUME NEW amount, NEW code
  PROVE  /\ NewMoney(amount, code).err \in ValidationError
         /\ NewMoney(amount, code).err = NoError
              <=> ratableCurrency(code) = "nil" /\ ~(amount.exp < -MinorUnits(code))
<1>. DEFINE err1 == NewValidationError(ratableCurrency(code), "code", {})
            err2 == NewValidationError("ErrInvalidPrecision", "amount", {})
            unratable == ratableCurrency(code) # "nil"
            long == amount.exp < -MinorUnits(code)
<1>1. unratable => err1 \in ValidationError /\ err1 # NoError
  BY RatableType, NewErrorType DEF Fields
<1>2. err2 \in ValidationError /\ err2 # NoError
  BY NewErrorType DEF Sentinels, Fields
<1>3. NewMoney(amount, code).err = IF unratable THEN err1 ELSE IF long THEN err2 ELSE NoError
  BY DEF NewMoney, failIf
<1>. HIDE DEF err1, err2, long
<1>4. /\ NewMoney(amount, code).err \in ValidationError
      /\ NewMoney(amount, code).err = NoError <=> ~unratable /\ ~long
  BY <1>1, <1>2, <1>3, NoErrorType
<1>. QED
  BY <1>4 DEF long

(* The value of an item in its functional currency, to the minor unit.     *)
Value(amount, rate, functional) ==
  Decimal!RoundBank(Decimal!Mul(amount, rate), Registry[Code(functional)])

LEMMA ValueType ==
  ASSUME NEW amount \in Decimal!Decimal, NEW rate \in Decimal!Decimal, NEW functional,
         ratableCurrency(functional) = "nil"
  PROVE  /\ Registry[Code(functional)] \in Nat
         /\ Decimal!Mul(amount, rate) \in Decimal!Decimal
         /\ Value(amount, rate, functional) \in Decimal!Decimal
         /\ ~(Value(amount, rate, functional).exp < -Registry[Code(functional)])
<1>1. PICK places \in Nat : places = Registry[Code(functional)]
  BY RatableFacts, CurrencyFacts, Zenon
<1>2. Decimal!Mul(amount, rate) \in Decimal!Decimal
  BY DEF Decimal!Mul, Decimal!Dec, Decimal!Decimal
<1>3. PICK q \in Int : Value(amount, rate, functional) = Decimal!Dec(q, -places)
  <2>1. \E q \in Int : Decimal!RoundBank(Decimal!Mul(amount, rate), places)
                         = Decimal!Dec(q, -places)
    BY <1>2, RoundBankResult
  <2>. QED
    BY <1>1, <2>1, Zenon DEF Value
<1>4. -places \in Int
  OBVIOUS
<1>5. /\ Value(amount, rate, functional) \in Decimal!Decimal
      /\ ~(Value(amount, rate, functional).exp < -places)
  BY <1>3, <1>4 DEF Decimal!Dec, Decimal!Decimal
<1>. QED
  BY <1>1, <1>2, <1>5

LEMMA NewEntryResult ==
  ASSUME NEW id, NEW amount \in Decimal!Decimal, NEW tx, NEW rate \in Decimal!Decimal,
         NEW functional
  PROVE  NewEntry(id, amount, tx, rate, functional).err = NoError
           <=> /\ FieldsHold(id, amount, tx, rate, functional)
               /\ ~Decimal!IsZero(Value(amount, rate, functional))
<1>. DEFINE fields == validateEntryFields(id, amount, tx, rate, functional)
            hold == FieldsHold(id, amount, tx, rate, functional)
            computed == functionalAmountOf(amount, rate, functional)
            zero == ~Decimal!IsZero(amount) /\ Decimal!IsZero(computed.amount)
            err == NewValidationError("ErrFunctionalAmountZero", "functionalAmount", {})
            check1 == rewrapValidationError(computed.err, "functionalCurrency")
            check2 == failIf(zero, err)
            check3 == rewrapValidationError(NewMoney(amount, Code(tx)).err, "txAmount")
            check4 == rewrapValidationError(NewMoney(computed.amount, Code(functional)).err,
                                            "functionalAmount")
            value == Value(amount, rate, functional)
<1>1. newEntryError(id, amount, tx, rate, functional)
        = IF fields # NoError THEN fields ELSE firstError[<<check1, check2, check3, check4>>]
  BY DEF newEntryError
<1>2. fields = NoError <=> hold
  BY EntryFieldsResult
<1>3. ASSUME hold
      PROVE  firstError[<<check1, check2, check3, check4>>] = NoError
               <=> ~Decimal!IsZero(value)
  <2>1. ratableCurrency(tx) = "nil" /\ ratableCurrency(functional) = "nil"
    BY <1>3 DEF FieldsHold
  <2>2. computed = [err |-> NoError, amount |-> value]
    BY <2>1, FunctionalAmount DEF Value
  <2>3. ~(value.exp < -Registry[Code(functional)])
    BY <2>1, ValueType
  <2>4. NewMoney(value, Code(functional)).err = NoError
    <3>1. ratableCurrency(Code(functional)) = "nil"
          /\ MinorUnits(Code(functional)) = Registry[Code(functional)]
      BY <2>1, CanonicalCode DEF MinorUnits
    <3>. QED
      BY <2>3, <3>1, NewMoneyResult
  <2>5. NewMoney(amount, Code(tx)).err = NoError
    <3>1. ratableCurrency(Code(tx)) = "nil" /\ MinorUnits(Code(tx)) = MinorUnits(tx)
      BY <2>1, CanonicalCode DEF MinorUnits
    <3>. QED
      BY <1>3, <3>1, NewMoneyResult DEF FieldsHold
  <2>6. zero <=> Decimal!IsZero(value)
    BY <1>3, <2>2 DEF FieldsHold
  <2>. HIDE DEF computed, zero, value
  <2>7. check1 = NoError /\ check3 = NoError /\ check4 = NoError
    BY <2>2, <2>4, <2>5 DEF rewrapValidationError
  <2>8. check2 \in ValidationError /\ (check2 = NoError <=> ~zero)
    BY NewErrorType, NoErrorType DEF Sentinels, Fields, failIf
  <2>. HIDE DEF check1, check2, check3, check4
  <2>9. firstError[<<check1, check2, check3, check4>>] = NoError <=> check2 = NoError
    BY <2>7, <2>8, NoErrorType, FirstOf4
  <2>. QED
    BY <2>6, <2>8, <2>9
<1>4. NewEntry(id, amount, tx, rate, functional).err
        = newEntryError(id, amount, tx, rate, functional)
  BY DEF NewEntry
<1>. HIDE DEF fields, hold, check1, check2, check3, check4, value
<1>5. newEntryError(id, amount, tx, rate, functional) = NoError
        <=> hold /\ ~Decimal!IsZero(value)
  BY <1>1, <1>2, <1>3
<1>. QED
  BY <1>4, <1>5 DEF hold, value

LEMMA ExactMoney ==
  ASSUME NEW amount, NEW code, NewMoney(amount, code).err = NoError
  PROVE  NewMoney(amount, code).money = newMoney(amount, Code(code))
BY DEF NewMoney

(* What NewEntry keeps passes the checks of Validate.                      *)
LEMMA MadeEntryHolds ==
  ASSUME NEW id, NEW amount \in Decimal!Decimal, NEW tx, NEW rate \in Decimal!Decimal,
         NEW functional, NewEntry(id, amount, tx, rate, functional).err = NoError
  PROVE  EntryHolds(NewEntry(id, amount, tx, rate, functional).entry)
<1>. DEFINE e == newEntryValue(id, amount, tx, rate, functional)
            value == Value(amount, rate, functional)
<1>1. NewEntry(id, amount, tx, rate, functional).entry = e
  BY DEF NewEntry
<1>2. FieldsHold(id, amount, tx, rate, functional) /\ ~Decimal!IsZero(value)
  BY NewEntryResult
<1>3. ratableCurrency(tx) = "nil" /\ ratableCurrency(functional) = "nil"
  BY <1>2 DEF FieldsHold
<1>4. /\ ratableCurrency(Code(tx)) = "nil" /\ Code(Code(tx)) = Code(tx)
      /\ MinorUnits(Code(tx)) = MinorUnits(tx)
      /\ ratableCurrency(Code(functional)) = "nil"
      /\ Code(Code(functional)) = Code(functional)
      /\ MinorUnits(Code(functional)) = Registry[Code(functional)]
  BY <1>3, CanonicalCode DEF MinorUnits
<1>5. functionalAmountOf(amount, rate, functional).amount = value
  BY <1>3, FunctionalAmount DEF Value
<1>6. /\ NewMoney(amount, Code(tx)).err = NoError
      /\ NewMoney(value, Code(functional)).err = NoError
  <2>1. ~(value.exp < -Registry[Code(functional)])
    BY <1>3, ValueType
  <2>2. ~(amount.exp < -MinorUnits(tx))
    BY <1>2 DEF FieldsHold
  <2>. QED
    BY <1>4, <2>1, <2>2, NewMoneyResult
<1>7. /\ NewMoney(amount, Code(tx)).money = newMoney(amount, Code(tx))
      /\ NewMoney(value, Code(functional)).money = newMoney(value, Code(functional))
  BY <1>4, <1>6, ExactMoney
<1>. HIDE DEF value
<1>8. /\ e.accountID = id /\ e.txAmount = amount /\ e.txCurrency = Code(tx)
      /\ e.exchangeRate = rate /\ e.functionalAmount = value
      /\ e.functionalCurrency = Code(functional)
      /\ e.txMoney = newMoney(amount, Code(tx))
      /\ e.functionalMoney = newMoney(value, Code(functional))
  BY <1>5, <1>7 DEF newEntryValue
<1>. HIDE DEF e
<1>9. e # ZeroEntry
  <2>1. ~Decimal!IsZero(e.txAmount)
    BY <1>2, <1>8 DEF FieldsHold
  <2>2. Decimal!IsZero(ZeroEntry.txAmount)
    BY DEF ZeroEntry, Decimal!Zero, Decimal!Dec, Decimal!IsZero
  <2>. QED
    BY <2>1, <2>2
<1>10. FieldsHold(e.accountID, e.txAmount, e.txCurrency, e.exchangeRate, e.functionalCurrency)
  BY <1>2, <1>4, <1>8 DEF FieldsHold
<1>11. \A d : Decimal!Equal(d, d)
  BY DEF Decimal!Equal
<1>12. ValueHolds(e)
  BY <1>2, <1>4, <1>8, <1>11 DEF ValueHolds, Value, value
<1>13. StoredHold(e)
  BY <1>4, <1>8, <1>11 DEF StoredHold, newMoney
<1>. QED
  BY <1>1, <1>9, <1>10, <1>12, <1>13 DEF EntryHolds

(* Which call the arguments are of tells what the result is.               *)
LEMMA AskedEntry ==
  ASSUME IInv, call.op = "NewEntry"
  PROVE  \E id \in AccountIDs, amount \in Decimal!Decimal, tx \in Codes,
            rate \in Decimal!Decimal, functional \in Codes :
           /\ call = [op |-> "NewEntry", id |-> id, amount |-> amount, tx |-> tx,
                      rate |-> rate, functional |-> functional]
           /\ out = NewEntry(id, amount, tx, rate, functional)
<1>1. EntryAnswered
  BY DEF IInv, Answered, RoundAnswered, PrecisionAnswered, AccountAnswered
<1>2. PICK id \in AccountIDs, amount \in EntryAmounts, tx \in Codes,
           rate \in EntryRates, functional \in Codes :
        /\ call = [op |-> "NewEntry", id |-> id, amount |-> amount, tx |-> tx,
                   rate |-> rate, functional |-> functional]
        /\ out = NewEntry(id, amount, tx, rate, functional)
  BY <1>1 DEF EntryAnswered
<1>3. amount \in Decimal!Decimal /\ rate \in Decimal!Decimal
  BY AmountsAssumption
<1>. QED
  BY <1>2, <1>3, Zenon

LEMMA RevalidateHolds == IInv => AcceptedEntriesRevalidate
<1>. SUFFICES ASSUME IInv, call.op = "NewEntry", out.err = NoError
              PROVE  Validate(out.entry) = NoError
  BY DEF AcceptedEntriesRevalidate, Accepted
<1>1. PICK id \in AccountIDs, amount \in Decimal!Decimal, tx \in Codes,
           rate \in Decimal!Decimal, functional \in Codes :
        out = NewEntry(id, amount, tx, rate, functional)
  BY AskedEntry, Zenon
<1>2. EntryHolds(out.entry)
  BY <1>1, MadeEntryHolds
<1>. QED
  BY <1>2, ValidateResult

(* An entry NewEntry returns passes Entry.Validate: the entries a caller   *)
(* can hold are those MadeEntry says, on which the proofs about builders   *)
(* and ledgers rest.                                                       *)
THEOREM EntriesRevalidate == Spec => []AcceptedEntriesRevalidate
BY Inductive, RevalidateHolds, PTL

(* The value of an item is zero up to half a minor unit.                   *)
LEMMA ZeroValue ==
  ASSUME NEW d \in Decimal!Decimal, NEW places \in Int
  PROVE  ~Decimal!IsZero(Decimal!RoundBank(d, places)) <=> MoreThanHalfUnit(d, places)
<1>. PICK n : n = OnGrid(d, places)
  OBVIOUS
<1>. PICK u : u = UnitOnGrid(d, places)
  OBVIOUS
<1>1. n \in Int /\ u \in Nat \ {0}
  BY GridType
<1>2. PICK q \in Int :
        /\ Decimal!RoundBank(d, places) = Decimal!Dec(q, -places)
        /\ 2 * n - u <= 2 * (q * u) /\ 2 * (q * u) <= 2 * n + u
        /\ 2 * (q * u) \in {2 * n - u, 2 * n + u} => q % 2 = 0
  BY RoundBankResult
<1>3. Decimal!IsZero(Decimal!RoundBank(d, places)) <=> q = 0
  BY <1>2, Measured
<1>4. MoreThanHalfUnit(d, places) <=> 2 * abs(n) > u
  BY Measured DEF MoreThanHalfUnit, Unit
<1>5. q = 0 => ~(2 * abs(n) > u)
  <2>1. q = 0 => q * u = 0
    BY <1>1
  <2>. QED
    BY <1>1, <1>2, <2>1 DEF abs
<1>6. ASSUME ~(2 * abs(n) > u)
      PROVE  q = 0
  <2>1. 2 * n <= u /\ -u <= 2 * n
    BY <1>1, <1>6 DEF abs
  <2>2. PICK x \in Int : x = q * u
    BY <1>1
  <2>3. -u <= x /\ x <= u
    BY <1>1, <1>2, <2>1, <2>2
  <2>4. /\ q >= 2 => q * u >= 2 * u
        /\ q <= -2 => q * u <= -(2 * u)
        /\ q = 1 => q * u = u
        /\ q = -1 => q * u = -u
    BY <1>1
  <2>5. q \in {-1, 0, 1}
    BY <1>1, <2>2, <2>3, <2>4
  <2>6. q # 1
    <3>1. q = 1 => 2 * (q * u) = 2 * n + u
      BY <1>1, <1>2, <2>1, <2>4
    <3>. QED
      BY <1>2, <3>1
  <2>7. q # -1
    <3>1. q = -1 => 2 * (q * u) = 2 * n - u
      BY <1>1, <1>2, <2>1, <2>4
    <3>. QED
      BY <1>2, <3>1
  <2>. QED
    BY <2>5, <2>6, <2>7
<1>. QED
  BY <1>3, <1>4, <1>5, <1>6

LEMMA NamesRatable ==
  ASSUME NEW code
  PROVE  names(code) <=> ratableCurrency(code) = "nil"
BY DEF names, ratableCurrency, lookup, validCode, Ratable, Code

LEMMA HoldableHolds == IInv => AcceptsExactlyTheHoldable
<1>. SUFFICES ASSUME IInv, call.op = "NewEntry"
              PROVE  out.err = NoError <=> Holdable(call)
  BY DEF AcceptsExactlyTheHoldable
<1>1. PICK id \in AccountIDs, amount \in Decimal!Decimal, tx \in Codes,
           rate \in Decimal!Decimal, functional \in Codes :
        /\ call = [op |-> "NewEntry", id |-> id, amount |-> amount, tx |-> tx,
                   rate |-> rate, functional |-> functional]
        /\ out = NewEntry(id, amount, tx, rate, functional)
  BY AskedEntry
<1>. DEFINE hold == FieldsHold(id, amount, tx, rate, functional)
<1>2. out.err = NoError <=> hold /\ ~Decimal!IsZero(Value(amount, rate, functional))
  BY <1>1, NewEntryResult
<1>3. ASSUME ratableCurrency(tx) = "nil", ratableCurrency(functional) = "nil"
      PROVE  /\ ~(amount.exp < -MinorUnits(tx)) <=> amount.exp >= -Registry[Upper[tx]]
             /\ ~Decimal!IsZero(Value(amount, rate, functional))
                  <=> MoreThanHalfUnit(Decimal!Mul(amount, rate), Registry[Upper[functional]])
  <2>1. /\ MinorUnits(tx) = Registry[Upper[tx]] /\ Registry[Upper[tx]] \in Nat
        /\ Registry[Upper[functional]] \in Nat
    BY <1>3, RatableFacts, CurrencyFacts DEF Code
  <2>2. Decimal!Mul(amount, rate) \in Decimal!Decimal
    BY <1>3, ValueType
  <2>3. PICK places \in Nat : places = Registry[Upper[functional]]
    BY <2>1, Zenon
  <2>4. ~Decimal!IsZero(Decimal!RoundBank(Decimal!Mul(amount, rate), places))
          <=> MoreThanHalfUnit(Decimal!Mul(amount, rate), places)
    BY <2>2, ZeroValue
  <2>5. amount.exp \in Int
    BY DEF Decimal!Decimal
  <2>. QED
    BY <2>1, <2>3, <2>4, <2>5 DEF Value, Code
<1>4. names(tx) /\ names(functional)
        <=> ratableCurrency(tx) = "nil" /\ ratableCurrency(functional) = "nil"
  BY NamesRatable
<1>5. Holdable(call) <=>
        /\ id.len \in 1 .. 255 /\ ~id.control
        /\ names(tx) /\ names(functional)
        /\ amount.coef # 0 /\ amount.exp >= -Registry[Upper[tx]]
        /\ rate.coef > 0
        /\ Upper[tx] = Upper[functional] => Decimal!Equal(rate, Decimal!One)
        /\ MoreThanHalfUnit(Decimal!Mul(amount, rate), Registry[Upper[functional]])
  BY <1>1 DEF Holdable
<1>6. hold <=>
        /\ id.len \in 1 .. 255 /\ ~id.control
        /\ ratableCurrency(tx) = "nil" /\ ratableCurrency(functional) = "nil"
        /\ ~(amount.exp < -MinorUnits(tx))
        /\ amount.coef # 0 /\ rate.coef > 0
        /\ Upper[tx] = Upper[functional] => Decimal!Equal(rate, Decimal!One)
  BY DEF FieldsHold, validAccountID, MaxAccountIDBytes, Decimal!IsZero, Decimal!Positive, Code
<1>. HIDE DEF hold
<1>. QED
  BY <1>2, <1>3, <1>4, <1>5, <1>6, Zenon

(* NewEntry accepts exactly the items that can be held, a value above half *)
(* a minor unit among the conditions.                                      *)
THEOREM HoldableAccepted == Spec => []AcceptsExactlyTheHoldable
BY Inductive, HoldableHolds, PTL

(***************************************************************************)
(* Rounding.  On the grid of d and its unit, q units are x = q * u.        *)
(***************************************************************************)
NamedSo(mode, n, u, x, q) ==
  /\ mode = "RoundHalfEven" => 2 * abs(x - n) <= u /\ (2 * abs(x - n) = u => q % 2 = 0)
  /\ mode \in {"RoundHalfUp", "RoundUnnecessary"} =>
       2 * abs(x - n) <= u /\ (2 * abs(x - n) = u => abs(x) > abs(n))
  /\ mode = "RoundHalfDown" =>
       2 * abs(x - n) <= u /\ (2 * abs(x - n) = u => ~(abs(x) > abs(n)))
  /\ mode = "RoundFloor" => u > abs(x - n) /\ ~(x > n)
  /\ mode = "RoundCeiling" => u > abs(x - n) /\ ~(x < n)

LEMMA RoundedTo ==
  ASSUME NEW d \in Decimal!Decimal, NEW places \in Int, NEW mode \in RoundingModes
  PROVE  LET n == OnGrid(d, places)
             u == UnitOnGrid(d, places)
         IN  \E q \in Int : /\ roundedTo(d, places, mode) = Decimal!Dec(q, -places)
                            /\ NamedSo(mode, n, u, q * u, q)
<1>. PICK n : n = OnGrid(d, places)
  OBVIOUS
<1>. PICK u : u = UnitOnGrid(d, places)
  OBVIOUS
<1>1. n \in Int /\ u \in Nat \ {0}
  BY GridType
<1>2. CASE mode = "RoundHalfEven"
  <2>1. PICK q \in Int :
          /\ Decimal!RoundBank(d, places) = Decimal!Dec(q, -places)
          /\ 2 * n - u <= 2 * (q * u) /\ 2 * (q * u) <= 2 * n + u
          /\ 2 * (q * u) \in {2 * n - u, 2 * n + u} => q % 2 = 0
    BY RoundBankResult
  <2>2. PICK x \in Int : x = q * u
    BY <1>1
  <2>3. 2 * abs(x - n) <= u /\ (2 * abs(x - n) = u => 2 * x \in {2 * n - u, 2 * n + u})
    BY <1>1, <2>1, <2>2 DEF abs
  <2>4. roundedTo(d, places, mode) = Decimal!Dec(q, -places)
    BY <1>2, <2>1 DEF roundedTo
  <2>. QED
    BY <1>2, <2>1, <2>2, <2>3, <2>4 DEF NamedSo
<1>3. CASE mode \in {"RoundHalfUp", "RoundUnnecessary"}
  <2>1. PICK q \in Int :
          /\ Decimal!Round(d, places) = Decimal!Dec(q, -places)
          /\ n >= 0 => /\ 0 <= q * u
                       /\ 2 * n - u < 2 * (q * u) /\ 2 * (q * u) <= 2 * n + u
          /\ n < 0  => /\ q * u <= 0
                       /\ 2 * n - u <= 2 * (q * u) /\ 2 * (q * u) < 2 * n + u
    BY RoundResult
  <2>2. PICK x \in Int : x = q * u
    BY <1>1
  <2>3. 2 * abs(x - n) <= u /\ (2 * abs(x - n) = u => abs(x) > abs(n))
    BY <1>1, <2>1, <2>2 DEF abs
  <2>4. roundedTo(d, places, mode) = Decimal!Dec(q, -places)
    BY <1>3, <2>1 DEF roundedTo
  <2>. QED
    BY <1>3, <2>1, <2>2, <2>3, <2>4 DEF NamedSo
<1>4. CASE mode = "RoundHalfDown"
  <2>1. PICK q \in Int :
          /\ roundHalfDown(d, places) = Decimal!Dec(q, -places)
          /\ n >= 0 => /\ 0 <= q * u
                       /\ 2 * n - u <= 2 * (q * u) /\ 2 * (q * u) < 2 * n + u
          /\ n < 0  => /\ q * u <= 0
                       /\ 2 * n - u < 2 * (q * u) /\ 2 * (q * u) <= 2 * n + u
    BY HalfDownResult
  <2>2. PICK x \in Int : x = q * u
    BY <1>1
  <2>3. 2 * abs(x - n) <= u /\ (2 * abs(x - n) = u => ~(abs(x) > abs(n)))
    BY <1>1, <2>1, <2>2 DEF abs
  <2>4. roundedTo(d, places, mode) = Decimal!Dec(q, -places)
    BY <1>4, <2>1 DEF roundedTo
  <2>. QED
    BY <1>4, <2>1, <2>2, <2>3, <2>4 DEF NamedSo
<1>5. CASE mode = "RoundFloor"
  <2>1. PICK q \in Int : /\ Decimal!RoundFloor(d, places) = Decimal!Dec(q, -places)
                         /\ q * u <= n /\ n < q * u + u
    BY RoundFloorResult
  <2>2. PICK x \in Int : x = q * u
    BY <1>1
  <2>3. u > abs(x - n) /\ ~(x > n)
    BY <1>1, <2>1, <2>2 DEF abs
  <2>4. roundedTo(d, places, mode) = Decimal!Dec(q, -places)
    BY <1>5, <2>1 DEF roundedTo
  <2>. QED
    BY <1>5, <2>1, <2>2, <2>3, <2>4 DEF NamedSo
<1>6. CASE mode = "RoundCeiling"
  <2>1. PICK q \in Int : /\ Decimal!RoundCeil(d, places) = Decimal!Dec(q, -places)
                         /\ n <= q * u /\ q * u < n + u
    BY RoundCeilResult
  <2>2. PICK x \in Int : x = q * u
    BY <1>1
  <2>3. u > abs(x - n) /\ ~(x < n)
    BY <1>1, <2>1, <2>2 DEF abs
  <2>4. roundedTo(d, places, mode) = Decimal!Dec(q, -places)
    BY <1>6, <2>1 DEF roundedTo
  <2>. QED
    BY <1>6, <2>1, <2>2, <2>3, <2>4 DEF NamedSo
<1>. QED
  BY <1>2, <1>3, <1>4, <1>5, <1>6 DEF RoundingModes

(* Round accepts a known mode in a ratable currency, and with the last of  *)
(* the modes only an amount it need not change.                            *)
LEMMA RoundAccepts ==
  ASSUME NEW amount, NEW code, NEW mode
  PROVE  LET r == roundedTo(amount, Registry[Code(code)], mode)
         IN  /\ Round(amount, code, mode).err \in ValidationError
             /\ Round(amount, code, mode).err = NoError <=>
                  /\ ratableCurrency(code) = "nil" /\ mode \in RoundingModes
                  /\ mode = "RoundUnnecessary" => Decimal!Equal(amount, r)
             /\ Round(amount, code, mode).err = NoError =>
                  Round(amount, code, mode).amount = r
<1>. DEFINE r == roundedTo(amount, MinorUnits(code), mode)
            err1 == NewValidationError(ratableCurrency(code), "code", {})
            err2 == NewValidationError("ErrInvalidRoundingMode", "mode", {})
            err3 == NewValidationError("ErrInexactRounding", "amount", {})
            unratable == ratableCurrency(code) # "nil"
            unknown == mode \notin RoundingModes
            inexact == mode = "RoundUnnecessary" /\ ~Decimal!Equal(amount, r)
<1>1. unratable => err1 \in ValidationError /\ err1 # NoError
  BY RatableType, NewErrorType DEF Fields
<1>2. /\ err2 \in ValidationError /\ err2 # NoError
      /\ err3 \in ValidationError /\ err3 # NoError
  BY NewErrorType DEF Sentinels, Fields
<1>3. /\ Round(amount, code, mode).err
           = IF unratable THEN err1 ELSE IF unknown THEN err2
             ELSE IF inexact THEN err3 ELSE NoError
      /\ Round(amount, code, mode).err = NoError => Round(amount, code, mode).amount = r
  BY DEF Round, roundError, failIf
<1>. HIDE DEF err1, err2, err3, unknown, inexact, r
<1>4. /\ Round(amount, code, mode).err \in ValidationError
      /\ Round(amount, code, mode).err = NoError <=> ~unratable /\ ~unknown /\ ~inexact
  BY <1>1, <1>2, <1>3, NoErrorType
<1>. QED
  BY <1>3, <1>4 DEF r, unknown, inexact, MinorUnits

(* The minor units of a ratable currency are a number of places.           *)
LEMMA PlacesType ==
  ASSUME NEW code, ratableCurrency(code) = "nil"
  PROVE  /\ Registry[Code(code)] \in Nat /\ MinorUnits(code) = Registry[Code(code)]
BY RatableFacts, CurrencyFacts

LEMMA AskedRound ==
  ASSUME IInv, call.op = "Round"
  PROVE  \E amount \in Decimal!Decimal, code \in Codes, mode \in Modes :
           /\ call = [op |-> "Round", amount |-> amount, code |-> code, mode |-> mode]
           /\ out = Round(amount, code, mode)
<1>1. RoundAnswered
  BY DEF IInv, Answered, EntryAnswered, PrecisionAnswered, AccountAnswered
<1>2. PICK amount \in RoundAmounts, code \in Codes, mode \in Modes :
        /\ call = [op |-> "Round", amount |-> amount, code |-> code, mode |-> mode]
        /\ out = Round(amount, code, mode)
  BY <1>1 DEF RoundAnswered
<1>3. amount \in Decimal!Decimal
  BY AmountsAssumption
<1>. QED
  BY <1>2, <1>3, Zenon

LEMMA NamedHolds == IInv => RoundsAsNamed
<1>. SUFFICES ASSUME IInv, call.op = "Round", out.err = NoError
              PROVE  RoundsAsNamed
  BY DEF RoundsAsNamed, Accepted
<1>1. PICK amount \in Decimal!Decimal, code \in Codes, mode \in Modes :
        /\ call = [op |-> "Round", amount |-> amount, code |-> code, mode |-> mode]
        /\ out = Round(amount, code, mode)
  BY AskedRound
<1>2. /\ ratableCurrency(code) = "nil" /\ mode \in RoundingModes
      /\ out.amount = roundedTo(amount, Registry[Code(code)], mode)
      /\ mode = "RoundUnnecessary" => Decimal!Equal(amount, out.amount)
  BY <1>1, RoundAccepts
<1>3. PICK places \in Nat : places = Registry[Code(code)]
  BY <1>2, PlacesType, Zenon
<1>. PICK n : n = OnGrid(amount, places)
  OBVIOUS
<1>. PICK u : u = UnitOnGrid(amount, places)
  OBVIOUS
<1>4. PICK q \in Int : /\ out.amount = Decimal!Dec(q, -places)
                       /\ NamedSo(mode, n, u, q * u, q)
  <2>1. \E q \in Int : /\ roundedTo(amount, places, mode) = Decimal!Dec(q, -places)
                       /\ NamedSo(mode, n, u, q * u, q)
    BY <1>2, RoundedTo
  <2>. QED
    BY <1>2, <1>3, <2>1, Zenon
<1>. DEFINE r      == out.amount
            error  == Decimal!Sub(r, amount)
            double == Decimal!Mul(Decimal!Dec(2, 0), Decimal!Abs(error))
<1>5. /\ Decimal!At(r, -places) = q
      /\ Decimal!Equal(amount, r) <=> n = q * u
      /\ Decimal!IsZero(error) <=> q * u = n
      /\ Decimal!Positive(error) <=> q * u > n
      /\ Decimal!IsNegative(error) <=> q * u < n
      /\ Decimal!GreaterThan(Unit(places), Decimal!Abs(error)) <=> u > abs(q * u - n)
      /\ Decimal!GreaterThan(double, Unit(places)) <=> 2 * abs(q * u - n) > u
      /\ Decimal!Equal(double, Unit(places)) <=> 2 * abs(q * u - n) = u
      /\ Decimal!GreaterThan(Decimal!Abs(r), Decimal!Abs(amount)) <=> abs(q * u) > abs(n)
  BY <1>4, Measured
<1>6. n \in Int /\ u \in Nat \ {0} /\ abs(q * u - n) \in Int
  <2>1. n \in Int /\ u \in Nat \ {0}
    BY GridType
  <2>2. q * u - n \in Int
    BY <2>1
  <2>. QED
    BY <2>1, <2>2 DEF abs
<1>7. /\ Unit(places) = Decimal!Dec(1, -Registry[Upper[code]]) /\ Unit(places).exp = -places
      /\ r.exp = -places /\ r.exp >= Unit(places).exp
  BY <1>3, <1>4 DEF Unit, Code, Decimal!Dec
<1>. PICK unit : unit = Unit(places)
  OBVIOUS
<1>. HIDE DEF r, error, double
<1>8. /\ r.exp >= unit.exp
      /\ mode = "RoundHalfEven" => /\ ~Decimal!GreaterThan(double, unit)
                                   /\ Decimal!Equal(double, unit) => Decimal!At(r, unit.exp) % 2 = 0
      /\ mode = "RoundHalfUp" =>
           /\ ~Decimal!GreaterThan(double, unit)
           /\ Decimal!Equal(double, unit)
                => Decimal!GreaterThan(Decimal!Abs(r), Decimal!Abs(amount))
      /\ mode = "RoundHalfDown" =>
           /\ ~Decimal!GreaterThan(double, unit)
           /\ Decimal!Equal(double, unit)
                => ~Decimal!GreaterThan(Decimal!Abs(r), Decimal!Abs(amount))
      /\ mode = "RoundFloor" =>
           ~Decimal!Positive(error) /\ Decimal!GreaterThan(unit, Decimal!Abs(error))
      /\ mode = "RoundCeiling" =>
           ~Decimal!IsNegative(error) /\ Decimal!GreaterThan(unit, Decimal!Abs(error))
      /\ mode = "RoundUnnecessary" => Decimal!IsZero(error)
  <2>1. mode = "RoundUnnecessary" => Decimal!Equal(amount, r)
    BY <1>2 DEF r
  <2>. QED
    BY <1>4, <1>5, <1>6, <1>7, <2>1 DEF NamedSo
<1>9. unit = Decimal!Dec(1, -Registry[Upper[call.code]])
      /\ call.amount = amount /\ call.mode = mode
  BY <1>1, <1>7
<1>. QED
  BY <1>8, <1>9, Zenon DEF RoundsAsNamed, r, error, double

(* Round does what the name of its mode says, for every amount and every   *)
(* number of places.                                                       *)
THEOREM RoundingIsNamed == Spec => []RoundsAsNamed
BY Inductive, NamedHolds, PTL

LEMMA RoundToPrecisionResult ==
  ASSUME NEW amount, NEW code
  PROVE  LET rounded == Round(amount, code, "RoundHalfEven")
         IN  /\ RoundToPrecision(amount, code).err = NoError <=> rounded.err = NoError
             /\ RoundToPrecision(amount, code).amount = rounded.amount
<1>. DEFINE rounded == Round(amount, code, "RoundHalfEven")
<1>1. /\ RoundToPrecision(amount, code).err
           = rewrapValidationError(rounded.err, rounded.err.field)
      /\ RoundToPrecision(amount, code).amount = rounded.amount
  BY DEF RoundToPrecision, Round
<1>2. rounded.err \in ValidationError
  BY RoundAccepts
<1>. HIDE DEF rounded
<1>3. CASE rounded.err = NoError
  BY <1>1, <1>3 DEF rewrapValidationError, rounded
<1>4. CASE rounded.err # NoError
  <2>1. rounded.err.field \in Fields
    BY <1>2, <1>4 DEF ValidationError
  <2>2. rewrapValidationError(rounded.err, rounded.err.field) # NoError
    BY <1>2, <1>4, <2>1, RewrapType
  <2>. QED
    BY <1>1, <1>4, <2>2 DEF rounded
<1>. QED
  BY <1>3, <1>4

(* A whole number of minor units is what every mode makes of it.           *)
LEMMA RoundedStays ==
  ASSUME NEW q \in Int, NEW places \in Int, NEW mode \in RoundingModes
  PROVE  roundedTo(Decimal!Dec(q, -places), places, mode) = Decimal!Dec(q, -places)
<1>. PICK d : d = Decimal!Dec(q, -places)
  OBVIOUS
<1>1. d \in Decimal!Decimal /\ d.exp = -places /\ d.coef = q
  BY DEF Decimal!Dec, Decimal!Decimal
<1>2. UnitOnGrid(d, places) = 1
  <2>1. -places <= d.exp
    BY <1>1
  <2>. QED
    BY <1>1, <2>1, ExactRescale
<1>3. OnGrid(d, places) = q
  <2>1. Grid(d, places) = -places /\ -places - (-places) = 0
    BY <1>1 DEF Grid
  <2>2. OnGrid(d, places) = q * 1
    BY <1>1, <2>1, Powers DEF OnGrid, Decimal!At
  <2>. QED
    BY <2>2
<1>4. PICK p \in Int : /\ roundedTo(d, places, mode) = Decimal!Dec(p, -places)
                       /\ NamedSo(mode, q, 1, p * 1, p)
  BY <1>1, <1>2, <1>3, RoundedTo
<1>5. \/ 2 * abs(p * 1 - q) <= 1
      \/ 1 > abs(p * 1 - q)
  BY <1>4 DEF NamedSo, RoundingModes
<1>6. p = q
  <2>1. p * 1 = p
    OBVIOUS
  <2>. QED
    BY <1>5, <2>1 DEF abs
<1>. QED
  BY <1>4, <1>6

LEMMA RoundedHeld ==
  ASSUME NEW amount \in Decimal!Decimal, NEW code, NEW mode,
         Round(amount, code, mode).err = NoError
  PROVE  LET r == Round(amount, code, mode).amount
         IN  /\ NewMoney(r, code).err = NoError
             /\ \A m \in RoundingModes :
                  /\ Round(r, code, m).err = NoError
                  /\ Decimal!Equal(Round(r, code, m).amount, r)
<1>1. /\ ratableCurrency(code) = "nil" /\ mode \in RoundingModes
      /\ Round(amount, code, mode).amount = roundedTo(amount, Registry[Code(code)], mode)
  BY RoundAccepts
<1>2. PICK places \in Nat : places = Registry[Code(code)] /\ places = MinorUnits(code)
  BY <1>1, PlacesType
<1>3. PICK q \in Int : Round(amount, code, mode).amount = Decimal!Dec(q, -places)
  <2>1. \E q \in Int : roundedTo(amount, places, mode) = Decimal!Dec(q, -places)
    BY <1>1, RoundedTo
  <2>. QED
    BY <1>1, <1>2, <2>1, Zenon
<1>. PICK r : r = Decimal!Dec(q, -places)
  OBVIOUS
<1>4. \A d : Decimal!Equal(d, d)
  BY DEF Decimal!Equal
<1>5. NewMoney(r, code).err = NoError
  <2>1. ~(r.exp < -places)
    BY DEF Decimal!Dec
  <2>. QED
    BY <1>1, <1>2, <2>1, NewMoneyResult
<1>6. ASSUME NEW m \in RoundingModes
      PROVE  Round(r, code, m).err = NoError /\ Round(r, code, m).amount = r
  <2>1. roundedTo(r, places, m) = r
    BY RoundedStays
  <2>2. roundedTo(r, Registry[Code(code)], m) = r
    BY <1>2, <2>1, Zenon
  <2>3. Round(r, code, m).err = NoError
    BY <1>1, <1>4, <2>2, RoundAccepts
  <2>. QED
    BY <2>2, <2>3, RoundAccepts
<1>. QED
  BY <1>3, <1>4, <1>5, <1>6

LEMMA AskedPrecision ==
  ASSUME IInv, call.op = "RoundToPrecision"
  PROVE  \E amount \in Decimal!Decimal, code \in Codes :
           /\ call = [op |-> "RoundToPrecision", amount |-> amount, code |-> code]
           /\ out = RoundToPrecision(amount, code)
<1>1. PrecisionAnswered
  BY DEF IInv, Answered, EntryAnswered, RoundAnswered, AccountAnswered
<1>2. PICK amount \in RoundAmounts, code \in Codes :
        /\ call = [op |-> "RoundToPrecision", amount |-> amount, code |-> code]
        /\ out = RoundToPrecision(amount, code)
  BY <1>1 DEF PrecisionAnswered
<1>3. amount \in Decimal!Decimal
  BY AmountsAssumption
<1>. QED
  BY <1>2, <1>3, Zenon

LEMMA RoundedHolds == IInv => RoundedAmountsHeld
<1>1. ASSUME NEW amount \in Decimal!Decimal, NEW code, NEW mode,
             call.code = code, out.amount = Round(amount, code, mode).amount,
             Round(amount, code, mode).err = NoError
      PROVE  RoundedAmountsHeld
  <2>1. /\ NewMoney(out.amount, call.code).err = NoError
        /\ \A m \in RoundingModes :
             /\ Round(out.amount, call.code, m).err = NoError
             /\ Decimal!Equal(Round(out.amount, call.code, m).amount, out.amount)
    BY <1>1, RoundedHeld
  <2>. QED
    BY <2>1, Zenon DEF RoundedAmountsHeld
<1>2. ASSUME IInv, call.op = "Round", out.err = NoError
      PROVE  RoundedAmountsHeld
  <2>1. PICK amount \in Decimal!Decimal, code \in Codes, mode \in Modes :
          /\ call = [op |-> "Round", amount |-> amount, code |-> code, mode |-> mode]
          /\ out = Round(amount, code, mode)
    BY <1>2, AskedRound
  <2>2. call.code = code
    BY <2>1
  <2>. QED
    BY <1>1, <1>2, <2>1, <2>2, Zenon
<1>3. ASSUME IInv, call.op = "RoundToPrecision", out.err = NoError
      PROVE  RoundedAmountsHeld
  <2>1. PICK amount \in Decimal!Decimal, code \in Codes :
          /\ call = [op |-> "RoundToPrecision", amount |-> amount, code |-> code]
          /\ out = RoundToPrecision(amount, code)
    BY <1>3, AskedPrecision
  <2>2. /\ Round(amount, code, "RoundHalfEven").err = NoError
        /\ out.amount = Round(amount, code, "RoundHalfEven").amount
    BY <1>3, <2>1, RoundToPrecisionResult, Zenon
  <2>3. call.code = code
    BY <2>1
  <2>. QED
    BY <1>1, <2>2, <2>3, Zenon
<1>. QED
  BY <1>2, <1>3, Zenon DEF RoundedAmountsHeld, Accepted

(* What was rounded can be held, and is not rounded any further.           *)
THEOREM RoundedIsHeld == Spec => []RoundedAmountsHeld
BY Inductive, RoundedHolds, PTL

(* The three tests of PrecisionAsHeld tell whether a currency is ratable,  *)
(* and its places from one more than its places.                           *)
LEMMA PrecisionHolds == IInv => PrecisionAsHeld
<1>. SUFFICES ASSUME IInv, call.op = "GetPrecision"
              PROVE  PrecisionAsHeld
  BY DEF PrecisionAsHeld
<1>1. PrecisionAnswered
  BY DEF IInv, Answered, EntryAnswered, RoundAnswered, AccountAnswered
<1>2. PICK code \in Codes : /\ call = [op |-> "GetPrecision", code |-> code]
                            /\ out = GetPrecision(code)
  BY <1>1 DEF PrecisionAnswered
<1>. DEFINE canHold(places) == NewMoney(Decimal!Dec(1, -places), code).err = NoError
            ratable == ratableCurrency(code) = "nil"
<1>3. RoundToPrecision(Decimal!One, code).err = NoError <=> ratable
  BY RoundToPrecisionResult, RoundAccepts DEF RoundingModes
<1>4. out.ok <=> ratable
  BY <1>2 DEF GetPrecision, ratableCurrency, lookup
<1>5. \A places : canHold(places) <=> ratable /\ ~(-places < -MinorUnits(code))
  <2>. TAKE places
  <2>1. Decimal!Dec(1, -places).exp = -places
    BY DEF Decimal!Dec
  <2>. QED
    BY <2>1, NewMoneyResult
<1>6. ratable => canHold(out.places) /\ ~canHold(out.places + 1)
  <2>. SUFFICES ASSUME ratable
                PROVE  canHold(out.places) /\ ~canHold(out.places + 1)
    OBVIOUS
  <2>1. PICK places \in Nat : places = MinorUnits(code)
    BY PlacesType
  <2>2. out.places = places
    BY <1>2, <2>1 DEF GetPrecision, ratableCurrency, lookup
  <2>3. ~(-places < -places) /\ -(places + 1) < -places
    OBVIOUS
  <2>. HIDE DEF canHold
  <2>. QED
    BY <1>5, <2>1, <2>2, <2>3
<1>7. ~ratable => ~canHold(out.places) /\ ~canHold(out.places + 1)
  BY <1>5
<1>8. call.code = code
  BY <1>2
<1>. HIDE DEF ratable
<1>. QED
  BY <1>3, <1>4, <1>6, <1>7, <1>8, Zenon DEF PrecisionAsHeld

(* The deprecated functions agree with the ones that replace them.         *)
THEOREM PrecisionIsHeld == Spec => []PrecisionAsHeld
BY Inductive, PrecisionHolds, PTL

(***************************************************************************)
(* Accounts.                                                               *)
(***************************************************************************)
IdFault(id) ==
  failIf(~validAccountID(id), NewValidationError("ErrInvalidAccountID", "id", {}))

TypeFault(typ) ==
  failIf(typ \notin AccountTypes, NewValidationError("ErrInvalidAccountType", "type", {}))

CategoryFault(cat) ==
  failIf(cat \notin MeasurementCategories,
         NewValidationError("ErrInvalidMeasurementCategory", "category", {}))

(* The error of a check names its field, and is not that of another one.   *)
LEMMA FaultType ==
  ASSUME NEW id, NEW typ, NEW cat, NEW code
  PROVE  /\ {IdFault(id), TypeFault(typ), CategoryFault(cat), validateAccountCurrency(code)}
              \subseteq ValidationError
         /\ IdFault(id) # NoError => IdFault(id).field = "id"
         /\ TypeFault(typ) # NoError => TypeFault(typ).field = "type"
         /\ CategoryFault(cat) # NoError => CategoryFault(cat).field = "category"
         /\ validateAccountCurrency(code) # NoError =>
              validateAccountCurrency(code).field = "currency"
<1>1. ratableCurrency(code) # "nil"
        => NewValidationError(ratableCurrency(code), "currency", {}) \in ValidationError
  BY RatableType, NewErrorType DEF Fields
<1>2. /\ NewValidationError("ErrInvalidAccountID", "id", {}) \in ValidationError
      /\ NewValidationError("ErrInvalidAccountType", "type", {}) \in ValidationError
      /\ NewValidationError("ErrInvalidMeasurementCategory", "category", {}) \in ValidationError
  BY NewErrorType DEF Sentinels, Fields
<1>3. \A sentinel, field : NewValidationError(sentinel, field, {}).field = field
  BY DEF NewValidationError
<1>. QED
  BY <1>1, <1>2, <1>3, NoErrorType
     DEF IdFault, TypeFault, CategoryFault, validateAccountCurrency, failIf

LEMMA AccountError ==
  ASSUME NEW id, NEW typ, NEW cat, NEW code
  PROVE  NewAccount(id, typ, cat, code).err =
           IF IdFault(id) # NoError THEN IdFault(id)
           ELSE IF TypeFault(typ) # NoError THEN TypeFault(typ)
           ELSE IF CategoryFault(cat) # NoError THEN CategoryFault(cat)
           ELSE validateAccountCurrency(code)
<1>. DEFINE e1 == IdFault(id)
            e2 == TypeFault(typ)
            e3 == CategoryFault(cat)
            e4 == validateAccountCurrency(code)
<1>1. NewAccount(id, typ, cat, code).err = firstError[<<e1, e2, e3, e4>>]
  BY DEF NewAccount, validateAccount, IdFault, TypeFault, CategoryFault
<1>2. /\ e1 \in ValidationError /\ e2 \in ValidationError
      /\ e3 \in ValidationError /\ e4 \in ValidationError
  BY FaultType
<1>. HIDE DEF e1, e2, e3, e4
<1>3. firstError[<<e1, e2, e3, e4>>] = IF e1 # NoError THEN e1
                                       ELSE IF e2 # NoError THEN e2
                                       ELSE IF e3 # NoError THEN e3 ELSE e4
  BY <1>2, FirstFailing4
<1>. QED
  BY <1>1, <1>3 DEF e1, e2, e3, e4

(* A sound argument repairs its field. *)
LEMMA SoundArguments ==
  LET code == CHOOSE c \in DOMAIN Registry : Registry[c] # NotRatable
  IN  /\ IdFault(Id(1, FALSE)) = NoError /\ TypeFault(1) = NoError
      /\ CategoryFault(0) = NoError /\ validateAccountCurrency(code) = NoError
<1>. DEFINE code == CHOOSE c \in DOMAIN Registry : Registry[c] # NotRatable
<1>1. code \in Currencies
  BY AmountsAssumption DEF Currencies
<1>. HIDE DEF code
<1>2. ratableCurrency(code) = "nil"
  BY <1>1, CurrencyFacts
<1>3. validateAccountCurrency(code) = NoError
  BY <1>2 DEF validateAccountCurrency, failIf
<1>4. /\ IdFault(Id(1, FALSE)) = NoError /\ TypeFault(1) = NoError
      /\ CategoryFault(0) = NoError
  BY DEF IdFault, TypeFault, CategoryFault, failIf, validAccountID, Id, MaxAccountIDBytes,
         AccountTypes, MeasurementCategories
<1>. QED
  BY <1>3, <1>4 DEF code

LEMMA RefusalHolds == IInv => AccountRefusalNamesFault
<1>. SUFFICES ASSUME IInv, call.op = "NewAccount", out.err # NoError
              PROVE  AccountRefusalNamesFault
  BY DEF AccountRefusalNamesFault
<1>1. AccountAnswered
  BY DEF IInv, Answered, EntryAnswered, RoundAnswered, PrecisionAnswered
<1>2. PICK id \in AccountIDs, type \in AccountTypeArgs, category \in CategoryArgs,
           code \in Codes :
        /\ call = [op |-> "NewAccount", id |-> id, type |-> type, category |-> category,
                   currency |-> code]
        /\ out = NewAccount(id, type, category, code)
  BY <1>1 DEF AccountAnswered
<1>. DEFINE good == CHOOSE c \in DOMAIN Registry : Registry[c] # NotRatable
            sound == [id |-> Id(1, FALSE), type |-> 1, category |-> 0, currency |-> good]
            repaired(field) ==
              LET c == [call EXCEPT ![field] = sound[field]]
              IN  NewAccount(c.id, c.type, c.category, c.currency).err
            e1 == IdFault(id)
            e2 == TypeFault(type)
            e3 == CategoryFault(category)
            e4 == validateAccountCurrency(code)
<1>3. out.err = IF e1 # NoError THEN e1 ELSE IF e2 # NoError THEN e2
                ELSE IF e3 # NoError THEN e3 ELSE e4
  BY <1>2, AccountError
<1>4. /\ repaired("id") = NewAccount(Id(1, FALSE), type, category, code).err
      /\ repaired("type") = NewAccount(id, 1, category, code).err
      /\ repaired("category") = NewAccount(id, type, 0, code).err
      /\ repaired("currency") = NewAccount(id, type, category, good).err
  <2>. HIDE DEF good
  <2>. QED
    BY <1>2
<1>5. /\ IdFault(Id(1, FALSE)) = NoError /\ TypeFault(1) = NoError
      /\ CategoryFault(0) = NoError /\ validateAccountCurrency(good) = NoError
  BY SoundArguments
<1>6. /\ repaired("id") = IF e2 # NoError THEN e2 ELSE IF e3 # NoError THEN e3 ELSE e4
      /\ repaired("type") = IF e1 # NoError THEN e1 ELSE IF e3 # NoError THEN e3 ELSE e4
      /\ repaired("category") = IF e1 # NoError THEN e1 ELSE IF e2 # NoError THEN e2 ELSE e4
      /\ repaired("currency") = IF e1 # NoError THEN e1 ELSE IF e2 # NoError THEN e2
                                ELSE IF e3 # NoError THEN e3 ELSE NoError
  <2>. HIDE DEF repaired, good, sound
  <2>1. repaired("id") = IF e2 # NoError THEN e2 ELSE IF e3 # NoError THEN e3 ELSE e4
    <3>1. PICK repair : repair = Id(1, FALSE)
      OBVIOUS
    <3>2. repaired("id") = NewAccount(repair, type, category, code).err
      BY <1>4, <3>1, Zenon
    <3>3. IdFault(repair) = NoError
      BY <1>5, <3>1, Zenon
    <3>. QED
      BY <3>2, <3>3, AccountError
  <2>2. repaired("type") = IF e1 # NoError THEN e1 ELSE IF e3 # NoError THEN e3 ELSE e4
    BY <1>4, <1>5, AccountError
  <2>3. repaired("category") = IF e1 # NoError THEN e1 ELSE IF e2 # NoError THEN e2 ELSE e4
    BY <1>4, <1>5, AccountError
  <2>4. repaired("currency") = IF e1 # NoError THEN e1 ELSE IF e2 # NoError THEN e2
                               ELSE IF e3 # NoError THEN e3 ELSE NoError
    BY <1>4, <1>5, AccountError
  <2>. HIDE DEF e1, e2, e3, e4
  <2>. QED
    BY <2>1, <2>2, <2>3, <2>4
<1>7. /\ e1 # NoError => e1.field = "id"
      /\ e2 # NoError => e2.field = "type"
      /\ e3 # NoError => e3.field = "category"
      /\ e4 # NoError => e4.field = "currency"
  BY FaultType
<1>8. /\ NoError.field # "id" /\ NoError.field # "type"
      /\ NoError.field # "category" /\ NoError.field # "currency"
  BY Zenon DEF NoError
<1>9. DOMAIN sound = {"id", "type", "category", "currency"}
  OBVIOUS
<1>. HIDE DEF sound, repaired, e1, e2, e3, e4
<1>10. /\ out.err.field \in {"id", "type", "category", "currency"}
       /\ \A field \in {"id", "type", "category", "currency"} :
            IF field = out.err.field THEN repaired(field).field # field
                                     ELSE repaired(field) = out.err
  <2>1. CASE e1 # NoError
    BY <1>3, <1>6, <1>7, <1>8, <2>1
  <2>2. CASE e1 = NoError /\ e2 # NoError
    BY <1>3, <1>6, <1>7, <1>8, <2>2
  <2>3. CASE e1 = NoError /\ e2 = NoError /\ e3 # NoError
    BY <1>3, <1>6, <1>7, <1>8, <2>3
  <2>4. CASE e1 = NoError /\ e2 = NoError /\ e3 = NoError
    BY <1>3, <1>6, <1>7, <1>8, <2>4
  <2>. QED
    BY <2>1, <2>2, <2>3, <2>4
<1>. QED
  BY <1>9, <1>10, Zenon DEF AccountRefusalNamesFault, sound, repaired

(* A refused account names the one argument to repair.                     *)
THEOREM RefusalNamesFault == Spec => []AccountRefusalNamesFault
BY Inductive, RefusalHolds, PTL
================================================================================
