-------------------------------- MODULE Amounts --------------------------------
(***************************************************************************)
(* A caller of pkg/currency and of the constructors of pkg/core.  It       *)
(* computes with Money (see there), or makes one of the pure calls: its    *)
(* arguments are beside what it returns then.  The properties compare the  *)
(* results with definitions that say what they mean and not how the code   *)
(* finds them, or with what other calls of the library make of them.       *)
(***************************************************************************)
EXTENDS Account, Money

CONSTANTS
  AccountIDs, AccountTypeArgs, CategoryArgs,
  Codes,         \* the currency codes a caller may write, well formed or not
  EntryAmounts, EntryRates,
  RoundAmounts,
  Modes          \* the modes given to Round, unknown ones among them

ASSUME AmountsAssumption ==
  /\ EntryAmounts \cup EntryRates \cup RoundAmounts \subseteq Decimal!Decimal
  /\ \E code \in DOMAIN Registry : Registry[code] # NotRatable

VARIABLES call, out
vars == <<call, out, moneyVars>>

CallNewEntry ==
  \E id \in AccountIDs, amount \in EntryAmounts, tx \in Codes,
     rate \in EntryRates, functional \in Codes :
    /\ call' = [op |-> "NewEntry", id |-> id, amount |-> amount, tx |-> tx,
                rate |-> rate, functional |-> functional]
    /\ out' = NewEntry(id, amount, tx, rate, functional)

CallRound ==
  \E amount \in RoundAmounts, code \in Codes, mode \in Modes :
    /\ call' = [op |-> "Round", amount |-> amount, code |-> code, mode |-> mode]
    /\ out' = Round(amount, code, mode)

CallRoundToPrecision ==
  \E amount \in RoundAmounts, code \in Codes :
    /\ call' = [op |-> "RoundToPrecision", amount |-> amount, code |-> code]
    /\ out' = RoundToPrecision(amount, code)

CallGetPrecision ==
  \E code \in Codes :
    /\ call' = [op |-> "GetPrecision", code |-> code]
    /\ out' = GetPrecision(code)

CallNewAccount ==
  \E id \in AccountIDs, type \in AccountTypeArgs, category \in CategoryArgs, code \in Codes :
    /\ call' = [op |-> "NewAccount", id |-> id, type |-> type, category |-> category,
                currency |-> code]
    /\ out' = NewAccount(id, type, category, code)

Init == MoneyInit /\ call = [op |-> "none"] /\ out = [err |-> NoError]

(* A pure call knows nothing of the Money, and is made before there is any.*)
PureCall ==
  /\ MoneyInit
  /\ \/ CallNewEntry \/ CallRound \/ CallRoundToPrecision \/ CallGetPrecision
     \/ CallNewAccount
  /\ UNCHANGED moneyVars

Next ==
  /\ call.op = "none"
  /\ PureCall \/ (MoneyNext /\ UNCHANGED <<call, out>>)

Spec == Init /\ [][Next]_vars

-------------------------------------------------------------------------------
names(code) == code \in DOMAIN Upper /\ Upper[code] \in DOMAIN Registry
                 /\ Registry[Upper[code]] # NotRatable

Accepted(op) == call.op = op /\ out.err = NoError

(* An entry NewEntry returns passes Entry.Validate, which recomputes it:   *)
(* entry.go:147-151, "validation is idempotent".                           *)
AcceptedEntriesRevalidate == Accepted("NewEntry") => Validate(out.entry) = NoError

(* NewEntry accepts exactly the items that can be held: a bounded account  *)
(* ID, two ratable currencies, a non-zero amount within the scale of its   *)
(* currency, a positive rate (one between equal currencies), and a value   *)
(* above half a minor unit of the functional currency.  At half a unit     *)
(* banker's rounding gives zero, which is refused.                         *)
MoreThanHalfUnit(d, places) ==
  Decimal!GreaterThan(Decimal!Mul(Decimal!Dec(2, 0), Decimal!Abs(d)), Decimal!Dec(1, -places))

Holdable(c) ==
  /\ c.id.len \in 1 .. 255 /\ ~c.id.control
  /\ names(c.tx) /\ names(c.functional)
  /\ c.amount.coef # 0 /\ c.amount.exp >= -Registry[Upper[c.tx]]
  /\ c.rate.coef > 0
  /\ Upper[c.tx] = Upper[c.functional] => Decimal!Equal(c.rate, Decimal!One)
  /\ MoreThanHalfUnit(Decimal!Mul(c.amount, c.rate), Registry[Upper[c.functional]])

AcceptsExactlyTheHoldable ==
  call.op = "NewEntry" => (out.err = NoError <=> Holdable(call))

(* The six modes of Round by their meaning (rounding.go:21-34): the result *)
(* is a whole number of minor units, no other is closer under the nearest  *)
(* modes, and the mode decides a tie; the directed modes stay on their     *)
(* side, within one unit; RoundUnnecessary changes nothing.                *)
RoundsAsNamed ==
  Accepted("Round") =>
    LET unit   == Decimal!Dec(1, -Registry[Upper[call.code]])
        r      == out.amount
        error  == Decimal!Sub(r, call.amount)
        double == Decimal!Mul(Decimal!Dec(2, 0), Decimal!Abs(error))
        away   == Decimal!GreaterThan(Decimal!Abs(r), Decimal!Abs(call.amount))
        units  == Decimal!At(r, unit.exp)
        nearest(tie) ==
          /\ ~Decimal!GreaterThan(double, unit)
          /\ Decimal!Equal(double, unit) => tie
        directed(side) == side /\ Decimal!GreaterThan(unit, Decimal!Abs(error))
    IN  /\ r.exp >= unit.exp
        /\ call.mode = "RoundHalfEven"    => nearest(units % 2 = 0)
        /\ call.mode = "RoundHalfUp"      => nearest(away)
        /\ call.mode = "RoundHalfDown"    => nearest(~away)
        /\ call.mode = "RoundFloor"       => directed(~Decimal!Positive(error))
        /\ call.mode = "RoundCeiling"     => directed(~Decimal!IsNegative(error))
        /\ call.mode = "RoundUnnecessary" => Decimal!IsZero(error)

(* What Round returns can be held: NewMoney takes it as it is, and no mode *)
(* changes it any more.  Round and NewMoney tell precision differently,    *)
(* one by the value and one by the exponent of the decimal.                *)
RoundedAmountsHeld ==
  Accepted("Round") \/ Accepted("RoundToPrecision") =>
    /\ NewMoney(out.amount, call.code).err = NoError
    /\ \A mode \in RoundingModes :
         LET again == Round(out.amount, call.code, mode)
         IN  again.err = NoError /\ Decimal!Equal(again.amount, out.amount)

(* The deprecated functions agree with the ones that replace them: the     *)
(* places of GetPrecision are those NewMoney has room for, and no currency *)
(* has any if RoundToPrecision refuses it, zero places being something     *)
(* else than none (currency.go:109-113).                                   *)
PrecisionAsHeld ==
  call.op = "GetPrecision" =>
    LET canHold(places) == NewMoney(Decimal!Dec(1, -places), call.code).err = NoError
    IN  /\ out.ok <=> canHold(out.places)
        /\ ~canHold(out.places + 1)
        /\ out.ok <=> RoundToPrecision(Decimal!One, call.code).err = NoError

(* A refusal names the one argument to repair: with another one repaired   *)
(* it stays as it was, with this one it is over, or about another one.     *)
AccountRefusalNamesFault ==
  call.op = "NewAccount" /\ out.err # NoError =>
    LET sound == [id |-> Id(1, FALSE), type |-> 1, category |-> 0,
                  currency |-> CHOOSE code \in DOMAIN Registry : Registry[code] # NotRatable]
        repaired(field) ==
          LET c == [call EXCEPT ![field] = sound[field]]
          IN  NewAccount(c.id, c.type, c.category, c.currency).err
    IN  /\ out.err.field \in DOMAIN sound
        /\ \A field \in DOMAIN sound :
             IF field = out.err.field THEN repaired(field).field # field
                                      ELSE repaired(field) = out.err
===============================================================================
