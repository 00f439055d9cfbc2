------------------------------- MODULE MCTxBuilder -------------------------------
(* Instances of TxBuilder for TLC. *)
EXTENDS TxBuilder, MCData

Config(currency, tolerance) ==
  [closedDate |-> Time(20, "local"), functionalCurrency |-> currency,
   rateTolerance |-> tolerance]

Fresh(date, currency, tolerance, rp) ==
  NewTxBuilder(Id(255, FALSE), date, Config(currency, tolerance), rp)

(* One builder that can succeed in each way, and one for each rule that    *)
(* the accumulating calls cannot mend: the date Open is at the closed date *)
(* of Config, so only an adjusting event passes.                           *)
allBuilders ==
  {Fresh(Time(21, "local"), "eur", D(1, -2), "ecb"),
   Fresh(Open, "EUR", D(0, 0), "ecb"),
   Fresh(Time(21, "UTC"), "EUR", D(0, 0), "nil"),
   Fresh(Time(21, "UTC"), "EUR", D(-1, -2), "ecb"),
   Fresh(Time(0, "local"), "EUR", D(0, 0), "ecb"),
   ZeroBuilder}
oneBuilder == {Fresh(Time(21, "local"), "eur", D(1, -2), "ecb")}

entriesOf(lines) == {entryOf(line) : line \in lines}
allEntries == entriesOf(
  {Eur(90), Eur(-90), Usd(10, Rate90), Dollars(-9), Nothing})
someEntries == entriesOf({Eur(-90), Usd(10, Rate90), Usd(-10, Rate90)})
SomeKeys    == {{Id(1, FALSE)}, {Id(0, FALSE)}}

(* The names the .cfg files substitute; see MCData. *)
AllBuilders == allBuilders
OneBuilder  == oneBuilder
AllEntries  == allEntries
SomeEntries == someEntries

AllRates  == {Rate90, Rate91, D(0, 0)}
SomeRates == {Rate90, D(2, 0)}
Clock     == {Time(30, "local")}
===============================================================================
