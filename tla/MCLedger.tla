-------------------------------- MODULE MCLedger --------------------------------
(* Instances of Ledger for TLC. *)
EXTENDS LedgerRefinement, MCData

Config(closed, currency, tolerance) ==
  [closedDate |-> closed, functionalCurrency |-> currency, rateTolerance |-> tolerance]

Strict    == Config(Time(0, "local"), "eur", Decimal!Zero)
Tolerant  == Config(Time(10, "local"), "EUR", D(1, -2))
InDollars == Config(Time(10, "UTC"), "USD", D(1, -2))

AllConfigs ==
  {Strict, Tolerant, InDollars,
   Config(Open, "XAU", D(0, 0)), Config(Open, "EUR", D(-1, -2))}
TwoConfigs == {Strict, Tolerant}

(* Every rule broken once, at its boundary where it has one. *)
allInputs == inputsOf(
  {Case(lines, Usual) :
     lines \in {Domestic, Foreign, SamePair, TwoRates, TwoPairs, <<>>,
                <<Nothing, Eur(10)>>, <<Usd(10, Rate90), Eur(-50)>>,
                <<Dollars(5), Dollars(-5)>>}}
  \cup {Case(Domestic, header) :
     header \in {[Usual EXCEPT !.id = Id(256, FALSE)],
                 [Usual EXCEPT !.id = Id(3, TRUE)],
                 [Usual EXCEPT !.effectiveDate = Time(0, "UTC")],
                 [Usual EXCEPT !.metadata = {Id(3, FALSE), Id(65, FALSE)}]}}
  \cup {Case(Foreign, [Usual EXCEPT !.effectiveDate = Closed, !.isAdjustingEvent = adjusting]) :
     adjusting \in BOOLEAN})

someInputs == inputsOf(
  {Case(TwoRates, Usual),
   Case(TwoPairs, [Usual EXCEPT !.effectiveDate = Time(5, "UTC")])})
liveInputs == inputsOf({Case(Domestic, Usual), Case(TwoPairs, Usual)})

AllRates  == {Rate90, Rate91, D(1, -2), D(0, 0), D(-90, -2)}
SomeRates == {Rate90, D(905, -3), D(1, -2)}

(* A year before year 1, which time.Date accepts. *)
ancientInputs == inputsOf({Case(Domestic, [Usual EXCEPT !.effectiveDate = Time(-5, "UTC")])})

OneConfig == {Tolerant}

(* The names the .cfg files substitute; see MCData. *)
AllInputs     == allInputs
SomeInputs    == someInputs
LiveInputs    == liveInputs
AncientInputs == ancientInputs

Clock == {Time(30, "local")}

(* The goroutines run the same code. *)
Permuted == Permutations(Goroutines)
===============================================================================
