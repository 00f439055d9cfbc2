--------------------------------- MODULE MCData ---------------------------------
(***************************************************************************)
(* Values for the instances: a registry with two, no and undefined minor   *)
(* units, entries made by NewEntry, and inputs that break each rule once.  *)
(***************************************************************************)
EXTENDS Validation

(* TLC evaluates the body of a definition that a .cfg substitutes for a      *)
(* constant at every use, so the body only names a value computed once.    *)
registryTable == [c \in {"EUR", "USD", "JPY", "XAU"} |->
                 CASE c = "JPY" -> 0 [] c = "XAU" -> NotRatable [] OTHER -> 2]

\* "EU" is malformed, "ZZZ" is well formed and unknown.
upperTable == [c \in {"EUR", "USD", "JPY", "XAU", "ZZZ", "eur"} |->
              IF c = "eur" THEN "EUR" ELSE c]

MCRegistry == registryTable
MCUpper    == upperTable

D(coef, exp) == Decimal!Dec(coef, exp)

Rate90 == D(90, -2)
Rate91 == D(91, -2)

(* An entry is written as the arguments of NewEntry: amount, currency,     *)
(* rate and functional currency; one that NewEntry refuses is ZeroEntry.   *)
Eur(n)       == <<D(n, -1), "eur", D(1, 0), "EUR">>     \* n tenths of a euro
Usd(n, rate) == <<D(n, 0), "USD", rate, "EUR">>
Jpy(n)       == <<D(n, 0), "JPY", D(1, -2), "EUR">>
Dollars(n)   == <<D(n, 0), "USD", D(10, -1), "USD">>
Nothing      == <<D(0, 0), "USD", D(1, 0), "USD">>

entryOf(line) == NewEntry(Id(4, FALSE), line[1], line[2], line[3], line[4]).entry

Open   == Time(20, "local")
Closed == Time(10, "UTC")

(* An input is written as its entries and what differs from the usual.     *)
Usual == [id |-> Id(3, FALSE), effectiveDate |-> Open, isAdjustingEvent |-> FALSE,
          metadata |-> {Id(64, FALSE)}]
Case(lines, header) == [lines |-> lines, header |-> header]

inputsOf(cases) ==
  {[id |-> c.header.id, effectiveDate |-> c.header.effectiveDate,
    isAdjustingEvent |-> c.header.isAdjustingEvent,
    entries |-> SubSeq([i \in DOMAIN c.lines |-> entryOf(c.lines[i])], 1, Len(c.lines)),
    metadata |-> c.header.metadata] : c \in cases}

Domestic  == <<Eur(50), Eur(-50)>>
Foreign   == <<Usd(10, Rate90), Eur(-90)>>
SamePair  == <<Usd(10, Rate90), Usd(-10, Rate90)>>
TwoRates  == <<Usd(10, Rate90), Usd(-10, Rate91), Eur(1)>>
TwoPairs  == <<Usd(10, Rate90), Jpy(-900)>>
===============================================================================
