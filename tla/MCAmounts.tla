-------------------------------- MODULE MCAmounts --------------------------------
(* Instances of Amounts for TLC: amounts on both sides of every tie. *)
EXTENDS Amounts, TLC

MCRegistry == [c \in {"EUR", "JPY", "XAU"} |->
                 CASE c = "JPY" -> 0 [] c = "XAU" -> NotRatable [] OTHER -> 2]
MCUpper == [c \in {"EUR", "JPY", "XAU", "ZZZ", "jpy"} |-> IF c = "jpy" THEN "JPY" ELSE c]
MCCodes == {"EUR", "JPY", "jpy", "XAU", "ZZZ", "EU"}

MCIDs == {Id(0, FALSE), Id(255, FALSE), Id(256, FALSE), Id(1, TRUE)}

MCTypes == {-1, 0, 1, 5, 6}
MCCategories == {-1, 0, 3, 4}

D(coef, exp) == Decimal!Dec(coef, exp)

MCEntryAmounts ==
  {D(c, 0) : c \in {-1, 0, 1, 50}} \cup {D(c, -2) : c \in {-150, 5, 50, 250}} \cup {D(10, -3)}
MCEntryRates == {D(1, 0), D(100, -2), D(0, 0), D(-1, 0), D(1, -1), D(1, -2), D(5, -3)}

MCRoundAmounts ==
  {D(c, -3) : c \in {-1501, -1500, -1499, -500, -25, -15, -5, 0, 5, 15, 25, 500, 1495, 1500}}
    \cup {D(c, -1) : c \in -25 .. 25} \cup {D(3, 2), D(-3, 0)}
MCModes == RoundingModes \cup {"6"}

(* Amounts of many exponents, some equal, some finer than a minor unit. *)
MCMoneyAmounts ==
  {D(0, 0), D(-1, 0), D(5, -1), D(50, -2), D(1, 1), D(2, 0), D(10, -3)}
MCMoneyCodes == {"EUR", "JPY", "jpy", "XAU"}
MCMaxUnits == [c \in {"EUR", "JPY"} |-> IF c = "EUR" THEN 1000 ELSE 20]
MCSymmetry == Permutations(Slots)
===============================================================================
