------------------------------- MODULE MCGenerator -------------------------------
(* Lists for TLC: two pairs that agree, and one list for each way to fail. *)
EXTENDS Generator

RowOf(code, name, numeric, minorUnits) ==
  [code |-> code, name |-> name, numeric |-> numeric, minorUnits |-> minorUnits]

Dollar     == RowOf(2, "US Dollar", "840", "2")
Yen        == RowOf(1, "Yen", "392", "0")
Gold       == RowOf(3, "Gold", "959", "N.A.")
Antarctica == RowOf(0, noCurrencyName, "", "")

Doc(rows) == [published |-> "2026-09-17", rows |-> rows]

MCListOnes ==
  { Doc(<<Dollar, Antarctica, Gold, Dollar>>),
    Doc(<<Gold, Yen, RowOf(2, "US Dollar", "840", "4")>>),
    [published |-> "", rows |-> <<Dollar>>],
    [published |-> "two\nlines", rows |-> <<Gold>>],
    Unreadable }
  \cup {Doc(<<Gold, bad>>) : bad \in
          { RowOf(-1, "Gold", "959", "2"), RowOf(1, "", "392", "0"), RowOf(1, "Yen", "39", "0"),
            RowOf(1, "Yen", "392", "1"), RowOf(0, noCurrencyName, "", "0"), RowOf(0, "Gold", "", ""),
            RowOf(3, "Gold", "959", "0") }}
  \cup {Doc(<<Antarctica>>), Doc(<<>>)}

MCListTwos ==
  {<< <<3>> >>, << <<3, 2>> >>, << <<1>> >>, << <<3, 3>> >>, << <<3, -1>> >>,
   << <<3>>, <<2>> >>, <<>>, Unreadable}

MCNumerics == {"840", "392", "959"}

(* Code n + 100 is code n in lower case; 4 is no active currency. *)
MCUpper == [code \in {1, 2, 3, 4, 101, 102, 103} |-> IF code > 100 THEN code - 100 ELSE code]
===============================================================================
