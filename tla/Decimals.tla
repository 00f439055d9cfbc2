------------------------------- MODULE Decimals -------------------------------
(***************************************************************************)
(* The part of github.com/shopspring/decimal that NomLedger calls.  It is  *)
(* a third-party library, so it is modelled from its use in src/: a        *)
(* decimal is an integer coefficient and a power of ten, and two decimals  *)
(* of the same value may differ in their exponents (1.5 and 1.50), which   *)
(* the precision checks tell apart.  The coefficients are unbounded in Go; *)
(* the instances keep them far below the 32 bits of TLC's integers.        *)
(***************************************************************************)
EXTENDS Integers

Decimal == [coef : Int, exp : Int]

Dec(c, e) == [coef |-> c, exp |-> e]

Zero == Dec(0, 0)
One  == Dec(1, 0)

Pow10[n \in Nat] == IF n = 0 THEN 1 ELSE 10 * Pow10[n - 1]

(* The smaller of two exponents, at which both decimals are exact. *)
Common(a, b) == IF a.exp < b.exp THEN a.exp ELSE b.exp

(* The coefficient of d at an exponent e <= d.exp. *)
At(d, e) == d.coef * Pow10[d.exp - e]

Add(a, b) == Dec(At(a, Common(a, b)) + At(b, Common(a, b)), Common(a, b))
Sub(a, b) == Dec(At(a, Common(a, b)) - At(b, Common(a, b)), Common(a, b))
Mul(a, b) == Dec(a.coef * b.coef, a.exp + b.exp)
Abs(a)    == Dec(IF a.coef < 0 THEN -a.coef ELSE a.coef, a.exp)

IsZero(a)            == a.coef = 0
IsNegative(a)        == a.coef < 0
Positive(a)          == a.coef > 0
Equal(a, b)          == At(a, Common(a, b)) = At(b, Common(a, b))
GreaterThan(a, b)    == At(a, Common(a, b)) > At(b, Common(a, b))

(* d at the given number of decimal places, where round turns the exact    *)
(* quotient n/m into an integer; nothing is lost when d has fewer places.  *)
Rescale(d, places, round(_, _)) ==
  IF d.exp >= -places
    THEN Dec(At(d, -places), -places)
    ELSE Dec(round(d.coef, Pow10[-places - d.exp]), -places)

Floor(n, m)   == n \div m
Ceiling(n, m) == -((-n) \div m)
TowardZero(n, m) == IF n >= 0 THEN Floor(n, m) ELSE Ceiling(n, m)

(* The nearest integer to n/m, a tie going away from zero. *)
HalfAway(n, m) ==
  IF n >= 0 THEN (2 * n + m) \div (2 * m) ELSE -((m - 2 * n) \div (2 * m))

(* The nearest integer to n/m, a tie going to the even neighbour. *)
HalfEven(n, m) ==
  IF 2 * (n % m) = m
    THEN Floor(n, m) + (Floor(n, m) % 2)
    ELSE HalfAway(n, m)

Round(d, places)      == Rescale(d, places, HalfAway)
RoundBank(d, places)  == Rescale(d, places, HalfEven)
RoundFloor(d, places) == Rescale(d, places, Floor)
RoundCeil(d, places)  == Rescale(d, places, Ceiling)

(* Truncate drops the digits past `places`; Shift moves the decimal point. *)
Truncate(d, places) ==
  IF d.exp >= -places THEN d ELSE Rescale(d, places, TowardZero)
Shift(d, places)    == Dec(d.coef, d.exp + places)

(* A text is the decimal whose digits it shows: StringFixed shows a number *)
(* of places, String as many as the value needs.                           *)
Fixed(d, places) == Rescale(d, places, HalfAway)
Trimmed(d) ==
  IF d.exp >= 0 THEN Dec(At(d, 0), 0)
  ELSE LET exact(e) == d.coef % Pow10[e - d.exp] = 0
           e == CHOOSE e \in d.exp .. 0 : exact(e) /\ \A f \in e + 1 .. 0 : ~exact(f)
       IN  Dec(d.coef \div Pow10[e - d.exp], e)
===============================================================================
