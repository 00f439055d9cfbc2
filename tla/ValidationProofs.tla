---------------------------- MODULE ValidationProofs ----------------------------
(***************************************************************************)
(* The lemmas the theorems about the pipeline rest on, in two parts.       *)
(*                                                                         *)
(* The arithmetic of Decimals, for every coefficient and exponent.  The    *)
(* provers know no power, so that the powers of ten come first: that the   *)
(* recursive definition has a solution, and what it is at every number.    *)
(*                                                                         *)
(* What the checks of Validation yield, for every registry and every       *)
(* input: errors of the right type, and none exactly when what they check  *)
(* holds.  From there to Guarantees the way is short in both directions.   *)
(* First come the fail-fast combinator of Errors, on which every proof     *)
(* about the pipeline rests, and its errors.                               *)
(***************************************************************************)
EXTENDS Guarantees, WellFoundedInduction, TLAPS

(***************************************************************************)
(* Induction and recursion, over sets and functions of the naturals.       *)
(***************************************************************************)
(* Induction, for the set of the naturals a claim holds for. *)
LEMMA NatInductive ==
  ASSUME NEW S, 0 \in S, \A n \in Nat : n \in S => n + 1 \in S
  PROVE  Nat \subseteq S
<1>1. SUFFICES ASSUME Nat \ S # {}
               PROVE  FALSE
  OBVIOUS
<1>. DEFINE T == Nat \ S
<1>2. PICK n \in T : \A k \in T : <<k, n>> \notin OpToRel(<, Nat)
  BY <1>1, WFMin, NatLessThanWellFounded, Zenon
<1>3. \A k \in T : ~(k < n)
  BY <1>2 DEF OpToRel
<1>4. n # 0 /\ n - 1 \in Nat /\ n - 1 < n
  OBVIOUS
<1>5. n - 1 \in S
  BY <1>3, <1>4
<1>6. (n - 1) + 1 \in S
  BY <1>4, <1>5
<1>. QED
  BY <1>4, <1>6

(* Recursion over the naturals: a first value, and a function for the next *)
(* one.                                                                    *)
Iterates(f, base, step) ==
  f[0] = base /\ \A n \in Nat : f[n + 1] = step[n][f[n]]

LEMMA NatRecursion ==
  ASSUME NEW V, NEW base \in V, NEW step \in [Nat -> [V -> V]]
  PROVE  \E f \in [Nat -> V] : Iterates(f, base, step)
<1>. DEFINE Is(f, n) == /\ f \in [0 .. n -> V] /\ f[0] = base
                        /\ \A i \in 0 .. n - 1 : f[i + 1] = step[i][f[i]]
<1>1. \A n \in Nat : \E f : Is(f, n)
  <2>. DEFINE S == {n \in Nat : \E f : Is(f, n)}
  <2>1. 0 \in S
    <3>1. Is([i \in 0 .. 0 |-> base], 0)
      OBVIOUS
    <3>. QED
      BY <3>1, Zenon
  <2>2. ASSUME NEW n \in Nat, n \in S
        PROVE  n + 1 \in S
    <3>1. PICK f : Is(f, n)
      BY <2>2
    <3>. DEFINE g == [i \in 0 .. n + 1 |-> IF i = n + 1 THEN step[n][f[n]] ELSE f[i]]
    <3>2. f[n] \in V /\ step[n][f[n]] \in V
      BY <3>1
    <3>3. g \in [0 .. n + 1 -> V] /\ g[0] = base
      BY <3>1, <3>2
    <3>4. ASSUME NEW i \in 0 .. n
          PROVE  g[i + 1] = step[i][g[i]]
      BY <3>1
    <3>5. Is(g, n + 1)
      <4>1. (n + 1) - 1 = n
        OBVIOUS
      <4>. HIDE DEF g
      <4>. QED
        BY <3>3, <3>4, <4>1
    <3>6. n + 1 \in Nat
      OBVIOUS
    <3>. QED
      BY <3>5, <3>6, Zenon
  <2>. HIDE DEF S
  <2>3. Nat \subseteq S
    BY <2>1, <2>2, NatInductive
  <2>. QED
    BY <2>3 DEF S
<1>2. ASSUME NEW n \in Nat, NEW m \in Nat, NEW f, NEW g, Is(f, n), Is(g, m)
      PROVE  \A i \in Nat : i <= n /\ i <= m => f[i] = g[i]
  <2>. DEFINE S == {i \in Nat : i <= n /\ i <= m => f[i] = g[i]}
  <2>1. 0 \in S
    BY <1>2
  <2>2. ASSUME NEW i \in Nat, i \in S
        PROVE  i + 1 \in S
    <3>. SUFFICES ASSUME i + 1 <= n, i + 1 <= m
                  PROVE  f[i + 1] = g[i + 1]
      OBVIOUS
    <3>1. f[i] = g[i] /\ i \in 0 .. n - 1 /\ i \in 0 .. m - 1
      BY <2>2
    <3>. QED
      BY <1>2, <3>1
  <2>. HIDE DEF S
  <2>3. Nat \subseteq S
    BY <2>1, <2>2, NatInductive
  <2>. QED
    BY <2>3 DEF S
<1>. DEFINE upTo(n) == CHOOSE f : Is(f, n)
            all == [n \in Nat |-> upTo(n)[n]]
<1>3. \A n \in Nat : Is(upTo(n), n)
  BY <1>1
<1>. HIDE DEF upTo
<1>4. all \in [Nat -> V] /\ all[0] = base
  BY <1>3
<1>5. ASSUME NEW n \in Nat
      PROVE  all[n + 1] = step[n][all[n]]
  <2>1. upTo(n + 1)[n + 1] = step[n][upTo(n + 1)[n]]
    BY <1>3
  <2>2. Is(upTo(n), n) /\ Is(upTo(n + 1), n + 1)
    BY <1>3
  <2>3. \A i \in Nat : i <= n /\ i <= n + 1 => upTo(n)[i] = upTo(n + 1)[i]
    <3>1. PICK m \in Nat : m = n + 1
      OBVIOUS
    <3>2. PICK f : f = upTo(n)
      OBVIOUS
    <3>3. PICK g : g = upTo(m)
      OBVIOUS
    <3>4. Is(f, n) /\ Is(g, m)
      BY <2>2, <3>1, <3>2, <3>3
    <3>5. \A i \in Nat : i <= n /\ i <= m => f[i] = g[i]
      <4>. HIDE DEF Is
      <4>. QED
        BY <1>2, <3>4
    <3>. QED
      BY <3>1, <3>2, <3>3, <3>5
  <2>. QED
    BY <2>1, <2>3
<1>. HIDE DEF all
<1>6. Iterates(all, base, step)
  BY <1>4, <1>5 DEF Iterates
<1>. QED
  BY <1>4, <1>6, Zenon

LEMMA Powers ==
  /\ Decimal!Pow10 \in [Nat -> Nat \ {0}] /\ Decimal!Pow10[0] = 1
  /\ \A n \in Nat : Decimal!Pow10[n + 1] = 10 * Decimal!Pow10[n]
<1>. DEFINE V == Nat \ {0}
            step == [n \in Nat |-> [v \in V |-> 10 * v]]
            pow(f) == [n \in Nat |-> IF n = 0 THEN 1 ELSE 10 * f[n - 1]]
<1>1. 1 \in V /\ step \in [Nat -> [V -> V]]
  OBVIOUS
<1>. HIDE DEF step, V
<1>2. PICK f \in [Nat -> V] : Iterates(f, 1, step)
  BY <1>1, NatRecursion, Zenon
<1>3. \A n \in Nat : f[n + 1] = 10 * f[n]
  BY <1>2 DEF step, V, Iterates
<1>4. \A n \in Nat : n # 0 => f[n] = 10 * f[n - 1]
  BY <1>3
<1>5. f = pow(f)
  BY <1>2, <1>4 DEF Iterates
<1>6. Decimal!Pow10 = CHOOSE g : g = pow(g)
  BY Zenon DEF Decimal!Pow10
<1>. HIDE DEF pow
<1>7. Decimal!Pow10 = pow(Decimal!Pow10)
  BY <1>5, <1>6, Zenon
<1>. DEFINE h == Decimal!Pow10
<1>8. h[0] = 1 /\ \A n \in Nat : n # 0 => h[n] = 10 * h[n - 1]
  BY <1>7 DEF pow
<1>. HIDE DEF h
<1>9. ASSUME NEW n \in Nat
      PROVE  h[n + 1] = 10 * h[n]
  BY <1>8
<1>10. Nat \subseteq {n \in Nat : h[n] \in Nat \ {0}}
  <2>. DEFINE S == {n \in Nat : h[n] \in Nat \ {0}}
  <2>1. 0 \in S
    BY <1>8
  <2>2. ASSUME NEW n \in Nat, n \in S
        PROVE  n + 1 \in S
    BY <1>9, <2>2
  <2>. HIDE DEF S
  <2>3. Nat \subseteq S
    BY <2>1, <2>2, NatInductive
  <2>. QED
    BY <2>3 DEF S
<1>11. h = [n \in Nat |-> h[n]]
  BY <1>7 DEF pow, h
<1>12. h \in [Nat -> Nat \ {0}]
  BY <1>10, <1>11
<1>. QED
  BY <1>8, <1>9, <1>12 DEF h

LEMMA PowerSum ==
  ASSUME NEW m \in Nat, NEW n \in Nat
  PROVE  Decimal!Pow10[m + n] = Decimal!Pow10[m] * Decimal!Pow10[n]
<1>. DEFINE S == {k \in Nat : Decimal!Pow10[m + k] = Decimal!Pow10[m] * Decimal!Pow10[k]}
<1>1. \A k \in Nat : Decimal!Pow10[k] \in Nat
  BY Powers
<1>2. 0 \in S
  BY <1>1, Powers
<1>3. ASSUME NEW k \in Nat, k \in S
      PROVE  k + 1 \in S
  <2>1. m + k \in Nat /\ m + (k + 1) = (m + k) + 1
    OBVIOUS
  <2>2. Decimal!Pow10[m + (k + 1)] = 10 * Decimal!Pow10[m + k]
    BY <2>1, Powers
  <2>3. Decimal!Pow10[k + 1] = 10 * Decimal!Pow10[k]
    BY Powers
  <2>. QED
    BY <1>1, <1>3, <2>2, <2>3
<1>. HIDE DEF S
<1>4. Nat \subseteq S
  BY <1>2, <1>3, NatInductive
<1>. QED
  BY <1>4 DEF S

(***************************************************************************)
(* Values.  A decimal has the same value at every exponent it is exact at, *)
(* so that any of those will do to compare two, or to compute with them.   *)
(***************************************************************************)
LEMMA AtFiner ==
  ASSUME NEW d \in Decimal!Decimal, NEW e \in Int, NEW f \in Int, f <= e, e <= d.exp
  PROVE  /\ Decimal!At(d, e) \in Int
         /\ Decimal!Pow10[e - f] \in Nat \ {0}
         /\ Decimal!At(d, f) = Decimal!At(d, e) * Decimal!Pow10[e - f]
<1>1. d.coef \in Int /\ d.exp \in Int
  BY DEF Decimal!Decimal
<1>2. /\ d.exp - e \in Nat /\ e - f \in Nat
      /\ d.exp - f = (d.exp - e) + (e - f)
  BY <1>1
<1>3. Decimal!Pow10[d.exp - f] = Decimal!Pow10[d.exp - e] * Decimal!Pow10[e - f]
  BY <1>2, PowerSum
<1>4. /\ Decimal!Pow10[d.exp - e] \in Nat \ {0} /\ Decimal!Pow10[e - f] \in Nat \ {0}
  BY <1>2, Powers
<1>. QED
  BY <1>1, <1>3, <1>4 DEF Decimal!At

LEMMA CommonType ==
  ASSUME NEW a \in Decimal!Decimal, NEW b \in Decimal!Decimal
  PROVE  /\ Decimal!Common(a, b) \in Int
         /\ Decimal!Common(a, b) <= a.exp /\ Decimal!Common(a, b) <= b.exp
         /\ \A e \in Int : e <= a.exp /\ e <= b.exp => e <= Decimal!Common(a, b)
BY DEF Decimal!Common, Decimal!Decimal

LEMMA CompareAt ==
  ASSUME NEW a \in Decimal!Decimal, NEW b \in Decimal!Decimal, NEW e \in Int,
         e <= a.exp, e <= b.exp
  PROVE  /\ Decimal!Equal(a, b) <=> Decimal!At(a, e) = Decimal!At(b, e)
         /\ Decimal!GreaterThan(a, b) <=> Decimal!At(a, e) > Decimal!At(b, e)
<1>. DEFINE c == Decimal!Common(a, b)
            p == Decimal!Pow10[c - e]
            x == Decimal!At(a, c)
            y == Decimal!At(b, c)
<1>1. c \in Int /\ e <= c /\ c <= a.exp /\ c <= b.exp
  BY CommonType
<1>. HIDE DEF c
<1>2. /\ x \in Int /\ y \in Int /\ p \in Nat \ {0}
      /\ Decimal!At(a, e) = x * p /\ Decimal!At(b, e) = y * p
  BY <1>1, AtFiner
<1>3. /\ Decimal!Equal(a, b) <=> x = y
      /\ Decimal!GreaterThan(a, b) <=> x > y
  BY DEF Decimal!Equal, Decimal!GreaterThan, c
<1>. HIDE DEF x, y, p
<1>. QED
  BY <1>2, <1>3

LEMMA EqualSymmetric ==
  ASSUME NEW a \in Decimal!Decimal, NEW b \in Decimal!Decimal
  PROVE  Decimal!Equal(a, b) <=> Decimal!Equal(b, a)
<1>. PICK c \in Int : c = Decimal!Common(a, b)
  BY CommonType
<1>1. c <= a.exp /\ c <= b.exp
  BY CommonType
<1>. QED
  BY <1>1, CompareAt

(* The sum and the difference, at any such exponent. *)
LEMMA SumAt ==
  ASSUME NEW a \in Decimal!Decimal, NEW b \in Decimal!Decimal, NEW e \in Int,
         e <= a.exp, e <= b.exp
  PROVE  /\ Decimal!Add(a, b) \in Decimal!Decimal /\ e <= Decimal!Add(a, b).exp
         /\ Decimal!At(Decimal!Add(a, b), e) = Decimal!At(a, e) + Decimal!At(b, e)
         /\ Decimal!Sub(a, b) \in Decimal!Decimal /\ e <= Decimal!Sub(a, b).exp
         /\ Decimal!At(Decimal!Sub(a, b), e) = Decimal!At(a, e) - Decimal!At(b, e)
<1>. DEFINE c == Decimal!Common(a, b)
            p == Decimal!Pow10[c - e]
            x == Decimal!At(a, c)
            y == Decimal!At(b, c)
<1>1. c \in Int /\ e <= c /\ c <= a.exp /\ c <= b.exp
  BY CommonType
<1>. HIDE DEF c
<1>2. /\ x \in Int /\ y \in Int /\ p \in Nat \ {0}
      /\ Decimal!At(a, e) = x * p /\ Decimal!At(b, e) = y * p
  BY <1>1, AtFiner
<1>3. /\ Decimal!Add(a, b) = [coef |-> x + y, exp |-> c]
      /\ Decimal!Sub(a, b) = [coef |-> x - y, exp |-> c]
  BY DEF Decimal!Add, Decimal!Sub, Decimal!Dec, c
<1>4. /\ Decimal!At(Decimal!Add(a, b), e) = (x + y) * p
      /\ Decimal!At(Decimal!Sub(a, b), e) = (x - y) * p
  BY <1>3 DEF Decimal!At
<1>. HIDE DEF x, y, p
<1>5. (x + y) * p = x * p + y * p /\ (x - y) * p = x * p - y * p
  BY <1>2
<1>. QED
  BY <1>1, <1>2, <1>3, <1>4, <1>5 DEF Decimal!Decimal

(* The sign, the absolute value, the double. *)
abs(i) == IF i < 0 THEN -i ELSE i

LEMMA AbsAt ==
  ASSUME NEW d \in Decimal!Decimal, NEW e \in Int, e <= d.exp
  PROVE  /\ Decimal!IsZero(d) <=> Decimal!At(d, e) = 0
         /\ Decimal!Positive(d) <=> Decimal!At(d, e) > 0
         /\ Decimal!IsNegative(d) <=> Decimal!At(d, e) < 0
         /\ Decimal!Abs(d) \in Decimal!Decimal /\ Decimal!Abs(d).exp = d.exp
         /\ Decimal!At(Decimal!Abs(d), e) = abs(Decimal!At(d, e))
<1>1. d.coef \in Int /\ d.exp \in Int
  BY DEF Decimal!Decimal
<1>2. PICK p \in Nat \ {0} : p = Decimal!Pow10[d.exp - e]
  BY <1>1, Powers
<1>3. PICK c \in Int : c = d.coef
  BY <1>1
<1>4. Decimal!At(d, e) = c * p
  BY <1>2, <1>3 DEF Decimal!At
<1>5. Decimal!Abs(d) = [coef |-> abs(c), exp |-> d.exp]
  BY <1>3 DEF Decimal!Abs, Decimal!Dec, abs
<1>6. Decimal!At(Decimal!Abs(d), e) = abs(c) * p
  BY <1>2, <1>5 DEF Decimal!At
<1>7. abs(c) \in Int
  BY DEF abs
<1>8. Decimal!Abs(d) \in Decimal!Decimal /\ Decimal!Abs(d).exp = d.exp
  BY <1>1, <1>5, <1>7 DEF Decimal!Decimal
<1>9. abs(c) * p = abs(c * p)
  <2>1. (-c) * p = -(c * p) /\ (c < 0 <=> c * p < 0)
    OBVIOUS
  <2>. QED
    BY <2>1 DEF abs
<1>10. /\ c = 0 <=> c * p = 0
       /\ c > 0 <=> c * p > 0
       /\ c < 0 <=> c * p < 0
  OBVIOUS
<1>. QED
  BY <1>3, <1>4, <1>6, <1>8, <1>9, <1>10
  DEF Decimal!IsZero, Decimal!Positive, Decimal!IsNegative

LEMMA DoubleAt ==
  ASSUME NEW d \in Decimal!Decimal, NEW e \in Int, e <= d.exp
  PROVE  LET double == Decimal!Mul(Decimal!Dec(2, 0), d)
         IN  /\ double \in Decimal!Decimal /\ double.exp = d.exp
             /\ Decimal!At(double, e) = 2 * Decimal!At(d, e)
<1>1. d.coef \in Int /\ d.exp \in Int
  BY DEF Decimal!Decimal
<1>2. PICK p \in Nat \ {0} : p = Decimal!Pow10[d.exp - e]
  BY <1>1, Powers
<1>3. Decimal!Mul(Decimal!Dec(2, 0), d) = [coef |-> 2 * d.coef, exp |-> d.exp]
  BY <1>1 DEF Decimal!Mul, Decimal!Dec
<1>4. (2 * d.coef) * p = 2 * (d.coef * p)
  BY <1>1
<1>. QED
  BY <1>1, <1>2, <1>3, <1>4 DEF Decimal!At, Decimal!Decimal

(***************************************************************************)
(* Quotients.  What each rounding makes of n/m: how far from n the rounded *)
(* quotient times m can be, on which side of it, and what a tie goes to.   *)
(***************************************************************************)
LEMMA Quotient ==
  ASSUME NEW n \in Int, NEW m \in Nat \ {0}
  PROVE  /\ n \div m \in Int /\ n % m \in 0 .. m - 1
         /\ n = (n \div m) * m + (n % m)
OBVIOUS

LEMMA FloorResult ==
  ASSUME NEW n \in Int, NEW m \in Nat \ {0}
  PROVE  LET q == Decimal!Floor(n, m)
         IN  q \in Int /\ q * m <= n /\ n < q * m + m
<1>. PICK q : q = n \div m
  OBVIOUS
<1>. PICK r : r = n % m
  OBVIOUS
<1>1. q \in Int /\ r \in 0 .. m - 1 /\ n = q * m + r
  BY Quotient
<1>2. Decimal!Floor(n, m) = q
  BY DEF Decimal!Floor
<1>. QED
  BY <1>1, <1>2

LEMMA CeilingResult ==
  ASSUME NEW n \in Int, NEW m \in Nat \ {0}
  PROVE  LET q == Decimal!Ceiling(n, m)
         IN  q \in Int /\ n <= q * m /\ q * m < n + m
<1>. DEFINE q == (-n) \div m
<1>1. q \in Int /\ q * m <= -n /\ -n < q * m + m
  BY FloorResult, -n \in Int DEF Decimal!Floor
<1>2. Decimal!Ceiling(n, m) = -q
  BY DEF Decimal!Ceiling
<1>. HIDE DEF q
<1>3. (-q) * m = -(q * m)
  BY <1>1
<1>. QED
  BY <1>1, <1>2, <1>3

LEMMA TowardZeroResult ==
  ASSUME NEW n \in Int, NEW m \in Nat \ {0}
  PROVE  LET q == Decimal!TowardZero(n, m)
         IN  /\ q \in Int
             /\ n >= 0 => 0 <= q * m /\ q * m <= n /\ n < q * m + m
             /\ n < 0  => n <= q * m /\ q * m < n + m /\ q * m <= 0
<1>1. CASE n >= 0
  <2>. DEFINE q == Decimal!Floor(n, m)
  <2>1. q \in Int /\ q * m <= n /\ n < q * m + m
    BY FloorResult
  <2>. HIDE DEF q
  <2>2. q >= 0
    BY <1>1, <2>1
  <2>3. q * m >= 0
    BY <2>1, <2>2
  <2>. QED
    BY <1>1, <2>1, <2>3 DEF Decimal!TowardZero, q
<1>2. CASE n < 0
  <2>. DEFINE q == Decimal!Ceiling(n, m)
  <2>1. q \in Int /\ n <= q * m /\ q * m < n + m
    BY CeilingResult
  <2>. HIDE DEF q
  <2>2. q <= 0
    BY <1>2, <2>1
  <2>3. q * m <= 0
    BY <2>1, <2>2
  <2>. QED
    BY <1>2, <2>1, <2>3 DEF Decimal!TowardZero, q
<1>. QED
  BY <1>1, <1>2

LEMMA HalfAwayResult ==
  ASSUME NEW n \in Int, NEW m \in Nat \ {0}
  PROVE  LET q == Decimal!HalfAway(n, m)
         IN  /\ q \in Int
             /\ n >= 0 => 0 <= q * m /\ 2 * n - m < 2 * (q * m) /\ 2 * (q * m) <= 2 * n + m
             /\ n < 0  => q * m <= 0 /\ 2 * n - m <= 2 * (q * m) /\ 2 * (q * m) < 2 * n + m
<1>. PICK k \in Nat \ {0} : k = 2 * m
  OBVIOUS
<1>1. CASE n >= 0
  <2>. DEFINE q == (2 * n + m) \div k
  <2>1. q \in Int /\ q * k <= 2 * n + m /\ 2 * n + m < q * k + k
    BY FloorResult, 2 * n + m \in Int DEF Decimal!Floor
  <2>2. Decimal!HalfAway(n, m) = q
    BY <1>1 DEF Decimal!HalfAway
  <2>. HIDE DEF q
  <2>3. q * k = 2 * (q * m)
    BY <2>1
  <2>4. q >= 0
    BY <1>1, <2>1
  <2>5. q * m >= 0
    BY <2>1, <2>4
  <2>. QED
    BY <1>1, <2>1, <2>2, <2>3, <2>5
<1>2. CASE n < 0
  <2>. DEFINE q == (m - 2 * n) \div k
  <2>1. q \in Int /\ q * k <= m - 2 * n /\ m - 2 * n < q * k + k
    BY FloorResult, m - 2 * n \in Int DEF Decimal!Floor
  <2>2. Decimal!HalfAway(n, m) = -q
    BY <1>2 DEF Decimal!HalfAway
  <2>. HIDE DEF q
  <2>3. q * k = 2 * (q * m) /\ (-q) * m = -(q * m)
    BY <2>1
  <2>4. q >= 0
    BY <1>2, <2>1
  <2>5. q * m >= 0
    BY <2>1, <2>4
  <2>. QED
    BY <1>2, <2>1, <2>2, <2>3, <2>5
<1>. QED
  BY <1>1, <1>2

LEMMA HalfEvenResult ==
  ASSUME NEW n \in Int, NEW m \in Nat \ {0}
  PROVE  LET q == Decimal!HalfEven(n, m)
         IN  /\ q \in Int
             /\ 2 * n - m <= 2 * (q * m) /\ 2 * (q * m) <= 2 * n + m
             /\ 2 * (q * m) \in {2 * n - m, 2 * n + m} => q % 2 = 0
<1>. DEFINE f == n \div m
            r == n % m
<1>1. f \in Int /\ r \in 0 .. m - 1 /\ n = f * m + r
  BY Quotient
<1>2. CASE 2 * r = m
  <2>1. Decimal!HalfEven(n, m) = f + (f % 2)
    BY <1>2 DEF Decimal!HalfEven, Decimal!Floor
  <2>. HIDE DEF f, r
  <2>2. f % 2 \in {0, 1} /\ (f + (f % 2)) % 2 = 0
    BY <1>1
  <2>3. (f + 0) * m = f * m /\ (f + 1) * m = f * m + m
    BY <1>1
  <2>. QED
    BY <1>1, <1>2, <2>1, <2>2, <2>3
<1>3. CASE 2 * r # m
  <2>. PICK q : q = Decimal!HalfAway(n, m)
    OBVIOUS
  <2>1. Decimal!HalfEven(n, m) = q
    BY <1>3 DEF Decimal!HalfEven
  <2>2. q \in Int /\ 2 * n - m <= 2 * (q * m) /\ 2 * (q * m) <= 2 * n + m
    <3>1. /\ q \in Int
          /\ n >= 0 => 2 * n - m < 2 * (q * m) /\ 2 * (q * m) <= 2 * n + m
          /\ n < 0  => 2 * n - m <= 2 * (q * m) /\ 2 * (q * m) < 2 * n + m
      BY HalfAwayResult
    <3>. QED
      BY <3>1
  <2>. HIDE DEF f, r
  <2>3. 2 * (q * m) \notin {2 * n - m, 2 * n + m}
    <3>1. q - f \in Int /\ (q - f) * m = q * m - f * m
      BY <1>1, <2>2
    <3>2. \/ q - f <= -1 /\ (q - f) * m <= -m
          \/ q - f = 0 /\ (q - f) * m = 0
          \/ q - f = 1 /\ (q - f) * m = m
          \/ q - f >= 2 /\ (q - f) * m >= 2 * m
      BY <3>1
    <3>. QED
      BY <1>1, <1>3, <2>2, <3>1, <3>2
  <2>. QED
    BY <2>1, <2>2, <2>3
<1>. QED
  BY <1>2, <1>3

(***************************************************************************)
(* Rounding to a number of places.  The decimal and the unit it is rounded *)
(* to are compared at the finer of their exponents: there, the decimal is  *)
(* n, the unit is u, and a result of q units is q * u.                     *)
(***************************************************************************)
Grid(d, places) == IF d.exp < -places THEN d.exp ELSE -places
Unit(places)    == Decimal!Dec(1, -places)
OnGrid(d, places)     == Decimal!At(d, Grid(d, places))
UnitOnGrid(d, places) == Decimal!At(Unit(places), Grid(d, places))

LEMMA GridType ==
  ASSUME NEW d \in Decimal!Decimal, NEW places \in Int
  PROVE  /\ Grid(d, places) \in Int
         /\ Grid(d, places) <= d.exp /\ Grid(d, places) <= -places
         /\ Unit(places) \in Decimal!Decimal /\ Unit(places).exp = -places
         /\ OnGrid(d, places) \in Int /\ UnitOnGrid(d, places) \in Nat \ {0}
         /\ \A q \in Int :
              /\ Decimal!Dec(q, -places) \in Decimal!Decimal
              /\ Decimal!Dec(q, -places).exp = -places
              /\ Decimal!At(Decimal!Dec(q, -places), Grid(d, places)) = q * UnitOnGrid(d, places)
<1>1. d.coef \in Int /\ d.exp \in Int /\ -places \in Int
  BY DEF Decimal!Decimal
<1>2. Grid(d, places) \in Int /\ Grid(d, places) <= d.exp /\ Grid(d, places) <= -places
  BY <1>1 DEF Grid
<1>3. \A q \in Int : Decimal!Dec(q, -places) \in Decimal!Decimal
  BY <1>1 DEF Decimal!Dec, Decimal!Decimal
<1>4. OnGrid(d, places) \in Int
  BY <1>2, AtFiner DEF OnGrid
<1>. PICK k : k = -places - Grid(d, places)
  OBVIOUS
<1>5. k \in Nat /\ Decimal!Pow10[k] \in Nat \ {0}
  BY <1>1, <1>2, Powers
<1>6. \A q \in Int : Decimal!At(Decimal!Dec(q, -places), Grid(d, places)) = q * Decimal!Pow10[k]
  BY DEF Decimal!At, Decimal!Dec
<1>7. UnitOnGrid(d, places) = Decimal!Pow10[k]
  BY <1>5, <1>6 DEF UnitOnGrid, Unit
<1>. QED
  BY <1>2, <1>3, <1>4, <1>5, <1>6, <1>7 DEF Unit, Decimal!Dec

(* With no more places than asked for, nothing is lost. *)
LEMMA ExactRescale ==
  ASSUME NEW d \in Decimal!Decimal, NEW places \in Int, -places <= d.exp
  PROVE  /\ UnitOnGrid(d, places) = 1
         /\ \A e \in {Decimal!RoundBank(d, places), Decimal!Round(d, places),
                      Decimal!RoundFloor(d, places), Decimal!RoundCeil(d, places),
                      Decimal!Fixed(d, places)} :
              e = Decimal!Dec(OnGrid(d, places), -places)
<1>1. d.exp \in Int
  BY DEF Decimal!Decimal
<1>2. Grid(d, places) = -places
  BY <1>1 DEF Grid
<1>3. Decimal!At(Unit(places), -places) = 1 * Decimal!Pow10[-places - (-places)]
  BY DEF Decimal!At, Unit, Decimal!Dec
<1>4. -places - (-places) = 0
  OBVIOUS
<1>5. UnitOnGrid(d, places) = 1
  BY <1>2, <1>3, <1>4, Powers DEF UnitOnGrid
<1>6. d.exp >= -places
  BY <1>1
<1>. QED
  BY <1>2, <1>5, <1>6
  DEF OnGrid, Decimal!RoundBank, Decimal!Round, Decimal!RoundFloor, Decimal!RoundCeil,
      Decimal!Fixed, Decimal!Rescale

(* With more, the coefficient is divided. *)
LEMMA CutRescale ==
  ASSUME NEW d \in Decimal!Decimal, NEW places \in Int, d.exp < -places
  PROVE  LET n == OnGrid(d, places)
             u == UnitOnGrid(d, places)
         IN  /\ n = d.coef /\ u = Decimal!Pow10[-places - d.exp]
             /\ u = 10 * Decimal!Pow10[-places - d.exp - 1]
             /\ Decimal!RoundBank(d, places) = Decimal!Dec(Decimal!HalfEven(n, u), -places)
             /\ Decimal!Round(d, places) = Decimal!Dec(Decimal!HalfAway(n, u), -places)
             /\ Decimal!RoundFloor(d, places) = Decimal!Dec(Decimal!Floor(n, u), -places)
             /\ Decimal!RoundCeil(d, places) = Decimal!Dec(Decimal!Ceiling(n, u), -places)
<1>1. d.exp \in Int /\ d.coef \in Int
  BY DEF Decimal!Decimal
<1>2. Grid(d, places) = d.exp /\ ~(d.exp >= -places)
  BY <1>1 DEF Grid
<1>. PICK k : k = -places - d.exp
  OBVIOUS
<1>3. k \in Nat /\ k - 1 \in Nat /\ (k - 1) + 1 = k
  BY <1>1
<1>4. Decimal!Pow10[k] \in Nat /\ Decimal!Pow10[k] = 10 * Decimal!Pow10[k - 1]
  BY <1>3, Powers
<1>5. UnitOnGrid(d, places) = Decimal!Pow10[k]
  <2>1. UnitOnGrid(d, places) = 1 * Decimal!Pow10[k]
    BY <1>2 DEF UnitOnGrid, Unit, Decimal!At, Decimal!Dec
  <2>. QED
    BY <1>4, <2>1
<1>6. OnGrid(d, places) = d.coef
  <2>1. OnGrid(d, places) = d.coef * Decimal!Pow10[d.exp - d.exp]
    BY <1>2 DEF OnGrid, Decimal!At
  <2>2. d.exp - d.exp = 0
    BY <1>1
  <2>. QED
    BY <1>1, <2>1, <2>2, Powers
<1>. QED
  BY <1>2, <1>4, <1>5, <1>6
  DEF Decimal!RoundBank, Decimal!Round, Decimal!RoundFloor, Decimal!RoundCeil,
      Decimal!Rescale

(* What the roundings of the library make of the decimal, on its grid.     *)
LEMMA RoundBankResult ==
  ASSUME NEW d \in Decimal!Decimal, NEW places \in Int
  PROVE  LET n == OnGrid(d, places)
             u == UnitOnGrid(d, places)
         IN  \E q \in Int :
               /\ Decimal!RoundBank(d, places) = Decimal!Dec(q, -places)
               /\ 2 * n - u <= 2 * (q * u) /\ 2 * (q * u) <= 2 * n + u
               /\ 2 * (q * u) \in {2 * n - u, 2 * n + u} => q % 2 = 0
<1>. PICK n : n = OnGrid(d, places)
  OBVIOUS
<1>. PICK u : u = UnitOnGrid(d, places)
  OBVIOUS
<1>1. n \in Int /\ u \in Nat \ {0}
  BY GridType
<1>2. CASE -places <= d.exp
  <2>1. Decimal!RoundBank(d, places) = Decimal!Dec(n, -places) /\ u = 1
    BY <1>2, ExactRescale
  <2>2. n * u = n
    BY <1>1, <2>1
  <2>. QED
    BY <1>1, <2>1, <2>2
<1>3. CASE ~(-places <= d.exp)
  <2>. PICK q : q = Decimal!HalfEven(n, u)
    OBVIOUS
  <2>1. d.exp < -places
    BY <1>3 DEF Decimal!Decimal
  <2>2. Decimal!RoundBank(d, places) = Decimal!Dec(q, -places)
    BY <2>1, CutRescale
  <2>. QED
    BY <1>1, <2>2, HalfEvenResult
<1>. QED
  BY <1>2, <1>3

(* Round: a tie goes away from zero. *)
LEMMA RoundResult ==
  ASSUME NEW d \in Decimal!Decimal, NEW places \in Int
  PROVE  LET n == OnGrid(d, places)
             u == UnitOnGrid(d, places)
         IN  \E q \in Int :
               /\ Decimal!Round(d, places) = Decimal!Dec(q, -places)
               /\ n >= 0 => /\ 0 <= q * u
                            /\ 2 * n - u < 2 * (q * u) /\ 2 * (q * u) <= 2 * n + u
               /\ n < 0  => /\ q * u <= 0
                            /\ 2 * n - u <= 2 * (q * u) /\ 2 * (q * u) < 2 * n + u
<1>. PICK n : n = OnGrid(d, places)
  OBVIOUS
<1>. PICK u : u = UnitOnGrid(d, places)
  OBVIOUS
<1>1. n \in Int /\ u \in Nat \ {0}
  BY GridType
<1>2. CASE -places <= d.exp
  <2>1. Decimal!Round(d, places) = Decimal!Dec(n, -places) /\ u = 1
    BY <1>2, ExactRescale
  <2>2. n * u = n
    BY <1>1, <2>1
  <2>. QED
    BY <1>1, <2>1, <2>2
<1>3. CASE ~(-places <= d.exp)
  <2>. PICK q : q = Decimal!HalfAway(n, u)
    OBVIOUS
  <2>1. d.exp < -places
    BY <1>3 DEF Decimal!Decimal
  <2>2. Decimal!Round(d, places) = Decimal!Dec(q, -places)
    BY <2>1, CutRescale
  <2>. QED
    BY <1>1, <2>2, HalfAwayResult
<1>. QED
  BY <1>2, <1>3

(* The directed modes stay on their side, within one unit. *)
LEMMA RoundFloorResult ==
  ASSUME NEW d \in Decimal!Decimal, NEW places \in Int
  PROVE  LET n == OnGrid(d, places)
             u == UnitOnGrid(d, places)
         IN  \E q \in Int :
               /\ Decimal!RoundFloor(d, places) = Decimal!Dec(q, -places)
               /\ q * u <= n /\ n < q * u + u
<1>. PICK n : n = OnGrid(d, places)
  OBVIOUS
<1>. PICK u : u = UnitOnGrid(d, places)
  OBVIOUS
<1>1. n \in Int /\ u \in Nat \ {0}
  BY GridType
<1>2. CASE -places <= d.exp
  <2>1. Decimal!RoundFloor(d, places) = Decimal!Dec(n, -places) /\ u = 1
    BY <1>2, ExactRescale
  <2>2. n * u = n
    BY <1>1, <2>1
  <2>. QED
    BY <1>1, <2>1, <2>2
<1>3. CASE ~(-places <= d.exp)
  <2>. PICK q : q = Decimal!Floor(n, u)
    OBVIOUS
  <2>1. d.exp < -places
    BY <1>3 DEF Decimal!Decimal
  <2>2. Decimal!RoundFloor(d, places) = Decimal!Dec(q, -places)
    BY <2>1, CutRescale
  <2>. QED
    BY <1>1, <2>2, FloorResult
<1>. QED
  BY <1>2, <1>3

LEMMA RoundCeilResult ==
  ASSUME NEW d \in Decimal!Decimal, NEW places \in Int
  PROVE  LET n == OnGrid(d, places)
             u == UnitOnGrid(d, places)
         IN  \E q \in Int :
               /\ Decimal!RoundCeil(d, places) = Decimal!Dec(q, -places)
               /\ n <= q * u /\ q * u < n + u
<1>. PICK n : n = OnGrid(d, places)
  OBVIOUS
<1>. PICK u : u = UnitOnGrid(d, places)
  OBVIOUS
<1>1. n \in Int /\ u \in Nat \ {0}
  BY GridType
<1>2. CASE -places <= d.exp
  <2>1. Decimal!RoundCeil(d, places) = Decimal!Dec(n, -places) /\ u = 1
    BY <1>2, ExactRescale
  <2>2. n * u = n
    BY <1>1, <2>1
  <2>. QED
    BY <1>1, <2>1, <2>2
<1>3. CASE ~(-places <= d.exp)
  <2>. PICK q : q = Decimal!Ceiling(n, u)
    OBVIOUS
  <2>1. d.exp < -places
    BY <1>3 DEF Decimal!Decimal
  <2>2. Decimal!RoundCeil(d, places) = Decimal!Dec(q, -places)
    BY <2>1, CutRescale
  <2>. QED
    BY <1>1, <2>2, CeilingResult
<1>. QED
  BY <1>2, <1>3

(* roundHalfDown: a tie is the digit 5 alone, left between the decimal and *)
(* what is truncated of it, and stays with what is truncated; the library  *)
(* never sees a tie.                                                       *)
LEMMA HalfDownResult ==
  ASSUME NEW d \in Decimal!Decimal, NEW places \in Int
  PROVE  LET n == OnGrid(d, places)
             u == UnitOnGrid(d, places)
         IN  \E q \in Int :
               /\ roundHalfDown(d, places) = Decimal!Dec(q, -places)
               /\ n >= 0 => /\ 0 <= q * u
                            /\ 2 * n - u <= 2 * (q * u) /\ 2 * (q * u) < 2 * n + u
               /\ n < 0  => /\ q * u <= 0
                            /\ 2 * n - u < 2 * (q * u) /\ 2 * (q * u) <= 2 * n + u
<1>. PICK n : n = OnGrid(d, places)
  OBVIOUS
<1>. PICK u : u = UnitOnGrid(d, places)
  OBVIOUS
<1>1. n \in Int /\ u \in Nat \ {0}
  BY GridType
<1>2. d.coef \in Int /\ d.exp \in Int
  BY DEF Decimal!Decimal
<1>. PICK s : s = d.exp + places
  OBVIOUS
<1>3. s \in Int /\ Decimal!Shift(d, places) = [coef |-> d.coef, exp |-> s]
  BY <1>2 DEF Decimal!Shift, Decimal!Dec
<1>. PICK scaled : scaled = Decimal!Shift(d, places)
  OBVIOUS
<1>4. scaled \in Decimal!Decimal /\ scaled.coef = d.coef /\ scaled.exp = s
  BY <1>2, <1>3 DEF Decimal!Decimal
<1>5. HalfUnit \in Decimal!Decimal /\ HalfUnit.coef = 5 /\ HalfUnit.exp = -1
  BY DEF HalfUnit, Decimal!Dec, Decimal!Decimal
<1>. DEFINE truncated == Decimal!Truncate(scaled, 0)
            rest == Decimal!Abs(Decimal!Sub(scaled, truncated))
            tie == Decimal!Equal(rest, HalfUnit)
<1>6. roundHalfDown(d, places) = IF tie THEN Decimal!Shift(truncated, -places)
                                 ELSE Decimal!Round(d, places)
  BY DEF roundHalfDown
<1>7. PICK q \in Int :
        /\ Decimal!Round(d, places) = Decimal!Dec(q, -places)
        /\ n >= 0 => /\ 0 <= q * u
                     /\ 2 * n - u < 2 * (q * u) /\ 2 * (q * u) <= 2 * n + u
        /\ n < 0  => /\ q * u <= 0
                     /\ 2 * n - u <= 2 * (q * u) /\ 2 * (q * u) < 2 * n + u
  BY RoundResult
<1>. DEFINE down(x) ==
       /\ n >= 0 => 0 <= x /\ 2 * n - u <= 2 * x /\ 2 * x < 2 * n + u
       /\ n < 0  => x <= 0 /\ 2 * n - u < 2 * x /\ 2 * x <= 2 * n + u
<1>. SUFFICES \E p \in Int : /\ roundHalfDown(d, places) = Decimal!Dec(p, -places)
                              /\ down(p * u)
  OBVIOUS
<1>8. CASE -places <= d.exp
  <2>1. truncated = scaled
    BY <1>2, <1>4, <1>8 DEF Decimal!Truncate
  <2>2. /\ Decimal!Sub(scaled, scaled) \in Decimal!Decimal
        /\ Decimal!Sub(scaled, scaled).coef = 0
    <3>. PICK v : v = Decimal!At(scaled, s)
      OBVIOUS
    <3>1. v \in Int
      BY <1>3, <1>4, AtFiner
    <3>2. Decimal!Sub(scaled, scaled) = [coef |-> v - v, exp |-> s]
      BY <1>4 DEF Decimal!Sub, Decimal!Common, Decimal!Dec
    <3>. QED
      BY <1>3, <3>1, <3>2 DEF Decimal!Decimal
  <2>3. rest \in Decimal!Decimal /\ rest.coef = 0
    BY <2>1, <2>2 DEF Decimal!Abs, Decimal!Dec, Decimal!Decimal
  <2>. HIDE DEF rest
  <2>4. ~tie
    <3>. PICK c : c = Decimal!Common(rest, HalfUnit)
      OBVIOUS
    <3>1. c \in Int /\ c <= rest.exp /\ c <= -1
      BY <1>5, <2>3, CommonType
    <3>2. /\ rest.exp - c \in Nat /\ -1 - c \in Nat
          /\ Decimal!Pow10[rest.exp - c] \in Nat \ {0}
          /\ Decimal!Pow10[-1 - c] \in Nat \ {0}
      BY <2>3, <3>1, Powers DEF Decimal!Decimal
    <3>3. Decimal!At(rest, c) = 0 /\ Decimal!At(HalfUnit, c) # 0
      BY <1>5, <2>3, <3>2 DEF Decimal!At
    <3>. QED
      BY <3>3 DEF Decimal!Equal
  <2>5. u = 1
    BY <1>8, ExactRescale
  <2>6. roundHalfDown(d, places) = Decimal!Dec(q, -places)
    BY <1>6, <1>7, <2>4
  <2>7. down(q * u)
    BY <1>1, <1>7, <2>5
  <2>. QED
    BY <2>6, <2>7
<1>9. CASE d.exp < -places
  <2>. PICK k : k = -places - d.exp
    OBVIOUS
  <2>1. /\ n = d.coef /\ u = Decimal!Pow10[k] /\ u = 10 * Decimal!Pow10[k - 1]
    BY <1>9, CutRescale
  <2>2. k = -s /\ k = 0 - s /\ k - 1 = -1 - s /\ k - 1 \in Nat /\ s < -1 + 1 /\ s <= -1
    BY <1>2, <1>9
  <2>3. PICK half \in Nat \ {0} : half = 5 * Decimal!Pow10[k - 1]
    BY <2>2, Powers
  <2>4. u = 2 * half
    BY <2>1, <2>2, <2>3, Powers
  <2>. PICK t : t = Decimal!TowardZero(n, u)
    OBVIOUS
  <2>5. /\ t \in Int
        /\ n >= 0 => 0 <= t * u /\ t * u <= n /\ n < t * u + u
        /\ n < 0  => n <= t * u /\ t * u < n + u /\ t * u <= 0
    BY <1>1, TowardZeroResult
  <2>6. truncated = [coef |-> t, exp |-> 0]
    <3>1. PICK zero : zero = -0
      OBVIOUS
    <3>2. zero = 0 /\ zero - s = k /\ ~(s >= zero)
      <4>1. s \in Int /\ s <= -1 /\ 0 - s = k
        BY <1>3, <2>2
      <4>2. zero \in Int /\ zero + 0 = 0
        BY <3>1
      <4>. QED
        BY <4>1, <4>2
    <3>3. truncated = Decimal!Dec(Decimal!TowardZero(n, Decimal!Pow10[zero - s]), zero)
      BY <1>4, <2>1, <3>1, <3>2 DEF Decimal!Truncate, Decimal!Rescale
    <3>. QED
      BY <2>1, <3>2, <3>3 DEF Decimal!Dec
  <2>7. Decimal!Sub(scaled, truncated) = [coef |-> n - t * u, exp |-> s]
    <3>1. Decimal!Common(scaled, truncated) = s
      BY <1>4, <2>2, <2>6 DEF Decimal!Common
    <3>2. s - s = 0 /\ 0 - s = k
      BY <1>3, <2>2
    <3>3. Decimal!At(scaled, s) = n
      BY <1>1, <1>4, <2>1, <3>2, Powers DEF Decimal!At
    <3>4. Decimal!At(truncated, s) = t * u
      <4>1. truncated.coef = t /\ truncated.exp = 0
        BY <2>6
      <4>. HIDE DEF truncated
      <4>2. Decimal!At(truncated, s) = t * Decimal!Pow10[0 - s]
        BY <4>1 DEF Decimal!At
      <4>. QED
        BY <2>1, <3>2, <4>2
    <3>. QED
      BY <3>1, <3>3, <3>4 DEF Decimal!Sub, Decimal!Dec
  <2>. PICK gap : gap = n - t * u
    OBVIOUS
  <2>8. gap \in Int
    BY <1>1, <2>5
  <2>9. /\ rest \in Decimal!Decimal /\ rest.exp = s
        /\ rest.coef = IF gap < 0 THEN -gap ELSE gap
    BY <1>3, <2>7, <2>8 DEF Decimal!Abs, Decimal!Dec, Decimal!Decimal
  <2>. HIDE DEF rest
  <2>10. tie <=> rest.coef = half
    <3>1. Decimal!At(rest, s) = rest.coef
      <4>1. s - s = 0
        BY <1>3
      <4>. QED
        BY <2>8, <2>9, <4>1, Powers DEF Decimal!At
    <3>2. Decimal!At(HalfUnit, s) = half
      BY <1>5, <2>2, <2>3 DEF Decimal!At
    <3>. QED
      BY <1>3, <1>5, <2>2, <2>9, <3>1, <3>2, CompareAt
  <2>11. Decimal!Shift(truncated, -places) = Decimal!Dec(t, -places)
    BY <2>6 DEF Decimal!Shift, Decimal!Dec
  <2>. HIDE DEF tie, truncated
  <2>12. CASE tie
    <3>1. roundHalfDown(d, places) = Decimal!Dec(t, -places)
      BY <1>6, <2>11, <2>12
    <3>2. gap = half \/ gap = -half
      BY <2>8, <2>9, <2>10, <2>12
    <3>3. PICK y \in Int : y = t * u
      BY <1>1, <2>5
    <3>4. /\ n >= 0 => 0 <= y /\ y <= n /\ n < y + u
          /\ n < 0  => n <= y /\ y < n + u /\ y <= 0
      BY <2>5, <3>3
    <3>5. gap = n - y
      BY <3>3
    <3>6. down(y)
      BY <1>1, <2>3, <2>4, <3>2, <3>4, <3>5
    <3>. QED
      BY <2>5, <3>1, <3>3, <3>6
  <2>13. CASE ~tie
    <3>1. roundHalfDown(d, places) = Decimal!Dec(q, -places)
      BY <1>6, <1>7, <2>13
    <3>2. gap # half /\ gap # -half
      BY <2>8, <2>9, <2>10, <2>13
    <3>3. PICK x \in Int : x = q * u
      BY <1>1
    <3>4. PICK y \in Int : y = t * u
      BY <1>1, <2>5
    <3>5. PICK z \in Int : z = q - t
      BY <2>5
    <3>6. x - y = z * u
      BY <1>1, <2>5, <3>3, <3>4, <3>5
    <3>7. \/ x - y <= -(2 * u) \/ x - y = -u \/ x - y = 0
          \/ x - y = u \/ x - y >= 2 * u
      <4>1. /\ z <= -2 => z * u <= -(2 * u)
            /\ z = -1 => z * u = -u
            /\ z = 0 => z * u = 0
            /\ z = 1 => z * u = u
            /\ z >= 2 => z * u >= 2 * u
        BY <1>1
      <4>. QED
        BY <3>6, <4>1
    <3>8. gap = n - y
      BY <3>4
    <3>9. down(x)
      <4>1. /\ n >= 0 => 0 <= x /\ 2 * n - u < 2 * x /\ 2 * x <= 2 * n + u
            /\ n < 0  => x <= 0 /\ 2 * n - u <= 2 * x /\ 2 * x < 2 * n + u
        BY <1>7, <3>3
      <4>2. /\ n >= 0 => 0 <= y /\ y <= n /\ n < y + u
            /\ n < 0  => n <= y /\ y < n + u /\ y <= 0
        BY <2>5, <3>4
      <4>3. n >= 0 => 2 * x # 2 * n + u
        BY <1>1, <2>3, <2>4, <3>2, <3>7, <3>8, <4>1, <4>2
      <4>4. n < 0 => 2 * x # 2 * n - u
        BY <1>1, <2>3, <2>4, <3>2, <3>7, <3>8, <4>1, <4>2
      <4>. QED
        BY <1>1, <4>1, <4>3, <4>4
    <3>. QED
      BY <3>1, <3>3, <3>9
  <2>. QED
    BY <2>12, <2>13
<1>. QED
  BY <1>2, <1>8, <1>9

(* How a number of units compares with the decimal it was rounded from. *)
LEMMA Measured ==
  ASSUME NEW d \in Decimal!Decimal, NEW places \in Int, NEW q \in Int
  PROVE  LET n      == OnGrid(d, places)
             u      == UnitOnGrid(d, places)
             r      == Decimal!Dec(q, -places)
             error  == Decimal!Sub(r, d)
             double == Decimal!Mul(Decimal!Dec(2, 0), Decimal!Abs(error))
         IN  /\ Decimal!At(r, -places) = q
             /\ Decimal!IsZero(r) <=> q = 0
             /\ Decimal!Equal(d, r) <=> n = q * u
             /\ Decimal!IsZero(error) <=> q * u = n
             /\ Decimal!Positive(error) <=> q * u > n
             /\ Decimal!IsNegative(error) <=> q * u < n
             /\ Decimal!GreaterThan(Unit(places), Decimal!Abs(error)) <=> u > abs(q * u - n)
             /\ Decimal!GreaterThan(double, Unit(places)) <=> 2 * abs(q * u - n) > u
             /\ Decimal!Equal(double, Unit(places)) <=> 2 * abs(q * u - n) = u
             /\ Decimal!GreaterThan(Decimal!Abs(r), Decimal!Abs(d)) <=> abs(q * u) > abs(n)
             /\ Decimal!GreaterThan(Decimal!Mul(Decimal!Dec(2, 0), Decimal!Abs(d)), Unit(places))
                  <=> 2 * abs(n) > u
<1>. DEFINE n      == OnGrid(d, places)
            u      == UnitOnGrid(d, places)
            r      == Decimal!Dec(q, -places)
            g      == Grid(d, places)
            error  == Decimal!Sub(r, d)
            double == Decimal!Mul(Decimal!Dec(2, 0), Decimal!Abs(error))
            twice  == Decimal!Mul(Decimal!Dec(2, 0), Decimal!Abs(d))
<1>1. /\ g \in Int /\ g <= d.exp /\ g <= -places
      /\ Unit(places) \in Decimal!Decimal /\ Unit(places).exp = -places
      /\ r \in Decimal!Decimal /\ r.exp = -places
      /\ Decimal!At(r, g) = q * u /\ Decimal!At(d, g) = n /\ Decimal!At(Unit(places), g) = u
  BY GridType DEF OnGrid, UnitOnGrid
<1>2. Decimal!At(r, -places) = q /\ (Decimal!IsZero(r) <=> q = 0)
  <2>1. -places - (-places) = 0
    OBVIOUS
  <2>2. Decimal!At(r, -places) = q * 1
    BY <2>1, Powers DEF Decimal!At, Decimal!Dec
  <2>. QED
    BY <2>2 DEF Decimal!IsZero, Decimal!Dec
<1>. HIDE DEF r, g, n, u
<1>3. Decimal!Equal(d, r) <=> n = q * u
  BY <1>1, CompareAt
<1>4. /\ error \in Decimal!Decimal /\ g <= error.exp
      /\ Decimal!At(error, g) = q * u - n
  BY <1>1, SumAt
<1>. HIDE DEF error
<1>5. n \in Int /\ u \in Nat \ {0}
  BY GridType DEF n, u
<1>6. /\ Decimal!IsZero(error) <=> q * u - n = 0
      /\ Decimal!Positive(error) <=> q * u - n > 0
      /\ Decimal!IsNegative(error) <=> q * u - n < 0
  BY <1>1, <1>4, AbsAt
<1>7. /\ Decimal!Abs(error) \in Decimal!Decimal /\ g <= Decimal!Abs(error).exp
      /\ Decimal!At(Decimal!Abs(error), g) = abs(q * u - n)
      /\ Decimal!Abs(r) \in Decimal!Decimal /\ g <= Decimal!Abs(r).exp
      /\ Decimal!At(Decimal!Abs(r), g) = abs(q * u)
      /\ Decimal!Abs(d) \in Decimal!Decimal /\ g <= Decimal!Abs(d).exp
      /\ Decimal!At(Decimal!Abs(d), g) = abs(n)
  BY <1>1, <1>4, AbsAt
<1>8. /\ double \in Decimal!Decimal /\ g <= double.exp
      /\ Decimal!At(double, g) = 2 * abs(q * u - n)
      /\ twice \in Decimal!Decimal /\ g <= twice.exp
      /\ Decimal!At(twice, g) = 2 * abs(n)
  BY <1>1, <1>7, DoubleAt
<1>. HIDE DEF double, twice
<1>9. /\ Decimal!GreaterThan(Unit(places), Decimal!Abs(error)) <=> u > abs(q * u - n)
      /\ Decimal!GreaterThan(double, Unit(places)) <=> 2 * abs(q * u - n) > u
      /\ Decimal!Equal(double, Unit(places)) <=> 2 * abs(q * u - n) = u
      /\ Decimal!GreaterThan(Decimal!Abs(r), Decimal!Abs(d)) <=> abs(q * u) > abs(n)
      /\ Decimal!GreaterThan(twice, Unit(places)) <=> 2 * abs(n) > u
  BY <1>1, <1>7, <1>8, CompareAt
<1>10. /\ q * u - n = 0 <=> q * u = n
       /\ q * u - n > 0 <=> q * u > n
       /\ q * u - n < 0 <=> q * u < n
  BY <1>5
<1>. QED
  BY <1>2, <1>3, <1>6, <1>9, <1>10 DEF r, n, u, error, double, twice
-------------------------------------------------------------------------------

(* The position firstError chooses: a failure, with none before it. *)
LEMMA FirstFailure ==
  ASSUME NEW checks \in Seq(ValidationError),
         NEW failing, failing = {i \in DOMAIN checks : checks[i] # NoError},
         failing # {}
  PROVE  \E i \in failing : \A j \in failing : i <= j
<1>1. failing \subseteq Nat
  OBVIOUS
<1>2. PICK i \in failing : \A j \in failing : <<j, i>> \notin OpToRel(<, Nat)
  BY <1>1, WFMin, NatLessThanWellFounded, Zenon
<1>3. \A j \in failing : ~(j < i)
  BY <1>1, <1>2 DEF OpToRel
<1>. QED
  BY <1>1, <1>3

(* A nil error has the type of an error, and so has every error made of a *)
(* sentinel, whether it is raised, raised at an entry, or passed on.       *)
LEMMA NoErrorType == NoError \in ValidationError
BY DEF ValidationError

LEMMA NewErrorType ==
  ASSUME NEW code \in Sentinels, NEW field \in Fields, NEW cause \in SUBSET Causes
  PROVE  /\ NewValidationError(code, field, cause) \in ValidationError
         /\ NewValidationError(code, field, cause) # NoError
<1>1. code # "nil"
  BY DEF Sentinels
<1>2. -1 \in Int
  OBVIOUS
<1>. QED
  BY <1>1, <1>2, Zenon DEF NewValidationError, ValidationError, NoError

LEMMA NewEntryErrorType ==
  ASSUME NEW code \in Sentinels, NEW i \in Int, NEW field \in Fields,
         NEW cause \in SUBSET Causes
  PROVE  /\ NewEntryValidationError(code, i, field, cause) \in ValidationError
         /\ NewEntryValidationError(code, i, field, cause) # NoError
<1>1. code # "nil"
  BY DEF Sentinels
<1>. QED
  BY <1>1 DEF NewEntryValidationError, ValidationError, NoError

(* A wrapped error is an error, and it is nil only if what it wraps is.    *)
LEMMA RewrapType ==
  ASSUME NEW err \in ValidationError, NEW field \in Fields
  PROVE  /\ rewrapValidationError(err, field) \in ValidationError
         /\ rewrapValidationError(err, field) = NoError <=> err = NoError
<1>1. CASE err = NoError
  BY <1>1, NoErrorType DEF rewrapValidationError
<1>2. CASE err # NoError
  <2>1. err.code \in Sentinels /\ err.cause \in SUBSET Causes
    BY <1>2 DEF ValidationError
  <2>. QED
    BY <1>2, <2>1, NewErrorType DEF rewrapValidationError
<1>. QED
  BY <1>1, <1>2

LEMMA RewrapEntryType ==
  ASSUME NEW err \in ValidationError, NEW i \in Int
  PROVE  /\ rewrapEntryValidationError(err, i) \in ValidationError
         /\ rewrapEntryValidationError(err, i) = NoError <=> err = NoError
<1>1. CASE err = NoError
  BY <1>1, NoErrorType DEF rewrapEntryValidationError
<1>2. CASE err # NoError
  <2>1. err.code \in Sentinels /\ err.field \in Fields /\ err.cause \in SUBSET Causes
    BY <1>2 DEF ValidationError
  <2>. QED
    BY <1>2, <2>1, NewEntryErrorType DEF rewrapEntryValidationError
<1>. QED
  BY <1>1, <1>2

(* The outcome of a sequence of checks is one of them, or nil. *)
LEMMA FirstErrorType ==
  ASSUME NEW checks \in Seq(ValidationError)
  PROVE  /\ firstError[checks] \in ValidationError
         /\ firstError[checks] = NoError
              \/ \E i \in DOMAIN checks : firstError[checks] = checks[i]
<1>. DEFINE failing == {i \in DOMAIN checks : checks[i] # NoError}
<1>1. CASE failing = {}
  BY <1>1, NoErrorType DEF firstError
<1>2. CASE failing # {}
  <2>1. \E i \in failing : \A j \in failing : i <= j
    BY <1>2, FirstFailure
  <2>2. firstError[checks] = checks[CHOOSE i \in failing : \A j \in failing : i <= j]
    BY <1>2 DEF firstError
  <2>. QED
    BY <2>1, <2>2
<1>. QED
  BY <1>1, <1>2

(* When the first check fails, it is the outcome. *)
LEMMA FirstFails ==
  ASSUME NEW checks \in Seq(ValidationError), checks # <<>>, checks[1] # NoError
  PROVE  firstError[checks] = checks[1]
<1>. DEFINE failing == {i \in DOMAIN checks : checks[i] # NoError}
<1>1. 1 \in failing /\ \A i \in failing : 1 <= i
  OBVIOUS
<1>2. firstError[checks] = checks[CHOOSE i \in failing : \A j \in failing : i <= j]
  BY <1>1 DEF firstError
<1>3. \A i \in failing : i \in Nat
  OBVIOUS
<1>. HIDE DEF failing
<1>4. \A i \in failing : (\A j \in failing : i <= j) => i = 1
  BY <1>1, <1>3
<1>. QED
  BY <1>1, <1>2, <1>4

(* The outcome is nil exactly when every check succeeds. *)
LEMMA FirstErrorNone ==
  ASSUME NEW checks \in Seq(ValidationError)
  PROVE  firstError[checks] = NoError <=> \A i \in DOMAIN checks : checks[i] = NoError
<1>. DEFINE failing == {i \in DOMAIN checks : checks[i] # NoError}
<1>1. CASE failing = {}
  BY <1>1 DEF firstError
<1>2. CASE failing # {}
  <2>1. \E i \in failing : \A j \in failing : i <= j
    BY <1>2, FirstFailure
  <2>2. firstError[checks] = checks[CHOOSE i \in failing : \A j \in failing : i <= j]
    BY <1>2 DEF firstError
  <2>. QED
    BY <1>2, <2>1, <2>2
<1>. QED
  BY <1>1, <1>2

(* The same for the chains of checks of the lengths the code has.          *)
LEMMA FirstOf2 ==
  ASSUME NEW e1 \in ValidationError, NEW e2 \in ValidationError
  PROVE  /\ firstError[<<e1, e2>>] \in ValidationError
         /\ firstError[<<e1, e2>>] \in {NoError, e1, e2}
         /\ firstError[<<e1, e2>>] = NoError
                <=> e1 = NoError /\ e2 = NoError
<1>. DEFINE checks == <<e1, e2>>
<1>1. checks \in Seq(ValidationError) /\ DOMAIN checks = 1 .. 2
  OBVIOUS
<1>2. checks[1] = e1 /\ checks[2] = e2
  OBVIOUS
<1>. HIDE DEF checks
<1>3. /\ firstError[checks] \in ValidationError
      /\ firstError[checks] = NoError \/ \E i \in 1 .. 2 : firstError[checks] = checks[i]
  BY <1>1, FirstErrorType
<1>4. firstError[checks] = NoError <=> \A i \in 1 .. 2 : checks[i] = NoError
  BY <1>1, FirstErrorNone
<1>5. (\A i \in 1 .. 2 : checks[i] = NoError)
                <=> e1 = NoError /\ e2 = NoError
  BY <1>2
<1>6. firstError[checks] \in {NoError, e1, e2}
  BY <1>2, <1>3
<1>. QED
  BY <1>3, <1>4, <1>5, <1>6 DEF checks

LEMMA FirstOf3 ==
  ASSUME NEW e1 \in ValidationError, NEW e2 \in ValidationError,
         NEW e3 \in ValidationError
  PROVE  /\ firstError[<<e1, e2, e3>>] \in ValidationError
         /\ firstError[<<e1, e2, e3>>] \in {NoError, e1, e2, e3}
         /\ firstError[<<e1, e2, e3>>] = NoError
                <=> e1 = NoError /\ e2 = NoError /\ e3 = NoError
<1>. DEFINE checks == <<e1, e2, e3>>
<1>1. checks \in Seq(ValidationError) /\ DOMAIN checks = 1 .. 3
  OBVIOUS
<1>2. checks[1] = e1 /\ checks[2] = e2 /\ checks[3] = e3
  OBVIOUS
<1>. HIDE DEF checks
<1>3. /\ firstError[checks] \in ValidationError
      /\ firstError[checks] = NoError \/ \E i \in 1 .. 3 : firstError[checks] = checks[i]
  BY <1>1, FirstErrorType
<1>4. firstError[checks] = NoError <=> \A i \in 1 .. 3 : checks[i] = NoError
  BY <1>1, FirstErrorNone
<1>5. (\A i \in 1 .. 3 : checks[i] = NoError)
                <=> e1 = NoError /\ e2 = NoError /\ e3 = NoError
  BY <1>2
<1>6. firstError[checks] \in {NoError, e1, e2, e3}
  BY <1>2, <1>3
<1>. QED
  BY <1>3, <1>4, <1>5, <1>6 DEF checks

LEMMA FirstOf4 ==
  ASSUME NEW e1 \in ValidationError, NEW e2 \in ValidationError,
         NEW e3 \in ValidationError, NEW e4 \in ValidationError
  PROVE  /\ firstError[<<e1, e2, e3, e4>>] \in ValidationError
         /\ firstError[<<e1, e2, e3, e4>>] \in {NoError, e1, e2, e3, e4}
         /\ firstError[<<e1, e2, e3, e4>>] = NoError
                <=> e1 = NoError /\ e2 = NoError /\ e3 = NoError /\
                    e4 = NoError
<1>. DEFINE checks == <<e1, e2, e3, e4>>
<1>1. checks \in Seq(ValidationError) /\ DOMAIN checks = 1 .. 4
  OBVIOUS
<1>2. checks[1] = e1 /\ checks[2] = e2 /\ checks[3] = e3 /\ checks[4] = e4
  OBVIOUS
<1>. HIDE DEF checks
<1>3. /\ firstError[checks] \in ValidationError
      /\ firstError[checks] = NoError \/ \E i \in 1 .. 4 : firstError[checks] = checks[i]
  BY <1>1, FirstErrorType
<1>4. firstError[checks] = NoError <=> \A i \in 1 .. 4 : checks[i] = NoError
  BY <1>1, FirstErrorNone
<1>5. (\A i \in 1 .. 4 : checks[i] = NoError)
                <=> e1 = NoError /\ e2 = NoError /\ e3 = NoError /\
                    e4 = NoError
  BY <1>2
<1>6. firstError[checks] \in {NoError, e1, e2, e3, e4}
  BY <1>2, <1>3
<1>. QED
  BY <1>3, <1>4, <1>5, <1>6 DEF checks

LEMMA FirstFailing4 ==
  ASSUME NEW e1 \in ValidationError, NEW e2 \in ValidationError,
         NEW e3 \in ValidationError, NEW e4 \in ValidationError
  PROVE  firstError[<<e1, e2, e3, e4>>] =
           IF e1 # NoError THEN e1 ELSE IF e2 # NoError THEN e2
           ELSE IF e3 # NoError THEN e3 ELSE e4
<1>. DEFINE checks == <<e1, e2, e3, e4>>
            failing == {i \in DOMAIN checks : checks[i] # NoError}
<1>1. checks \in Seq(ValidationError) /\ DOMAIN checks = 1 .. 4
  OBVIOUS
<1>2. checks[1] = e1 /\ checks[2] = e2 /\ checks[3] = e3 /\ checks[4] = e4
  OBVIOUS
<1>. HIDE DEF checks
<1>3. ASSUME NEW i \in 1 .. 4, checks[i] # NoError,
             \A j \in 1 .. 4 : j < i => checks[j] = NoError
      PROVE  firstError[checks] = checks[i]
  <2>1. i \in failing /\ \A j \in failing : i <= j
    BY <1>1, <1>3
  <2>2. firstError[checks] = checks[CHOOSE k \in failing : \A j \in failing : k <= j]
    BY <1>1, <2>1 DEF firstError
  <2>3. \A k \in failing : (\A j \in failing : k <= j) => k = i
    <3>1. failing \subseteq Int
      BY <1>1
    <3>. HIDE DEF failing
    <3>. QED
      BY <1>3, <2>1, <3>1
  <2>. HIDE DEF failing
  <2>. QED
    BY <2>1, <2>2, <2>3
<1>4. CASE e1 # NoError
  BY <1>2, <1>3, <1>4 DEF checks
<1>5. CASE e1 = NoError /\ e2 # NoError
  BY <1>2, <1>3, <1>5 DEF checks
<1>6. CASE e1 = NoError /\ e2 = NoError /\ e3 # NoError
  BY <1>2, <1>3, <1>6 DEF checks
<1>7. CASE e1 = NoError /\ e2 = NoError /\ e3 = NoError /\ e4 # NoError
  BY <1>2, <1>3, <1>7 DEF checks
<1>8. CASE e1 = NoError /\ e2 = NoError /\ e3 = NoError /\ e4 = NoError
  BY <1>8, FirstOf4
<1>. QED
  BY <1>4, <1>5, <1>6, <1>7, <1>8

LEMMA FirstOf6 ==
  ASSUME NEW e1 \in ValidationError, NEW e2 \in ValidationError,
         NEW e3 \in ValidationError, NEW e4 \in ValidationError,
         NEW e5 \in ValidationError, NEW e6 \in ValidationError
  PROVE  /\ firstError[<<e1, e2, e3, e4, e5, e6>>] \in ValidationError
         /\ firstError[<<e1, e2, e3, e4, e5, e6>>] \in {NoError, e1, e2, e3, e4, e5, e6}
         /\ firstError[<<e1, e2, e3, e4, e5, e6>>] = NoError
                <=> e1 = NoError /\ e2 = NoError /\ e3 = NoError /\
                    e4 = NoError /\ e5 = NoError /\ e6 = NoError
<1>. DEFINE checks == <<e1, e2, e3, e4, e5, e6>>
<1>1. checks \in Seq(ValidationError) /\ DOMAIN checks = 1 .. 6
  OBVIOUS
<1>2. /\ checks[1] = e1
      /\ checks[2] = e2
      /\ checks[3] = e3
      /\ checks[4] = e4
      /\ checks[5] = e5
      /\ checks[6] = e6
  OBVIOUS
<1>. HIDE DEF checks
<1>3. /\ firstError[checks] \in ValidationError
      /\ firstError[checks] = NoError \/ \E i \in 1 .. 6 : firstError[checks] = checks[i]
  BY <1>1, FirstErrorType
<1>4. firstError[checks] = NoError <=> \A i \in 1 .. 6 : checks[i] = NoError
  BY <1>1, FirstErrorNone
<1>5. (\A i \in 1 .. 6 : checks[i] = NoError)
                <=> e1 = NoError /\ e2 = NoError /\ e3 = NoError /\
                    e4 = NoError /\ e5 = NoError /\ e6 = NoError
  BY <1>2
<1>6. firstError[checks] \in {NoError, e1, e2, e3, e4, e5, e6}
  BY <1>2, <1>3
<1>. QED
  BY <1>3, <1>4, <1>5, <1>6 DEF checks

(***************************************************************************)
(* The registry and the configuration.                                     *)
(***************************************************************************)
(* A failed lookup is reported by a sentinel. *)
LEMMA RatableType ==
  ASSUME NEW code, ratableCurrency(code) # "nil"
  PROVE  /\ ratableCurrency(code) \in Sentinels
         /\ {ratableCurrency(code)} \in SUBSET Causes
<1>1. ratableCurrency(code) \in Sentinels
  BY DEF ratableCurrency, lookup, Sentinels
<1>. QED
  BY <1>1 DEF Causes

(* The configuration check fails with an error, or the configuration is one *)
(* a ledger may have.                                                       *)
LEMMA ValidateConfigResult ==
  ASSUME NEW config
  PROVE  /\ validateConfig(config) \in ValidationError
         /\ validateConfig(config) = NoError <=>
              /\ ratableCurrency(config.functionalCurrency) = "nil"
              /\ ~Decimal!IsNegative(config.rateTolerance)
<1>. DEFINE currency == ratableCurrency(config.functionalCurrency) # "nil"
            negative == Decimal!IsNegative(config.rateTolerance)
            err1 == NewValidationError("ErrInvalidConfiguration", "functionalCurrency",
                                       {ratableCurrency(config.functionalCurrency)})
            err2 == NewValidationError("ErrInvalidConfiguration", "rateTolerance", {})
<1>1. currency => err1 \in ValidationError /\ err1 # NoError
  BY NewErrorType, RatableType DEF Sentinels, Fields
<1>2. err2 \in ValidationError /\ err2 # NoError
  BY NewErrorType DEF Sentinels, Fields
<1>. HIDE DEF currency, negative, err1, err2
<1>3. /\ failIf(currency, err1) \in ValidationError
      /\ failIf(currency, err1) = NoError <=> ~currency
      /\ failIf(negative, err2) \in ValidationError
      /\ failIf(negative, err2) = NoError <=> ~negative
  BY <1>1, <1>2, NoErrorType DEF failIf
<1>4. validateConfig(config) = firstError[<<failIf(currency, err1), failIf(negative, err2)>>]
  BY DEF validateConfig, currency, negative, err1, err2
<1>. QED
  BY <1>3, <1>4, FirstOf2 DEF currency, negative

(* The fields of the transaction. *)
LEMMA TransactionFieldsResult ==
  ASSUME NEW b
  PROVE  /\ validateTransactionFields(b) \in ValidationError
         /\ validateTransactionFields(b) = NoError <=>
              /\ Bounded(b.id, 255)
              /\ b.effectiveDate.at # 0
              /\ b.entries # <<>>
              /\ \A key \in b.metadata : Bounded(key, 64)
<1>. DEFINE err1 == NewValidationError("ErrInvalidTransactionID", "id", {})
            err2 == NewValidationError("ErrInvalidEffectiveDate", "effectiveDate", {})
            err3 == NewValidationError("ErrEmptyTransaction", "entries", {})
            err4 == NewValidationError("ErrInvalidMetadata", "metadata", {})
            bad  == \E key \in b.metadata : ~validMetadataKey(key)
            check1 == failIf(~validAccountID(b.id), err1)
            check2 == failIf(IsZeroTime(b.effectiveDate), err2)
            check3 == failIf(b.entries = <<>>, err3)
            check4 == failIf(bad, err4)
<1>1. /\ err1 \in ValidationError /\ err1 # NoError
      /\ err2 \in ValidationError /\ err2 # NoError
      /\ err3 \in ValidationError /\ err3 # NoError
      /\ err4 \in ValidationError /\ err4 # NoError
  BY NewErrorType DEF Sentinels, Fields
<1>. HIDE DEF err1, err2, err3, err4, bad
<1>2. /\ check1 \in ValidationError
      /\ check1 = NoError <=> validAccountID(b.id)
      /\ check2 \in ValidationError
      /\ check2 = NoError <=> ~IsZeroTime(b.effectiveDate)
      /\ check3 \in ValidationError
      /\ check3 = NoError <=> b.entries # <<>>
      /\ check4 \in ValidationError
      /\ check4 = NoError <=> ~bad
  BY <1>1, NoErrorType DEF failIf
<1>3. validateTransactionFields(b) = firstError[<<check1, check2, check3, check4>>]
  BY DEF validateTransactionFields, validateMetadataKeys, bad, err1, err2, err3, err4
<1>. HIDE DEF check1, check2, check3, check4
<1>4. /\ validateTransactionFields(b) \in ValidationError
      /\ validateTransactionFields(b) = NoError <=>
           check1 = NoError /\ check2 = NoError /\ check3 = NoError /\ check4 = NoError
  BY <1>2, <1>3, FirstOf4
<1>5. validAccountID(b.id) <=> Bounded(b.id, 255)
  BY DEF validAccountID, MaxAccountIDBytes, Bounded
<1>6. ~bad <=> \A key \in b.metadata : Bounded(key, 64)
  BY DEF bad, validMetadataKey, MaxMetadataKeyBytes, Bounded
<1>. QED
  BY <1>2, <1>4, <1>5, <1>6 DEF IsZeroTime

(***************************************************************************)
(* Entries.                                                                *)
(***************************************************************************)
LEMMA LookupResult ==
  ASSUME NEW code, NEW field \in Fields
  PROVE  /\ lookupRatableCurrency(code, field) \in ValidationError
         /\ lookupRatableCurrency(code, field) = NoError <=> ratableCurrency(code) = "nil"
<1>1. {} \in SUBSET Causes
  OBVIOUS
<1>. QED
  BY <1>1, NoErrorType, NewErrorType, RatableType DEF lookupRatableCurrency, failIf

(* What the checks shared by NewEntry and Validate ask. *)
FieldsHold(id, amount, tx, rate, functional) ==
  /\ validAccountID(id)
  /\ ratableCurrency(tx) = "nil" /\ ratableCurrency(functional) = "nil"
  /\ ~(amount.exp < -MinorUnits(tx))
  /\ ~Decimal!IsZero(amount)
  /\ Decimal!Positive(rate)
  /\ Code(tx) = Code(functional) => Decimal!Equal(rate, Decimal!One)

LEMMA EntryFieldsResult ==
  ASSUME NEW id, NEW amount, NEW tx, NEW rate, NEW functional
  PROVE  /\ validateEntryFields(id, amount, tx, rate, functional) \in ValidationError
         /\ validateEntryFields(id, amount, tx, rate, functional) = NoError
              <=> FieldsHold(id, amount, tx, rate, functional)
<1>. DEFINE err1 == NewValidationError("ErrInvalidAccountID", "accountID", {})
            err2 == NewValidationError("ErrInvalidPrecision", "txAmount", {})
            err3 == NewValidationError("ErrZeroAmount", "txAmount", {})
            err4 == NewValidationError("ErrInvalidExchangeRate", "exchangeRate", {})
            valid == validAccountID(id)
            long == amount.exp < -MinorUnits(tx)
            zero == Decimal!IsZero(amount)
            positive == Decimal!Positive(rate)
            unequal == Code(tx) = Code(functional) /\ ~Decimal!Equal(rate, Decimal!One)
            check1 == failIf(~valid, err1)
            check2 == lookupRatableCurrency(tx, "txCurrency")
            check3 == lookupRatableCurrency(functional, "functionalCurrency")
            check4 == failIf(long, err2)
            check5 == failIf(zero, err3)
            check6 == failIf(~positive, err4)
            check7 == failIf(unequal, err4)
            unidentified == firstError[<<check1, check2, check3>>]
            misvalued == firstError[<<check4, check5, check6, check7>>]
<1>1. /\ err1 \in ValidationError /\ err1 # NoError
      /\ err2 \in ValidationError /\ err2 # NoError
      /\ err3 \in ValidationError /\ err3 # NoError
      /\ err4 \in ValidationError /\ err4 # NoError
  BY NewErrorType DEF Sentinels, Fields
<1>. HIDE DEF err1, err2, err3, err4, valid, long, zero, positive, unequal
<1>2. /\ check1 \in ValidationError /\ (check1 = NoError <=> valid)
      /\ check4 \in ValidationError /\ (check4 = NoError <=> ~long)
      /\ check5 \in ValidationError /\ (check5 = NoError <=> ~zero)
      /\ check6 \in ValidationError /\ (check6 = NoError <=> positive)
      /\ check7 \in ValidationError /\ (check7 = NoError <=> ~unequal)
  BY <1>1, NoErrorType DEF failIf
<1>3. /\ check2 \in ValidationError
      /\ check2 = NoError <=> ratableCurrency(tx) = "nil"
      /\ check3 \in ValidationError
      /\ check3 = NoError <=> ratableCurrency(functional) = "nil"
  BY LookupResult DEF Fields
<1>4. validateEntryFields(id, amount, tx, rate, functional)
        = IF unidentified # NoError THEN unidentified ELSE misvalued
  BY DEF validateEntryFields, err1, err2, err3, err4, valid, long, zero, positive, unequal
<1>. HIDE DEF check1, check2, check3, check4, check5, check6, check7
<1>5. /\ unidentified \in ValidationError
      /\ unidentified = NoError <=> check1 = NoError /\ check2 = NoError /\ check3 = NoError
  BY <1>2, <1>3, FirstOf3
<1>6. /\ misvalued \in ValidationError
      /\ misvalued = NoError <=>
           check4 = NoError /\ check5 = NoError /\ check6 = NoError /\ check7 = NoError
  BY <1>2, FirstOf4
<1>. HIDE DEF unidentified, misvalued
<1>7. FieldsHold(id, amount, tx, rate, functional) <=>
        /\ valid /\ ~long /\ ~zero /\ positive /\ ~unequal
        /\ ratableCurrency(tx) = "nil" /\ ratableCurrency(functional) = "nil"
  BY DEF FieldsHold, valid, long, zero, positive, unequal
<1>. QED
  BY <1>2, <1>3, <1>4, <1>5, <1>6, <1>7

(* The canonical form of a ratable code is ratable and canonical.          *)
LEMMA CanonicalCode ==
  ASSUME NEW code, ratableCurrency(code) = "nil"
  PROVE  /\ code \in DOMAIN Upper
         /\ Code(code) \in DOMAIN Upper \cap DOMAIN Registry
         /\ Code(Code(code)) = Code(code)
         /\ Registry[Code(code)] # NotRatable
         /\ ratableCurrency(Code(code)) = "nil"
BY CurrencyAssumption DEF ratableCurrency, lookup, validCode, Code, Ratable

(* In a ratable currency the functional amount is the product, rounded to  *)
(* the minor units of the currency by banker's rounding.                   *)
LEMMA FunctionalAmount ==
  ASSUME NEW amount, NEW rate, NEW code, ratableCurrency(code) = "nil"
  PROVE  functionalAmountOf(amount, rate, code) =
           [err    |-> NoError,
            amount |-> Decimal!RoundBank(Decimal!Mul(amount, rate), Registry[Code(code)])]
<1>. DEFINE product == Decimal!Mul(amount, rate)
<1>1. ratableCurrency(Code(code)) = "nil" /\ MinorUnits(Code(code)) = Registry[Code(code)]
  BY CanonicalCode DEF MinorUnits
<1>2. roundError(product, Code(code), "RoundHalfEven") = NoError
  BY <1>1 DEF roundError, failIf, RoundingModes
<1>3. roundedTo(product, MinorUnits(Code(code)), "RoundHalfEven")
        = Decimal!RoundBank(product, MinorUnits(Code(code)))
  BY DEF roundedTo
<1>. QED
  BY <1>1, <1>2, <1>3 DEF functionalAmountOf, Round

(* What an entry stores agrees: its codes are canonical, and its two Money *)
(* values are its amounts.                                                 *)
StoredHold(e) ==
  /\ e.txCurrency = Code(e.txCurrency)
  /\ e.functionalCurrency = Code(e.functionalCurrency)
  /\ Decimal!Equal(e.txMoney.amount, e.txAmount)
  /\ e.txMoney.code = Code(e.txCurrency)
  /\ Decimal!Equal(e.functionalMoney.amount, e.functionalAmount)
  /\ e.functionalMoney.code = Code(e.functionalCurrency)

LEMMA StoredValuesResult ==
  ASSUME NEW e
  PROVE  /\ validateStoredValues(e) \in ValidationError
         /\ validateStoredValues(e) = NoError <=> StoredHold(e)
<1>. DEFINE err1 == NewValidationError("ErrInvalidEntry", "entry", {})
            err2 == NewValidationError("ErrInvalidEntry", "functionalAmount", {})
            spelled == \/ e.txCurrency # Code(e.txCurrency)
                       \/ e.functionalCurrency # Code(e.functionalCurrency)
            money1 == \/ ~Decimal!Equal(e.txMoney.amount, e.txAmount)
                      \/ e.txMoney.code # Code(e.txCurrency)
            money2 == \/ ~Decimal!Equal(e.functionalMoney.amount, e.functionalAmount)
                      \/ e.functionalMoney.code # Code(e.functionalCurrency)
            check1 == invalidEntry(spelled, "entry")
            check2 == invalidEntry(money1, "entry")
            check3 == invalidEntry(money2, "functionalAmount")
<1>1. /\ err1 \in ValidationError /\ err1 # NoError
      /\ err2 \in ValidationError /\ err2 # NoError
  BY NewErrorType DEF Sentinels, Fields
<1>. HIDE DEF spelled, money1, money2
<1>2. /\ check1 \in ValidationError /\ (check1 = NoError <=> ~spelled)
      /\ check2 \in ValidationError /\ (check2 = NoError <=> ~money1)
      /\ check3 \in ValidationError /\ (check3 = NoError <=> ~money2)
  BY <1>1, NoErrorType DEF failIf, invalidEntry
<1>3. validateStoredValues(e) = firstError[<<check1, check2, check3>>]
  BY DEF validateStoredValues, spelled, money1, money2
<1>. HIDE DEF check1, check2, check3
<1>4. StoredHold(e) <=> ~spelled /\ ~money1 /\ ~money2
  BY DEF StoredHold, spelled, money1, money2
<1>. QED
  BY <1>2, <1>3, <1>4, FirstOf3

(* What Validate asks of an entry: besides, it holds its value, which is    *)
(* the product of its amount and its rate, rounded, and not zero.           *)
ValueHolds(e) ==
  LET value == Decimal!RoundBank(Decimal!Mul(e.txAmount, e.exchangeRate),
                                 Registry[Code(e.functionalCurrency)])
  IN  ~Decimal!IsZero(value) /\ Decimal!Equal(e.functionalAmount, value)

EntryHolds(e) ==
  /\ e # ZeroEntry
  /\ FieldsHold(e.accountID, e.txAmount, e.txCurrency, e.exchangeRate, e.functionalCurrency)
  /\ ValueHolds(e)
  /\ StoredHold(e)

LEMMA ValidateResult ==
  ASSUME NEW e
  PROVE  /\ Validate(e) \in ValidationError
         /\ Validate(e) = NoError <=> EntryHolds(e)
<1>. DEFINE fields == validateEntryFields(e.accountID, e.txAmount, e.txCurrency,
                                          e.exchangeRate, e.functionalCurrency)
            hold == FieldsHold(e.accountID, e.txAmount, e.txCurrency,
                               e.exchangeRate, e.functionalCurrency)
            expected == functionalAmountOf(e.txAmount, e.exchangeRate, e.functionalCurrency)
            err1 == NewValidationError("ErrInvalidEntry", "entry", {})
            err2 == NewValidationError("ErrInvalidEntry", "functionalAmount", {})
            zero == Decimal!IsZero(expected.amount)
            wrong == ~Decimal!Equal(e.functionalAmount, expected.amount)
            check1 == rewrapValidationError(expected.err, "functionalAmount")
            check2 == invalidEntry(zero, "functionalAmount")
            check3 == invalidEntry(wrong, "functionalAmount")
            check4 == validateStoredValues(e)
            recomputed == firstError[<<check1, check2, check3, check4>>]
<1>1. /\ err1 \in ValidationError /\ err1 # NoError
      /\ err2 \in ValidationError /\ err2 # NoError
  BY NewErrorType DEF Sentinels, Fields
<1>2. Validate(e) = IF e = ZeroEntry THEN err1
                    ELSE IF fields # NoError THEN fields ELSE recomputed
  BY DEF Validate
<1>3. /\ fields \in ValidationError
      /\ fields = NoError <=> hold
  BY EntryFieldsResult
<1>4. ASSUME hold
      PROVE  /\ recomputed \in ValidationError
             /\ recomputed = NoError <=> ValueHolds(e) /\ StoredHold(e)
  <2>1. expected = [err    |-> NoError,
                    amount |-> Decimal!RoundBank(Decimal!Mul(e.txAmount, e.exchangeRate),
                                                 Registry[Code(e.functionalCurrency)])]
    BY <1>4, FunctionalAmount DEF FieldsHold
  <2>. HIDE DEF expected, zero, wrong, err1, err2, fields, hold
  <2>2. check1 = NoError
    BY <2>1 DEF rewrapValidationError
  <2>3. /\ check2 \in ValidationError
        /\ check2 = NoError <=> ~zero
        /\ check3 \in ValidationError
        /\ check3 = NoError <=> ~wrong
    BY <1>1, NoErrorType DEF invalidEntry, failIf, err2
  <2>4. /\ check4 \in ValidationError
        /\ check4 = NoError <=> StoredHold(e)
    BY StoredValuesResult
  <2>. HIDE DEF check1, check2, check3, check4
  <2>5. /\ recomputed \in ValidationError
        /\ recomputed = NoError <=> check2 = NoError /\ check3 = NoError /\ check4 = NoError
    BY <2>2, <2>3, <2>4, NoErrorType, FirstOf4
  <2>6. ValueHolds(e) <=> ~zero /\ ~wrong
    BY <2>1 DEF ValueHolds, zero, wrong
  <2>. QED
    BY <2>3, <2>4, <2>5, <2>6
<1>5. EntryHolds(e) <=> e # ZeroEntry /\ hold /\ ValueHolds(e) /\ StoredHold(e)
  BY DEF EntryHolds
<1>. HIDE DEF fields, hold, recomputed, err1
<1>. QED
  BY <1>1, <1>2, <1>3, <1>4, <1>5

(* An entry that passes is sound in its functional currency, and keeps the *)
(* currencies in canonical form.                                           *)
LEMMA HeldEntry ==
  ASSUME NEW e, Validate(e) = NoError
  PROVE  /\ SoundEntry(e, e.functionalCurrency)
         /\ Decimal!Positive(e.exchangeRate)
         /\ ratableCurrency(e.functionalCurrency) = "nil"
         /\ e.functionalCurrency = Code(e.functionalCurrency)
BY ValidateResult
   DEF EntryHolds, FieldsHold, ValueHolds, StoredHold, SoundEntry

(* The zero Entry is sound in no currency: its value is zero. *)
LEMMA ZeroEntryUnsound ==
  ASSUME NEW code, Registry[code] \in Nat
  PROVE  ~SoundEntry(ZeroEntry, code)
<1>. DEFINE places == Registry[code]
            product == Decimal!Mul(Decimal!Zero, Decimal!Zero)
<1>1. product = Decimal!Dec(0, 0)
  BY DEF Decimal!Mul, Decimal!Zero, Decimal!Dec
<1>2. Decimal!RoundBank(product, places) = Decimal!Dec(Decimal!At(product, -places), -places)
  BY <1>1 DEF Decimal!RoundBank, Decimal!Rescale, Decimal!Dec
<1>3. Decimal!At(product, -places) = 0 * Decimal!Pow10[places]
  BY <1>1 DEF Decimal!At, Decimal!Dec
<1>4. Decimal!IsZero(Decimal!RoundBank(product, places))
  BY <1>2, <1>3, Powers DEF Decimal!IsZero, Decimal!Dec
<1>5. ZeroEntry.txAmount = Decimal!Zero /\ ZeroEntry.exchangeRate = Decimal!Zero
  BY DEF ZeroEntry
<1>. QED
  BY <1>4, <1>5 DEF SoundEntry

(***************************************************************************)
(* The checks of a builder.                                                *)
(***************************************************************************)
LEMMA EntriesResult ==
  ASSUME NEW b, b.entries \in Seq(EntrySet)
  PROVE  /\ validateEntries(b) \in ValidationError
         /\ validateEntries(b) = NoError <=>
              \A i \in DOMAIN b.entries : Validate(b.entries[i]) = NoError
<1>. DEFINE checks == [i \in DOMAIN b.entries |->
                         rewrapEntryValidationError(Validate(b.entries[i]), i)]
<1>1. \A i \in DOMAIN b.entries :
        /\ rewrapEntryValidationError(Validate(b.entries[i]), i) \in ValidationError
        /\ rewrapEntryValidationError(Validate(b.entries[i]), i) = NoError
             <=> Validate(b.entries[i]) = NoError
  BY ValidateResult, RewrapEntryType
<1>2. /\ checks \in Seq(ValidationError) /\ DOMAIN checks = DOMAIN b.entries
      /\ \A i \in DOMAIN b.entries : checks[i] = NoError <=> Validate(b.entries[i]) = NoError
  BY <1>1
<1>3. validateEntries(b) = firstError[checks]
  BY DEF validateEntries
<1>. HIDE DEF checks
<1>. QED
  BY <1>2, <1>3, FirstErrorType, FirstErrorNone

LEMMA CurrencyConsistencyResult ==
  ASSUME NEW b, b.entries \in Seq(EntrySet)
  PROVE  /\ validateCurrencyConsistency(b) \in ValidationError
         /\ validateCurrencyConsistency(b) = NoError <=>
              \A i \in DOMAIN b.entries :
                b.entries[i].functionalCurrency = b.config.functionalCurrency
<1>. DEFINE err(i) == NewEntryValidationError("ErrCurrencyMismatch", i, "functionalCurrency", {})
            differs(i) == b.entries[i].functionalCurrency # b.config.functionalCurrency
            checks == [i \in DOMAIN b.entries |-> failIf(differs(i), err(i))]
<1>1. ASSUME NEW i \in DOMAIN b.entries
      PROVE  err(i) \in ValidationError /\ err(i) # NoError
  <2>1. i \in Int /\ {} \in SUBSET Causes
    OBVIOUS
  <2>2. "ErrCurrencyMismatch" \in Sentinels /\ "functionalCurrency" \in Fields
    BY DEF Sentinels, Fields
  <2>. QED
    BY <2>1, <2>2, NewEntryErrorType
<1>. HIDE DEF err, differs
<1>2. \A i \in DOMAIN b.entries :
        /\ failIf(differs(i), err(i)) \in ValidationError
        /\ failIf(differs(i), err(i)) = NoError <=> ~differs(i)
  BY <1>1, NoErrorType DEF failIf
<1>3. /\ checks \in Seq(ValidationError) /\ DOMAIN checks = DOMAIN b.entries
      /\ \A i \in DOMAIN b.entries : checks[i] = NoError <=> ~differs(i)
  BY <1>2
<1>4. validateCurrencyConsistency(b) = firstError[checks]
  BY DEF validateCurrencyConsistency, err, differs
<1>. HIDE DEF checks
<1>. QED
  BY <1>3, <1>4, FirstErrorType, FirstErrorNone DEF differs

LEMMA ZeroSumResult ==
  ASSUME NEW b
  PROVE  /\ validateZeroSum(b) \in ValidationError
         /\ validateZeroSum(b) = NoError <=> Decimal!IsZero(functionalSum(b.entries))
<1>1. /\ NewValidationError("ErrZeroSumViolation", "entries", {}) \in ValidationError
      /\ NewValidationError("ErrZeroSumViolation", "entries", {}) # NoError
  BY NewErrorType DEF Sentinels, Fields
<1>. QED
  BY <1>1, NoErrorType DEF validateZeroSum, failIf

LEMMA PeriodResult ==
  ASSUME NEW b, b.effectiveDate \in TimeSet
  PROVE  /\ validatePeriod(b) \in ValidationError
         /\ validatePeriod(b) = NoError <=>
              InOpenPeriod(b.effectiveDate, b.isAdjustingEvent, b.config)
<1>1. /\ NewValidationError("ErrPeriodClosed", "effectiveDate", {}) \in ValidationError
      /\ NewValidationError("ErrPeriodClosed", "effectiveDate", {}) # NoError
  BY NewErrorType DEF Sentinels, Fields
<1>2. UTC(b.effectiveDate).at = b.effectiveDate.at
  BY DEF UTC, TimeSet
<1>. QED
  BY <1>1, <1>2, NoErrorType DEF validatePeriod, failIf, After, InOpenPeriod

(* What the checks build makes before it asks for a rate find in a builder *)
(* they accept.                                                            *)
StaticHold(b) ==
  /\ ratableCurrency(b.config.functionalCurrency) = "nil"
  /\ ~Decimal!IsNegative(b.config.rateTolerance)
  /\ Bounded(b.id, 255)
  /\ b.effectiveDate.at # 0
  /\ b.entries # <<>>
  /\ \A key \in b.metadata : Bounded(key, 64)
  /\ \A i \in DOMAIN b.entries :
       /\ Validate(b.entries[i]) = NoError
       /\ b.entries[i].functionalCurrency = b.config.functionalCurrency
  /\ Decimal!IsZero(functionalSum(b.entries))
  /\ InOpenPeriod(b.effectiveDate, b.isAdjustingEvent, b.config)

LEMMA StaticResult ==
  ASSUME NEW b, b.entries \in Seq(EntrySet), b.effectiveDate \in TimeSet
  PROVE  /\ staticError(b) \in ValidationError
         /\ staticError(b) = NoError <=> StaticHold(b)
<1>. DEFINE config == validateConfig(b.config)
            check1 == rewrapValidationError(config, "config")
            check2 == validateTransactionFields(b)
            check3 == validateEntries(b)
            check4 == validateCurrencyConsistency(b)
            check5 == validateZeroSum(b)
            check6 == validatePeriod(b)
<1>1. /\ check1 \in ValidationError
      /\ check1 = NoError <=> config = NoError
  BY ValidateConfigResult, RewrapType DEF Fields
<1>2. /\ check2 \in ValidationError /\ check3 \in ValidationError
      /\ check4 \in ValidationError /\ check5 \in ValidationError
      /\ check6 \in ValidationError
  BY TransactionFieldsResult, EntriesResult, CurrencyConsistencyResult,
     ZeroSumResult, PeriodResult
<1>3. staticError(b) = firstError[<<check1, check2, check3, check4, check5, check6>>]
  BY DEF staticError
<1>4. /\ staticError(b) \in ValidationError
      /\ staticError(b) = NoError <=>
           /\ config = NoError
           /\ check2 = NoError /\ check3 = NoError /\ check4 = NoError
           /\ check5 = NoError /\ check6 = NoError
  <2>. HIDE DEF config, check1, check2, check3, check4, check5, check6
  <2>. QED
    BY <1>1, <1>2, <1>3, FirstOf6
<1>5. /\ config = NoError <=> /\ ratableCurrency(b.config.functionalCurrency) = "nil"
                              /\ ~Decimal!IsNegative(b.config.rateTolerance)
      /\ check2 = NoError <=> /\ Bounded(b.id, 255)
                              /\ b.effectiveDate.at # 0
                              /\ b.entries # <<>>
                              /\ \A key \in b.metadata : Bounded(key, 64)
      /\ check3 = NoError <=> \A i \in DOMAIN b.entries : Validate(b.entries[i]) = NoError
      /\ check4 = NoError <=> \A i \in DOMAIN b.entries :
                                b.entries[i].functionalCurrency = b.config.functionalCurrency
      /\ check5 = NoError <=> Decimal!IsZero(functionalSum(b.entries))
      /\ check6 = NoError <=> InOpenPeriod(b.effectiveDate, b.isAdjustingEvent, b.config)
  BY ValidateConfigResult, TransactionFieldsResult, EntriesResult,
     CurrencyConsistencyResult, ZeroSumResult, PeriodResult
<1>. HIDE DEF config, check1, check2, check3, check4, check5, check6
<1>. QED
  BY <1>4, <1>5 DEF StaticHold

(* They leave every guarantee but rate integrity. *)
LEMMA StaticSound ==
  ASSUME NEW b, b.entries \in Seq(EntrySet), b.effectiveDate \in TimeSet,
         staticError(b) = NoError
  PROVE  /\ b.config.functionalCurrency \in DOMAIN Registry
         /\ Registry[b.config.functionalCurrency] # NotRatable
         /\ ~Decimal!IsNegative(b.config.rateTolerance)
         /\ Bounded(b.id, 255)
         /\ b.effectiveDate.at # 0
         /\ \A key \in b.metadata : Bounded(key, 64)
         /\ SoundEntries(b.entries, b.config.functionalCurrency)
         /\ InOpenPeriod(b.effectiveDate, b.isAdjustingEvent, b.config)
         /\ \A i \in DOMAIN b.entries : Decimal!Positive(b.entries[i].exchangeRate)
<1>1. StaticHold(b)
  BY StaticResult
<1>2. \A i \in DOMAIN b.entries :
        /\ SoundEntry(b.entries[i], b.config.functionalCurrency)
        /\ Decimal!Positive(b.entries[i].exchangeRate)
        /\ b.config.functionalCurrency = Code(b.config.functionalCurrency)
  BY <1>1, HeldEntry DEF StaticHold
<1>3. 1 \in DOMAIN b.entries
  BY <1>1 DEF StaticHold
<1>4. b.config.functionalCurrency \in DOMAIN Registry
      /\ Registry[b.config.functionalCurrency] # NotRatable
  BY <1>1, <1>2, <1>3, CanonicalCode DEF StaticHold
<1>. QED
  BY <1>1, <1>2, <1>4 DEF StaticHold, SoundEntries

(* And they refuse nothing that keeps the guarantees, if its entries are   *)
(* ones the package made.                                                  *)
LEMMA StaticComplete ==
  ASSUME NEW b, b.entries \in Seq(EntrySet), b.effectiveDate \in TimeSet,
         \A i \in DOMAIN b.entries : MadeEntry(b.entries[i]),
         b.config.functionalCurrency \in DOMAIN Registry,
         Registry[b.config.functionalCurrency] # NotRatable,
         ~Decimal!IsNegative(b.config.rateTolerance),
         Bounded(b.id, 255),
         b.effectiveDate.at # 0,
         \A key \in b.metadata : Bounded(key, 64),
         SoundEntries(b.entries, b.config.functionalCurrency),
         InOpenPeriod(b.effectiveDate, b.isAdjustingEvent, b.config)
  PROVE  staticError(b) = NoError
<1>. DEFINE currency == b.config.functionalCurrency
<1>1. Registry[currency] \in Nat
  BY CurrencyAssumption
<1>2. \A i \in DOMAIN b.entries :
        /\ Validate(b.entries[i]) = NoError
        /\ b.entries[i].functionalCurrency = currency
  BY <1>1, ZeroEntryUnsound DEF SoundEntries, SoundEntry, MadeEntry
<1>3. 1 \in DOMAIN b.entries
  BY DEF SoundEntries
<1>4. ratableCurrency(currency) = "nil"
  BY <1>2, <1>3, HeldEntry
<1>. QED
  BY <1>2, <1>4, StaticResult DEF StaticHold, SoundEntries

(***************************************************************************)
(* These checks never blame a rate: their errors cannot be mistaken for    *)
(* those of the rate loop.                                                 *)
(***************************************************************************)
RateCodes == {"ErrRateProvider", "ErrRateDeviation", "ErrNilRateProvider"}

Plain(err) == err.code \notin RateCodes /\ err.field # "rate"

LEMMA PlainNew ==
  ASSUME NEW code, NEW field, NEW cause, code \notin RateCodes, field # "rate"
  PROVE  /\ Plain(NewValidationError(code, field, cause))
         /\ \A c : Plain(failIf(c, NewValidationError(code, field, cause)))
         /\ Plain(NoError)
BY DEF Plain, NewValidationError, NoError, failIf, RateCodes

LEMMA PlainRewrapped ==
  ASSUME NEW err, Plain(err), NEW field, field # "rate"
  PROVE  Plain(rewrapValidationError(err, field))
BY DEF Plain, rewrapValidationError, NewValidationError, NoError, RateCodes

LEMMA PlainEntryRewrapped ==
  ASSUME NEW err, Plain(err), NEW i
  PROVE  Plain(rewrapEntryValidationError(err, i))
BY DEF Plain, rewrapEntryValidationError, NewEntryValidationError, NoError, RateCodes

LEMMA ConfigPlain ==
  ASSUME NEW config
  PROVE  Plain(validateConfig(config))
<1>. DEFINE currency == ratableCurrency(config.functionalCurrency) # "nil"
            negative == Decimal!IsNegative(config.rateTolerance)
            err1 == NewValidationError("ErrInvalidConfiguration", "functionalCurrency",
                                       {ratableCurrency(config.functionalCurrency)})
            err2 == NewValidationError("ErrInvalidConfiguration", "rateTolerance", {})
            check1 == failIf(currency, err1)
            check2 == failIf(negative, err2)
<1>1. currency => err1 \in ValidationError
  BY NewErrorType, RatableType DEF Sentinels, Fields
<1>2. err2 \in ValidationError
  BY NewErrorType DEF Sentinels, Fields
<1>3. Plain(check1) /\ Plain(check2) /\ Plain(NoError)
  BY PlainNew DEF RateCodes
<1>. HIDE DEF currency, negative, err1, err2
<1>4. check1 \in ValidationError /\ check2 \in ValidationError
  BY <1>1, <1>2, NoErrorType DEF failIf
<1>5. validateConfig(config) = firstError[<<check1, check2>>]
  BY DEF validateConfig, currency, negative, err1, err2
<1>. HIDE DEF check1, check2
<1>6. validateConfig(config) \in {NoError, check1, check2}
  BY <1>4, <1>5, FirstOf2
<1>. QED
  BY <1>3, <1>6

LEMMA TransactionFieldsPlain ==
  ASSUME NEW b
  PROVE  Plain(validateTransactionFields(b))
<1>. DEFINE bad  == \E key \in b.metadata : ~validMetadataKey(key)
            check1 == failIf(~validAccountID(b.id),
                             NewValidationError("ErrInvalidTransactionID", "id", {}))
            check2 == failIf(IsZeroTime(b.effectiveDate),
                             NewValidationError("ErrInvalidEffectiveDate", "effectiveDate", {}))
            check3 == failIf(b.entries = <<>>,
                             NewValidationError("ErrEmptyTransaction", "entries", {}))
            check4 == failIf(bad, NewValidationError("ErrInvalidMetadata", "metadata", {}))
<1>1. /\ NewValidationError("ErrInvalidTransactionID", "id", {}) \in ValidationError
      /\ NewValidationError("ErrInvalidEffectiveDate", "effectiveDate", {}) \in ValidationError
      /\ NewValidationError("ErrEmptyTransaction", "entries", {}) \in ValidationError
      /\ NewValidationError("ErrInvalidMetadata", "metadata", {}) \in ValidationError
  BY NewErrorType DEF Sentinels, Fields
<1>. HIDE DEF bad
<1>2. /\ check1 \in ValidationError /\ check2 \in ValidationError
      /\ check3 \in ValidationError /\ check4 \in ValidationError
  BY <1>1, NoErrorType DEF failIf
<1>3. Plain(check1) /\ Plain(check2) /\ Plain(check3) /\ Plain(check4) /\ Plain(NoError)
  BY PlainNew DEF RateCodes
<1>4. validateTransactionFields(b) = firstError[<<check1, check2, check3, check4>>]
  BY DEF validateTransactionFields, validateMetadataKeys, bad
<1>. HIDE DEF check1, check2, check3, check4
<1>5. validateTransactionFields(b) \in {NoError, check1, check2, check3, check4}
  BY <1>2, <1>4, FirstOf4
<1>. QED
  BY <1>3, <1>5

LEMMA EntryFieldsPlain ==
  ASSUME NEW id, NEW amount, NEW tx, NEW rate, NEW functional
  PROVE  Plain(validateEntryFields(id, amount, tx, rate, functional))
<1>. DEFINE err1 == NewValidationError("ErrInvalidAccountID", "accountID", {})
            err2 == NewValidationError("ErrInvalidPrecision", "txAmount", {})
            err3 == NewValidationError("ErrZeroAmount", "txAmount", {})
            err4 == NewValidationError("ErrInvalidExchangeRate", "exchangeRate", {})
            long == amount.exp < -MinorUnits(tx)
            unequal == Code(tx) = Code(functional) /\ ~Decimal!Equal(rate, Decimal!One)
            check1 == failIf(~validAccountID(id), err1)
            check2 == lookupRatableCurrency(tx, "txCurrency")
            check3 == lookupRatableCurrency(functional, "functionalCurrency")
            check4 == failIf(long, err2)
            check5 == failIf(Decimal!IsZero(amount), err3)
            check6 == failIf(~Decimal!Positive(rate), err4)
            check7 == failIf(unequal, err4)
            unidentified == firstError[<<check1, check2, check3>>]
            misvalued == firstError[<<check4, check5, check6, check7>>]
<1>1. /\ err1 \in ValidationError /\ err2 \in ValidationError
      /\ err3 \in ValidationError /\ err4 \in ValidationError
  BY NewErrorType DEF Sentinels, Fields
<1>2. /\ Plain(check1) /\ Plain(check4) /\ Plain(check5) /\ Plain(check6) /\ Plain(check7)
      /\ Plain(NoError)
  BY PlainNew DEF RateCodes
<1>3. Plain(check2) /\ Plain(check3)
  BY DEF lookupRatableCurrency, failIf, NewValidationError, NoError, Plain, RateCodes,
         ratableCurrency, lookup
<1>. HIDE DEF err1, err2, err3, err4, long, unequal
<1>4. /\ check1 \in ValidationError /\ check4 \in ValidationError
      /\ check5 \in ValidationError /\ check6 \in ValidationError
      /\ check7 \in ValidationError
  BY <1>1, NoErrorType DEF failIf
<1>5. check2 \in ValidationError /\ check3 \in ValidationError
  BY LookupResult DEF Fields
<1>6. validateEntryFields(id, amount, tx, rate, functional)
        = IF unidentified # NoError THEN unidentified ELSE misvalued
  BY DEF validateEntryFields, err1, err2, err3, err4, long, unequal
<1>. HIDE DEF check1, check2, check3, check4, check5, check6, check7
<1>7. /\ unidentified \in {NoError, check1, check2, check3}
      /\ misvalued \in {NoError, check4, check5, check6, check7}
  BY <1>4, <1>5, FirstOf3, FirstOf4
<1>. HIDE DEF unidentified, misvalued
<1>. QED
  BY <1>2, <1>3, <1>6, <1>7

LEMMA ValidatePlain ==
  ASSUME NEW e
  PROVE  Plain(Validate(e))
<1>. DEFINE fields == validateEntryFields(e.accountID, e.txAmount, e.txCurrency,
                                          e.exchangeRate, e.functionalCurrency)
            expected == functionalAmountOf(e.txAmount, e.exchangeRate, e.functionalCurrency)
            err1 == NewValidationError("ErrInvalidEntry", "entry", {})
            spelled == \/ e.txCurrency # Code(e.txCurrency)
                       \/ e.functionalCurrency # Code(e.functionalCurrency)
            money1 == \/ ~Decimal!Equal(e.txMoney.amount, e.txAmount)
                      \/ e.txMoney.code # Code(e.txCurrency)
            money2 == \/ ~Decimal!Equal(e.functionalMoney.amount, e.functionalAmount)
                      \/ e.functionalMoney.code # Code(e.functionalCurrency)
            stored1 == invalidEntry(spelled, "entry")
            stored2 == invalidEntry(money1, "entry")
            stored3 == invalidEntry(money2, "functionalAmount")
            zero == Decimal!IsZero(expected.amount)
            wrong == ~Decimal!Equal(e.functionalAmount, expected.amount)
            check1 == rewrapValidationError(expected.err, "functionalAmount")
            check2 == invalidEntry(zero, "functionalAmount")
            check3 == invalidEntry(wrong, "functionalAmount")
            check4 == validateStoredValues(e)
            recomputed == firstError[<<check1, check2, check3, check4>>]
<1>1. Validate(e) = IF e = ZeroEntry THEN err1
                    ELSE IF fields # NoError THEN fields ELSE recomputed
  BY DEF Validate
<1>2. Plain(err1) /\ Plain(NoError) /\ Plain(fields)
  BY PlainNew, EntryFieldsPlain DEF RateCodes
<1>3. ASSUME NEW c, NEW field \in {"entry", "functionalAmount"}
      PROVE  invalidEntry(c, field) \in ValidationError /\ Plain(invalidEntry(c, field))
  <2>1. NewValidationError("ErrInvalidEntry", field, {}) \in ValidationError
    BY NewErrorType DEF Sentinels, Fields
  <2>. QED
    BY <2>1, PlainNew, NoErrorType DEF invalidEntry, failIf, RateCodes
<1>4. validateStoredValues(e) = firstError[<<stored1, stored2, stored3>>]
  BY DEF validateStoredValues
<1>. HIDE DEF spelled, money1, money2
<1>5. /\ stored1 \in ValidationError /\ Plain(stored1)
      /\ stored2 \in ValidationError /\ Plain(stored2)
      /\ stored3 \in ValidationError /\ Plain(stored3)
  BY <1>3
<1>. HIDE DEF stored1, stored2, stored3
<1>6. check4 \in ValidationError /\ Plain(check4)
  <2>1. check4 \in {NoError, stored1, stored2, stored3}
    BY <1>4, <1>5, FirstOf3
  <2>. QED
    BY <1>2, <1>5, <2>1, NoErrorType
<1>7. ASSUME fields = NoError PROVE Plain(recomputed)
  <2>1. expected.err = NoError
    BY <1>7, EntryFieldsResult, FunctionalAmount DEF FieldsHold
  <2>. HIDE DEF expected, zero, wrong
  <2>2. check1 = NoError
    BY <2>1 DEF rewrapValidationError
  <2>3. /\ check2 \in ValidationError /\ Plain(check2)
        /\ check3 \in ValidationError /\ Plain(check3)
    BY <1>3
  <2>. HIDE DEF check1, check2, check3, check4
  <2>4. recomputed \in {NoError, check1, check2, check3, check4}
    BY <1>6, <2>2, <2>3, NoErrorType, FirstOf4
  <2>. QED
    BY <1>2, <1>6, <2>2, <2>3, <2>4
<1>. HIDE DEF err1, fields, recomputed
<1>. QED
  BY <1>1, <1>2, <1>7

LEMMA StaticPlain ==
  ASSUME NEW b, b.entries \in Seq(EntrySet), b.effectiveDate \in TimeSet
  PROVE  Plain(staticError(b))
<1>. DEFINE check1 == rewrapValidationError(validateConfig(b.config), "config")
            check2 == validateTransactionFields(b)
            check3 == validateEntries(b)
            check4 == validateCurrencyConsistency(b)
            check5 == validateZeroSum(b)
            check6 == validatePeriod(b)
            revalidated == [i \in DOMAIN b.entries |->
                              rewrapEntryValidationError(Validate(b.entries[i]), i)]
            differs(i) == b.entries[i].functionalCurrency # b.config.functionalCurrency
            mismatch(i) == failIf(differs(i), NewEntryValidationError("ErrCurrencyMismatch", i,
                                                                      "functionalCurrency", {}))
            compared == [i \in DOMAIN b.entries |-> mismatch(i)]
<1>1. Plain(check1) /\ Plain(check2)
  <2>1. Plain(check2)
    BY TransactionFieldsPlain
  <2>2. Plain(validateConfig(b.config))
    BY ConfigPlain
  <2>. QED
    BY <2>1, <2>2, PlainRewrapped
<1>2. Plain(check5) /\ Plain(check6) /\ Plain(NoError)
  BY DEF validateZeroSum, validatePeriod, failIf, NewValidationError, NoError, Plain, RateCodes
<1>3. Plain(check3)
  <2>1. \A i \in DOMAIN b.entries :
          /\ rewrapEntryValidationError(Validate(b.entries[i]), i) \in ValidationError
          /\ Plain(rewrapEntryValidationError(Validate(b.entries[i]), i))
    BY ValidateResult, RewrapEntryType, ValidatePlain, PlainEntryRewrapped
  <2>2. /\ revalidated \in Seq(ValidationError)
        /\ \A i \in DOMAIN revalidated : Plain(revalidated[i])
    BY <2>1
  <2>3. check3 = firstError[revalidated]
    BY DEF validateEntries
  <2>. HIDE DEF revalidated, check3
  <2>. QED
    BY <1>2, <2>2, <2>3, FirstErrorType
<1>4. Plain(check4)
  <2>1. ASSUME NEW i \in DOMAIN b.entries
        PROVE  mismatch(i) \in ValidationError /\ Plain(mismatch(i))
    <3>1. NewEntryValidationError("ErrCurrencyMismatch", i, "functionalCurrency", {})
            \in ValidationError
      <4>1. i \in Int /\ {} \in SUBSET Causes
        OBVIOUS
      <4>. QED
        BY <4>1, NewEntryErrorType DEF Sentinels, Fields
    <3>2. Plain(NewEntryValidationError("ErrCurrencyMismatch", i, "functionalCurrency", {}))
      BY DEF Plain, NewEntryValidationError, RateCodes
    <3>. HIDE DEF differs
    <3>. QED
      BY <1>2, <3>1, <3>2, NoErrorType DEF failIf
  <2>2. check4 = firstError[compared]
    BY DEF validateCurrencyConsistency
  <2>. HIDE DEF mismatch, check4
  <2>3. /\ compared \in Seq(ValidationError)
        /\ \A i \in DOMAIN compared : Plain(compared[i])
    BY <2>1
  <2>. HIDE DEF compared
  <2>. QED
    BY <1>2, <2>2, <2>3, FirstErrorType
<1>5. /\ check1 \in ValidationError /\ check2 \in ValidationError
      /\ check3 \in ValidationError /\ check4 \in ValidationError
      /\ check5 \in ValidationError /\ check6 \in ValidationError
  BY ValidateConfigResult, RewrapType, TransactionFieldsResult, EntriesResult,
     CurrencyConsistencyResult, ZeroSumResult, PeriodResult DEF Fields
<1>6. staticError(b) = firstError[<<check1, check2, check3, check4, check5, check6>>]
  BY DEF staticError
<1>. HIDE DEF check1, check2, check3, check4, check5, check6
<1>7. staticError(b) \in {NoError, check1, check2, check3, check4, check5, check6}
  BY <1>5, <1>6, FirstOf6
<1>. QED
  BY <1>1, <1>2, <1>3, <1>4, <1>7

(***************************************************************************)
(* The checks of the rate loop.                                            *)
(***************************************************************************)
LEMMA ContextResult ==
  ASSUME NEW canceled \in BOOLEAN
  PROVE  /\ validationContext(canceled) \in ValidationError
         /\ validationContext(canceled) = NoError <=> ~canceled
<1>1. /\ NewValidationError("ErrRateProvider", "context", {"context"}) \in ValidationError
      /\ NewValidationError("ErrRateProvider", "context", {"context"}) # NoError
  BY NewErrorType DEF Sentinels, Fields, Causes
<1>. QED
  BY <1>1, NoErrorType DEF validationContext, failIf

LEMMA RateErrorType ==
  ASSUME NEW i \in Int, NEW code \in Sentinels, NEW field \in Fields,
         NEW cause \in SUBSET Causes
  PROVE  /\ rateError(code, i, field, cause) \in ValidationError
         /\ rateError(code, i, field, cause) # NoError
BY NewEntryErrorType DEF rateError

(* No request is made under a canceled context, or without a provider.     *)
LEMMA GuardResult ==
  ASSUME NEW entry, NEW i \in Int, NEW canceled \in BOOLEAN, NEW provider
  PROVE  /\ rateGuard(entry, i, canceled, provider) \in ValidationError
         /\ rateGuard(entry, i, canceled, provider) = NoError <=>
              Decimal!Positive(entry.exchangeRate) /\ ~canceled /\ provider # "nil"
<1>. DEFINE err1 == rateError("ErrInvalidExchangeRate", i, "exchangeRate", {})
            err2 == rateError("ErrRateProvider", i, "context", {"context"})
            err3 == rateError("ErrNilRateProvider", i, "rate", {})
            positive == Decimal!Positive(entry.exchangeRate)
            check1 == failIf(~positive, err1)
            check2 == failIf(canceled, err2)
            check3 == failIf(provider = "nil", err3)
<1>1. /\ err1 \in ValidationError /\ err1 # NoError
      /\ err2 \in ValidationError /\ err2 # NoError
      /\ err3 \in ValidationError /\ err3 # NoError
  <2>1. /\ {} \in SUBSET Causes
        /\ {"context"} \in SUBSET Causes
        /\ {"provider"} \in SUBSET Causes
        /\ {"provider", "context"} \in SUBSET Causes
    BY DEF Causes
  <2>. QED
    BY <2>1, RateErrorType DEF Sentinels, Fields
<1>2. rateGuard(entry, i, canceled, provider) = firstError[<<check1, check2, check3>>]
  BY DEF rateGuard
<1>. HIDE DEF err1, err2, err3, positive
<1>3. /\ check1 \in ValidationError /\ (check1 = NoError <=> positive)
      /\ check2 \in ValidationError /\ (check2 = NoError <=> ~canceled)
      /\ check3 \in ValidationError /\ (check3 = NoError <=> provider # "nil")
  BY <1>1, NoErrorType DEF failIf
<1>. HIDE DEF check1, check2, check3
<1>. QED
  BY <1>2, <1>3, FirstOf3 DEF positive

(* An answer is used only if the provider gave it without error, and the   *)
(* context was still live afterwards.                                      *)
LEMMA AnswerResult ==
  ASSUME NEW failed \in BOOLEAN, NEW i \in Int, NEW canceled \in BOOLEAN
  PROVE  /\ answerError(failed, i, canceled) \in ValidationError
         /\ answerError(failed, i, canceled) = NoError <=> ~failed /\ ~canceled
<1>. DEFINE err1 == rateError("ErrRateProvider", i, "context", {"provider", "context"})
            err2 == rateError("ErrRateProvider", i, "rate", {"provider"})
            err3 == rateError("ErrRateProvider", i, "context", {"context"})
            check1 == failIf(failed /\ canceled, err1)
            check2 == failIf(failed, err2)
            check3 == failIf(canceled, err3)
<1>1. /\ err1 \in ValidationError /\ err1 # NoError
      /\ err2 \in ValidationError /\ err2 # NoError
      /\ err3 \in ValidationError /\ err3 # NoError
  <2>1. /\ {} \in SUBSET Causes
        /\ {"context"} \in SUBSET Causes
        /\ {"provider"} \in SUBSET Causes
        /\ {"provider", "context"} \in SUBSET Causes
    BY DEF Causes
  <2>. QED
    BY <2>1, RateErrorType DEF Sentinels, Fields
<1>2. answerError(failed, i, canceled) = firstError[<<check1, check2, check3>>]
  BY DEF answerError
<1>. HIDE DEF err1, err2, err3
<1>3. /\ check1 \in ValidationError /\ (check1 = NoError <=> ~(failed /\ canceled))
      /\ check2 \in ValidationError /\ (check2 = NoError <=> ~failed)
      /\ check3 \in ValidationError /\ (check3 = NoError <=> ~canceled)
  BY <1>1, NoErrorType DEF failIf
<1>. HIDE DEF check1, check2, check3
<1>. QED
  BY <1>2, <1>3, FirstOf3

(* A turn of the loop ends well only when the rate agrees with the entry.  *)
LEMMA CompareResult ==
  ASSUME NEW entry, NEW i \in Int, NEW rate, NEW tolerance
  PROVE  /\ compareRate(entry, i, rate, tolerance) \in ValidationError
         /\ compareRate(entry, i, rate, tolerance) = NoError <=>
              /\ Decimal!Positive(rate)
              /\ ~Decimal!GreaterThan(Decimal!Abs(Decimal!Sub(rate, entry.exchangeRate)),
                                      tolerance)
<1>. DEFINE positive == Decimal!Positive(rate)
            within == withinTolerance(rate, entry.exchangeRate, tolerance)
            err1 == rateError("ErrInvalidExchangeRate", i, "rate", {})
            err2 == rateError("ErrRateDeviation", i, "rate", {})
            check1 == failIf(~positive, err1)
            check2 == failIf(~within, err2)
<1>1. /\ err1 \in ValidationError /\ err1 # NoError
      /\ err2 \in ValidationError /\ err2 # NoError
  BY RateErrorType DEF Sentinels, Fields
<1>2. compareRate(entry, i, rate, tolerance) = firstError[<<check1, check2>>]
  BY DEF compareRate
<1>. HIDE DEF err1, err2, positive, within
<1>3. /\ check1 \in ValidationError
      /\ check1 = NoError <=> positive
      /\ check2 \in ValidationError
      /\ check2 = NoError <=> within
  BY <1>1, NoErrorType DEF failIf
<1>. HIDE DEF check1, check2
<1>. QED
  BY <1>2, <1>3, FirstOf2 DEF positive, within, withinTolerance

(* The rate it agreed with is one the provider gave for its pair. *)
LEMMA AgreesFound ==
  ASSUME NEW e, NEW i \in Int, NEW date \in TimeSet, NEW given, NEW rate, NEW tolerance,
         compareRate(e, i, rate, tolerance) = NoError,
         [request |-> rateRequest(e, date), rate |-> rate] \in given
  PROVE  Agrees(e, date, given, tolerance)
<1>. DEFINE a == [request |-> rateRequest(e, date), rate |-> rate]
<1>1. UTC(date) = [at |-> date.at, zone |-> "UTC"]
  BY DEF UTC, TimeSet
<1>2. a.request = [base  |-> e.txCurrency, quote |-> e.functionalCurrency,
                   asOf  |-> [at |-> date.at, zone |-> "UTC"]]
  BY <1>1 DEF rateRequest
<1>3. /\ Decimal!Positive(a.rate)
      /\ ~Decimal!GreaterThan(Decimal!Abs(Decimal!Sub(a.rate, e.exchangeRate)), tolerance)
  BY CompareResult
<1>4. a \in given
  OBVIOUS
<1>. HIDE DEF a
<1>. QED
  BY <1>2, <1>3, <1>4 DEF Agrees

LEMMA AgreesMore ==
  ASSUME NEW e, NEW date, NEW given, NEW more, given \subseteq more, NEW tolerance,
         Agrees(e, date, given, tolerance)
  PROVE  Agrees(e, date, more, tolerance)
BY DEF Agrees

(* With one answer a pair, an entry agrees with that one or with none. *)
LEMMA AgreesNot ==
  ASSUME NEW e, NEW i \in Int, NEW date \in TimeSet, NEW given, NEW tolerance, NEW rate,
         \A a \in given : a.request = rateRequest(e, date) => a.rate = rate,
         compareRate(e, i, rate, tolerance) # NoError
  PROVE  ~Agrees(e, date, given, tolerance)
<1>1. UTC(date) = [at |-> date.at, zone |-> "UTC"]
  BY DEF UTC, TimeSet
<1>2. rateRequest(e, date) = [base  |-> e.txCurrency, quote |-> e.functionalCurrency,
                              asOf  |-> [at |-> date.at, zone |-> "UTC"]]
  BY <1>1 DEF rateRequest
<1>3. ~(/\ Decimal!Positive(rate)
        /\ ~Decimal!GreaterThan(Decimal!Abs(Decimal!Sub(rate, e.exchangeRate)), tolerance))
  BY CompareResult
<1>. QED
  BY <1>2, <1>3 DEF Agrees

(* And without an answer for its pair it agrees with none. *)
LEMMA AgreesNone ==
  ASSUME NEW e, NEW date \in TimeSet, NEW given, NEW tolerance,
         \A a \in given : a.request # rateRequest(e, date)
  PROVE  ~Agrees(e, date, given, tolerance)
<1>1. UTC(date) = [at |-> date.at, zone |-> "UTC"]
  BY DEF UTC, TimeSet
<1>. QED
  BY <1>1 DEF Agrees, rateRequest
===============================================================================
