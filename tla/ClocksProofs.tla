------------------------------ MODULE ClocksProofs ------------------------------
(***************************************************************************)
(* Theorems about Clocks, for any number of goroutines, clocks, options    *)
(* and ledgers.  A clock that was never chosen, or is a nil function,      *)
(* shows the time of the system, and no PostedAt is ahead of its clock.    *)
(***************************************************************************)
EXTENDS Clocks, WellFoundedInduction, TLAPS

(***************************************************************************)
(* The options.  The fold over them is a function of the sets of their     *)
(* places, read from the highest place down.                               *)
(***************************************************************************)
given(opts, places) == {i \in places : opts[i] # "nil option"}

lastGiven(opts, places) ==
  IF given(opts, places) = {} THEN "nil" ELSE opts[Max(given(opts, places))]

Folded(fold, opts, n) ==
  fold = [places \in SUBSET (1 .. n) |->
            IF places = {} THEN "nil"
            ELSE IF opts[Max(places)] = "nil option" THEN fold[places \ {Max(places)}]
            ELSE opts[Max(places)]]

LEMMA MaxIs ==
  ASSUME NEW n \in Nat, NEW S \in SUBSET (1 .. n), S # {}
  PROVE  Max(S) \in S /\ \A i \in S : Max(S) >= i
<1>. DEFINE fromTop == {n - i : i \in S}
<1>1. fromTop \subseteq Nat /\ fromTop # {}
  <2>1. \A i \in S : i \in Int /\ 1 <= i /\ i <= n
    OBVIOUS
  <2>2. \A i \in S : n - i \in Nat
    BY <2>1
  <2>. QED
    BY <2>2
<1>. HIDE DEF fromTop
<1>2. PICK k \in fromTop : \A j \in fromTop : <<j, k>> \notin OpToRel(<, Nat)
  BY <1>1, WFMin, NatLessThanWellFounded, Zenon
<1>3. \A j \in fromTop : ~(j < k)
  BY <1>1, <1>2 DEF OpToRel
<1>4. PICK i \in S : k = n - i
  BY DEF fromTop
<1>5. \A j \in S : i >= j
  BY <1>3, <1>4 DEF fromTop
<1>. QED
  BY <1>4, <1>5 DEF Max

LEMMA MaxIsOnly ==
  ASSUME NEW n \in Nat, NEW S \in SUBSET (1 .. n), NEW i \in S, \A j \in S : i >= j
  PROVE  Max(S) = i
<1>1. Max(S) \in S /\ Max(S) >= i
  BY MaxIs
<1>2. \A j \in S : j \in Int
  OBVIOUS
<1>3. i >= Max(S) /\ i \in Int /\ Max(S) \in Int
  BY <1>1, <1>2
<1>. QED
  BY <1>1, <1>3

(* The equation of the fold has a solution: the last option given. *)
LEMMA FoldExists ==
  ASSUME NEW opts, NEW n \in Nat
  PROVE  Folded([places \in SUBSET (1 .. n) |-> lastGiven(opts, places)], opts, n)
<1>. DEFINE fold == [places \in SUBSET (1 .. n) |-> lastGiven(opts, places)]
<1>1. ASSUME NEW places \in SUBSET (1 .. n)
      PROVE  lastGiven(opts, places) =
               IF places = {} THEN "nil"
               ELSE IF opts[Max(places)] = "nil option"
                    THEN lastGiven(opts, places \ {Max(places)})
               ELSE opts[Max(places)]
  <2>1. CASE places = {}
    BY <2>1 DEF lastGiven, given
  <2>2. CASE places # {}
    <3>1. Max(places) \in places /\ \A i \in places : Max(places) >= i
      BY <2>2, MaxIs
    <3>2. ASSUME opts[Max(places)] # "nil option"
          PROVE  lastGiven(opts, places) = opts[Max(places)]
      <4>1. /\ given(opts, places) \in SUBSET (1 .. n)
            /\ Max(places) \in given(opts, places)
            /\ \A i \in given(opts, places) : Max(places) >= i
        BY <3>1, <3>2 DEF given
      <4>2. Max(given(opts, places)) = Max(places)
        BY <4>1, MaxIsOnly
      <4>. QED
        BY <4>1, <4>2 DEF lastGiven
    <3>3. ASSUME opts[Max(places)] = "nil option"
          PROVE  lastGiven(opts, places) = lastGiven(opts, places \ {Max(places)})
      <4>1. given(opts, places) = given(opts, places \ {Max(places)})
        BY <3>3 DEF given
      <4>. QED
        BY <4>1 DEF lastGiven
    <3>. QED
      BY <2>2, <3>2, <3>3
  <2>. QED
    BY <2>1, <2>2
<1>2. \A places \in SUBSET (1 .. n) :
        places # {} => places \ {Max(places)} \in SUBSET (1 .. n)
  OBVIOUS
<1>3. \A places \in SUBSET (1 .. n) : fold[places] = lastGiven(opts, places)
  OBVIOUS
<1>4. fold = [places \in SUBSET (1 .. n) |->
                IF places = {} THEN "nil"
                ELSE IF opts[Max(places)] = "nil option" THEN fold[places \ {Max(places)}]
                ELSE opts[Max(places)]]
  <2>1. \A places \in SUBSET (1 .. n) :
          fold[places] = IF places = {} THEN "nil"
                         ELSE IF opts[Max(places)] = "nil option"
                              THEN fold[places \ {Max(places)}]
                         ELSE opts[Max(places)]
    <3>. HIDE DEF fold
    <3>. QED
      BY <1>1, <1>2, <1>3
  <2>. QED
    BY <2>1
<1>. QED
  BY <1>4 DEF Folded

(* It has no other one at the places up to a number. *)
LEMMA FoldUnique ==
  ASSUME NEW opts, NEW n \in Nat, NEW fold, Folded(fold, opts, n)
  PROVE  fold[1 .. n] = lastGiven(opts, 1 .. n)
<1>. DEFINE solved == [places \in SUBSET (1 .. n) |-> lastGiven(opts, places)]
            differ == {k \in 0 .. n : fold[1 .. k] # solved[1 .. k]}
<1>1. Folded(solved, opts, n)
  BY FoldExists
<1>. HIDE DEF solved
<1>2. ASSUME NEW k \in 0 .. n, k # 0, NEW f, Folded(f, opts, n)
      PROVE  f[1 .. k] = IF opts[k] = "nil option" THEN f[1 .. k - 1] ELSE opts[k]
  <2>1. 1 .. k \in SUBSET (1 .. n) /\ 1 .. k # {} /\ (1 .. k) \ {k} = 1 .. k - 1
    BY <1>2
  <2>2. Max(1 .. k) = k
    <3>1. k \in 1 .. k /\ \A j \in 1 .. k : k >= j
      BY <1>2
    <3>. QED
      BY <2>1, <3>1, MaxIsOnly
  <2>3. f[1 .. k] = IF 1 .. k = {} THEN "nil"
                    ELSE IF opts[Max(1 .. k)] = "nil option" THEN f[(1 .. k) \ {Max(1 .. k)}]
                    ELSE opts[Max(1 .. k)]
    BY <1>2, <2>1, Zenon DEF Folded
  <2>. QED
    BY <2>1, <2>2, <2>3
<1>3. \A f : Folded(f, opts, n) => f[1 .. 0] = "nil"
  <2>1. 1 .. 0 \in SUBSET (1 .. n) /\ 1 .. 0 = {}
    OBVIOUS
  <2>. QED
    BY <2>1, Zenon DEF Folded
<1>4. differ = {}
  <2>. SUFFICES ASSUME differ # {}
                PROVE  FALSE
    OBVIOUS
  <2>1. differ \subseteq Nat
    OBVIOUS
  <2>2. PICK k \in differ : \A j \in differ : <<j, k>> \notin OpToRel(<, Nat)
    BY <2>1, WFMin, NatLessThanWellFounded, Zenon
  <2>3. \A j \in differ : ~(j < k)
    BY <2>1, <2>2 DEF OpToRel
  <2>4. k # 0
    BY <1>1, <1>3
  <2>5. k \in 0 .. n /\ k - 1 \in 0 .. n /\ k - 1 < k
    BY <2>4
  <2>6. fold[1 .. k - 1] = solved[1 .. k - 1]
    BY <2>3, <2>5
  <2>7. fold[1 .. k] = solved[1 .. k]
    BY <1>1, <1>2, <2>4, <2>5, <2>6
  <2>. QED
    BY <2>7
<1>5. fold[1 .. n] = solved[1 .. n]
  BY <1>4
<1>. QED
  BY <1>5 DEF solved

LEMMA Applied ==
  ASSUME NEW opts, NEW n \in Nat, DOMAIN opts = 1 .. n
  PROVE  applied(opts) = lastGiven(opts, 1 .. n)
<1>. DEFINE fold == CHOOSE f : Folded(f, opts, n)
<1>1. applied(opts) = fold[1 .. n]
  BY Zenon DEF applied, FoldLeft, MapThenFoldSet, Folded
<1>2. Folded(fold, opts, n)
  BY FoldExists, Zenon
<1>. HIDE DEF fold
<1>. QED
  BY <1>1, <1>2, FoldUnique

(* A clock is the one that was chosen, or a nil function in its place. *)
Means(clock, chosen) ==
  /\ chosen \in Clocks
  /\ clock = chosen \/ (clock = "ClockFunc(nil)" /\ chosen = "time.Now")

LEMMA Meant ==
  ASSUME NEW opts \in OptionLists
  PROVE  Means(orDefault(applied(opts)), Chosen(opts))
<1>1. PICK n \in Nat : DOMAIN opts = 1 .. n /\ \A i \in 1 .. n : opts[i] \in Options
  <2>1. \E n \in 0 .. MaxOptions : opts \in [1 .. n -> Options]
    BY Zenon DEF OptionLists
  <2>2. \A n \in 0 .. MaxOptions : n \in Nat
    OBVIOUS
  <2>3. PICK n \in Nat : opts \in [1 .. n -> Options]
    BY <2>1, <2>2, Zenon
  <2>. QED
    BY <2>3
<1>. DEFINE ones == given(opts, DOMAIN opts)
            last == CHOOSE i \in ones : \A j \in ones : j <= i
<1>2. ones \in SUBSET (1 .. n) /\ \A i \in ones : opts[i] \in Options \ {"nil option"}
  BY <1>1 DEF given
<1>3. applied(opts) = IF ones = {} THEN "nil" ELSE opts[Max(ones)]
  <2>1. applied(opts) = lastGiven(opts, DOMAIN opts)
    BY <1>1, Applied
  <2>. QED
    BY <2>1 DEF lastGiven
<1>4. Chosen(opts) = IF ones # {} /\ opts[last] \in Injected THEN opts[last] ELSE "time.Now"
  BY Zenon DEF Chosen, given
<1>. HIDE DEF ones
<1>5. CASE ones = {}
  BY <1>3, <1>4, <1>5 DEF orDefault, Means, Clocks
<1>6. CASE ones # {}
  <2>1. Max(ones) \in ones /\ \A i \in ones : Max(ones) >= i
    BY <1>2, <1>6, MaxIs
  <2>2. last = Max(ones)
    <3>1. \A i \in ones : i \in Int
      <4>1. \A i \in 1 .. n : i \in Int
        OBVIOUS
      <4>. QED
        BY <1>2, <4>1, Zenon
    <3>2. \A i \in ones : i <= Max(ones)
      BY <2>1, <3>1
    <3>3. last \in ones /\ \A i \in ones : i <= last
      BY <2>1, <3>2, Zenon
    <3>. HIDE DEF last
    <3>4. last <= Max(ones) /\ Max(ones) <= last
      BY <2>1, <3>2, <3>3
    <3>. QED
      BY <2>1, <3>1, <3>3, <3>4
  <2>. HIDE DEF last
  <2>3. opts[last] \in Options \ {"nil option"}
    BY <1>2, <2>1, <2>2
  <2>4. /\ applied(opts) = opts[last]
        /\ Chosen(opts) = IF opts[last] \in Injected THEN opts[last] ELSE "time.Now"
    BY <1>3, <1>4, <1>6, <2>2
  <2>. QED
    BY <2>3, <2>4, ClocksAssumption DEF Options, orDefault, Means, Clocks
<1>. QED
  BY <1>5, <1>6

(* The clock of a ledger is that of the builder its call makes. *)
LEMMA PassedOn ==
  ASSUME NEW clock, NEW chosen, Means(clock, chosen)
  PROVE  orDefault(applied(<<clock>>)) = clock
<1>1. clock # "nil option" /\ clock # "nil"
  BY ClocksAssumption DEF Means, Clocks
<1>. PICK opts : opts = <<clock>>
  OBVIOUS
<1>2. DOMAIN opts = 1 .. 1 /\ opts[1] = clock
  OBVIOUS
<1>3. given(opts, 1 .. 1) = {1}
  <2>1. 1 .. 1 = {1}
    OBVIOUS
  <2>. QED
    BY <1>1, <1>2, <2>1 DEF given
<1>4. Max({1}) = 1
  <2>1. {1} \in SUBSET (1 .. 1) /\ 1 \in {1} /\ \A j \in {1} : 1 >= j
    OBVIOUS
  <2>. QED
    BY <2>1, MaxIsOnly
<1>5. lastGiven(opts, 1 .. 1) = clock
  BY <1>2, <1>3, <1>4 DEF lastGiven
<1>6. applied(opts) = lastGiven(opts, 1 .. 1)
  BY <1>2, Applied
<1>. QED
  BY <1>1, <1>5, <1>6 DEF orDefault

(* It shows the time of the one that was chosen. *)
LEMMA Shown ==
  ASSUME NEW clock, NEW chosen, Means(clock, chosen), NEW time \in Nat
  PROVE  /\ Offset[chosen] \in Nat
         /\ Now(clock, time) = time + Offset[chosen]
         /\ Now(chosen, time) = time + Offset[chosen]
BY ClocksAssumption DEF Means, Clocks, Now

(***************************************************************************)
(* The invariant: of the clocks, and of the times read off them.           *)
(***************************************************************************)
ClocksMeant ==
  /\ ledgers \in Seq([clock : Clocks \cup {"ClockFunc(nil)"}, chosen : Clocks])
  /\ \A l \in DOMAIN ledgers : Means(ledgers[l].clock, ledgers[l].chosen)
  /\ \A g \in Goroutines : Means(orDefault(builder[g].clock), builder[g].chosen)

NoneAhead ==
  /\ now \in Nat
  /\ latest \in [Clocks -> Nat] /\ floor \in [Goroutines -> [Clocks -> Nat]]
  /\ \A c \in Clocks : latest[c] <= now + Offset[c]
  /\ \A g \in Goroutines, c \in Clocks : floor[g][c] <= now + Offset[c]

PostedWithin ==
  \A g \in Goroutines : pc[g] = "posted" =>
    /\ postedAt[g] \in Nat
    /\ floor[g][builder[g].chosen] <= postedAt[g]
    /\ postedAt[g] <= now + Offset[builder[g].chosen]

IInv ==
  /\ DOMAIN builder = Goroutines /\ DOMAIN pc = Goroutines /\ DOMAIN postedAt = Goroutines
  /\ ClocksMeant /\ NoneAhead /\ PostedWithin

LEMMA DefaultMeant == Means("time.Now", "time.Now") /\ Means(orDefault("nil"), "time.Now")
BY DEF Means, Clocks, orDefault

LEMMA InitHolds ==
  ASSUME Init
  PROVE  IInv
<1>1. \A c \in Clocks : Offset[c] \in Nat
  BY ClocksAssumption DEF Clocks
<1>2. NoneAhead
  BY <1>1 DEF Init, NoneAhead
<1>3. ClocksMeant
  BY DefaultMeant DEF Init, ClocksMeant, noBuilder
<1>4. PostedWithin
  BY DEF Init, PostedWithin
<1>. QED
  BY <1>2, <1>3, <1>4 DEF Init, IInv

(* A builder is another one of those made before, or a new one. *)
LEMMA MadeMeant ==
  ASSUME NEW clock, NEW chosen, NEW byHand, Means(orDefault(clock), chosen)
  PROVE  Means(orDefault(newBuilder(clock, chosen, byHand).clock),
               newBuilder(clock, chosen, byHand).chosen)
BY DEF newBuilder

LEMMA StepKeeps ==
  ASSUME IInv, [Next]_vars
  PROVE  IInv'
<1>. USE DEF IInv
<1>1. CASE UNCHANGED vars
  BY <1>1 DEF vars, ClocksMeant, NoneAhead, PostedWithin
<1>2. CASE NewLedger
  <2>1. PICK opts \in OptionLists :
          ledgers' = Append(ledgers, [clock |-> orDefault(applied(opts)), chosen |-> Chosen(opts)])
    BY <1>2 DEF NewLedger
  <2>2. UNCHANGED <<now, builder, pc, postedAt, latest, floor>>
    BY <1>2 DEF NewLedger
  <2>3. Means(orDefault(applied(opts)), Chosen(opts))
    BY Meant
  <2>4. ClocksMeant'
    <3>. PICK c : c = orDefault(applied(opts))
      OBVIOUS
    <3>. PICK d : d = Chosen(opts)
      OBVIOUS
    <3>1. Means(c, d) /\ ledgers' = Append(ledgers, [clock |-> c, chosen |-> d])
      BY <2>1, <2>3
    <3>. QED
      BY <2>2, <3>1 DEF ClocksMeant, Means
  <2>. QED
    BY <2>2, <2>4 DEF NoneAhead, PostedWithin
<1>3. CASE UpdateConfig
  <2>1. PICK l \in DOMAIN ledgers :
          ledgers' = Append(ledgers, [clock |-> inheritedClock(l), chosen |-> ledgers[l].chosen])
    BY <1>3 DEF UpdateConfig
  <2>2. UNCHANGED <<now, builder, pc, postedAt, latest, floor>>
    BY <1>3 DEF UpdateConfig
  <2>3. Means(inheritedClock(l), ledgers[l].chosen)
    BY DEF ClocksMeant, inheritedClock
  <2>4. ClocksMeant'
    <3>. PICK c : c = inheritedClock(l)
      OBVIOUS
    <3>. PICK d : d = ledgers[l].chosen
      OBVIOUS
    <3>1. Means(c, d) /\ ledgers' = Append(ledgers, [clock |-> c, chosen |-> d])
      BY <2>1, <2>3
    <3>. QED
      BY <2>2, <3>1 DEF ClocksMeant, Means
  <2>. QED
    BY <2>2, <2>4 DEF NoneAhead, PostedWithin
<1>4. CASE Tick
  <2>1. now' = now + 1 /\ UNCHANGED <<ledgers, builder, pc, postedAt, latest, floor>>
    BY <1>4 DEF Tick
  <2>2. \A c \in Clocks : Offset[c] \in Nat
    BY ClocksAssumption DEF Clocks
  <2>3. NoneAhead'
    <3>1. now \in Nat /\ now' \in Nat
      BY <2>1 DEF NoneAhead
    <3>2. ASSUME NEW c \in Clocks
          PROVE  /\ latest[c] <= now' + Offset[c]
                 /\ \A g \in Goroutines : floor[g][c] <= now' + Offset[c]
      BY <2>1, <2>2 DEF NoneAhead
    <3>. QED
      BY <2>1, <3>1, <3>2 DEF NoneAhead
  <2>4. PostedWithin'
    <3>1. \A g \in Goroutines : builder[g].chosen \in Clocks
      BY DEF ClocksMeant, Means
    <3>2. now \in Nat
      BY DEF NoneAhead
    <3>. QED
      BY <2>1, <2>2, <3>1, <3>2 DEF PostedWithin
  <2>. QED
    BY <2>1, <2>3, <2>4 DEF ClocksMeant
<1>5. ASSUME NEW g \in Goroutines, NewTxBuilder(g)
      PROVE  IInv'
  <2>1. PICK clock, chosen, byHand :
          /\ builder' = [builder EXCEPT ![g] = newBuilder(clock, chosen, byHand)]
          /\ Means(orDefault(clock), chosen)
    <3>1. PICK b \in {newBuilder(orDefault(applied(opts)), Chosen(opts), TRUE) : opts \in OptionLists}
                       \cup {newBuilder("nil", "time.Now", TRUE)} :
            builder' = [builder EXCEPT ![g] = b]
      BY <1>5 DEF NewTxBuilder
    <3>2. CASE b = newBuilder("nil", "time.Now", TRUE)
      BY <3>1, <3>2, DefaultMeant
    <3>3. CASE b \in {newBuilder(orDefault(applied(opts)), Chosen(opts), TRUE) : opts \in OptionLists}
      <4>1. PICK opts \in OptionLists :
              b = newBuilder(orDefault(applied(opts)), Chosen(opts), TRUE)
        BY <3>3
      <4>2. \A c : orDefault(orDefault(c)) = orDefault(c)
        BY DEF orDefault
      <4>3. Means(orDefault(orDefault(applied(opts))), Chosen(opts))
        BY <4>2, Meant
      <4>. QED
        BY <3>1, <4>1, <4>3
    <3>. QED
      BY <3>1, <3>2, <3>3
  <2>2. /\ pc' = [pc EXCEPT ![g] = "made"]
        /\ UNCHANGED <<now, ledgers, postedAt, latest, floor>>
    BY <1>5 DEF NewTxBuilder
  <2>3. ClocksMeant'
    BY <2>1, <2>2, MadeMeant DEF ClocksMeant
  <2>4. PostedWithin'
    BY <2>1, <2>2 DEF PostedWithin
  <2>. QED
    BY <2>1, <2>2, <2>3, <2>4 DEF NoneAhead
<1>6. ASSUME NEW g \in Goroutines, Build(g)
      PROVE  IInv'
  <2>1. /\ pc' = [pc EXCEPT ![g] = "checks"]
        /\ floor' = [floor EXCEPT ![g] = latest]
        /\ UNCHANGED <<now, ledgers, builder, postedAt, latest>>
    BY <1>6 DEF Build
  <2>2. NoneAhead' /\ PostedWithin'
    BY <2>1 DEF NoneAhead, PostedWithin
  <2>. QED
    BY <2>1, <2>2 DEF ClocksMeant
<1>7. ASSUME NEW g \in Goroutines, ValidateTransaction(g)
      PROVE  IInv'
  <2>1. PICK l \in DOMAIN ledgers :
          builder' = [builder EXCEPT ![g] =
            newBuilder(orDefault(applied(<<ledgers[l].clock>>)), ledgers[l].chosen, FALSE)]
    BY <1>7 DEF ValidateTransaction
  <2>2. /\ pc' = [pc EXCEPT ![g] = "checks"]
        /\ floor' = [floor EXCEPT ![g] = latest]
        /\ UNCHANGED <<now, ledgers, postedAt, latest>>
    BY <1>7 DEF ValidateTransaction
  <2>3. PICK clock, chosen :
          /\ Means(orDefault(clock), chosen)
          /\ builder' = [builder EXCEPT ![g] = newBuilder(clock, chosen, FALSE)]
    <3>1. Means(ledgers[l].clock, ledgers[l].chosen)
      BY DEF ClocksMeant
    <3>2. orDefault(applied(<<ledgers[l].clock>>)) = ledgers[l].clock
      BY <3>1, PassedOn
    <3>3. orDefault(ledgers[l].clock) = ledgers[l].clock
      BY <3>2 DEF orDefault
    <3>. QED
      BY <2>1, <3>1, <3>2, <3>3
  <2>4. ClocksMeant'
    BY <2>2, <2>3, MadeMeant DEF ClocksMeant
  <2>5. NoneAhead' /\ PostedWithin'
    BY <2>1, <2>2 DEF NoneAhead, PostedWithin
  <2>. QED
    BY <2>2, <2>3, <2>4, <2>5
<1>8. ASSUME NEW g \in Goroutines, drop(g), UNCHANGED <<now, ledgers>>,
             latest' \in [Clocks -> Nat],
             \A c \in Clocks : latest'[c] <= now + Offset[c]
      PROVE  IInv'
  <2>1. /\ pc' = [pc EXCEPT ![g] = "idle"]
        /\ builder' = [builder EXCEPT ![g] = noBuilder]
        /\ postedAt' = [postedAt EXCEPT ![g] = 0]
        /\ floor' = [floor EXCEPT ![g] = [c \in Clocks |-> 0]]
    BY <1>8 DEF drop
  <2>2. ClocksMeant'
    BY <1>8, <2>1, DefaultMeant DEF ClocksMeant, noBuilder
  <2>3. NoneAhead'
    <3>1. now \in Nat /\ \A c \in Clocks : Offset[c] \in Nat
      BY ClocksAssumption DEF NoneAhead, Clocks
    <3>2. floor' \in [Goroutines -> [Clocks -> Nat]]
      BY <2>1 DEF NoneAhead
    <3>3. \A h \in Goroutines, c \in Clocks : floor'[h][c] <= now + Offset[c]
      BY <2>1, <3>1 DEF NoneAhead
    <3>. QED
      BY <1>8, <3>1, <3>2, <3>3 DEF NoneAhead
  <2>4. PostedWithin'
    BY <1>8, <2>1 DEF PostedWithin
  <2>. QED
    BY <2>1, <2>2, <2>3, <2>4
<1>9. ASSUME NEW g \in Goroutines, Reject(g)
      PROVE  IInv'
  <2>1. CASE drop(g)
    <3>1. UNCHANGED <<now, ledgers, latest>>
      BY <1>9 DEF Reject
    <3>. QED
      BY <1>8, <2>1, <3>1 DEF NoneAhead
  <2>2. CASE pc' = [pc EXCEPT ![g] = "made"] /\ UNCHANGED <<builder, postedAt, floor>>
    <3>1. UNCHANGED <<now, ledgers, latest>>
      BY <1>9 DEF Reject
    <3>. QED
      BY <2>2, <3>1 DEF ClocksMeant, NoneAhead, PostedWithin
  <2>. QED
    BY <1>9, <2>1, <2>2 DEF Reject
<1>10. ASSUME NEW g \in Goroutines, Post(g)
       PROVE  IInv'
  <2>1. /\ pc' = [pc EXCEPT ![g] = "posted"]
        /\ postedAt' = [postedAt EXCEPT ![g] = reading(g)]
        /\ UNCHANGED <<now, ledgers, builder, latest, floor>>
    BY <1>10 DEF Post
  <2>2. /\ Offset[builder[g].chosen] \in Nat /\ builder[g].chosen \in Clocks
        /\ reading(g) = now + Offset[builder[g].chosen]
    <3>1. Means(orDefault(builder[g].clock), builder[g].chosen) /\ now \in Nat
      BY DEF ClocksMeant, NoneAhead
    <3>. QED
      BY <3>1, Shown DEF reading, Means
  <2>3. PostedWithin'
    <3>1. floor[g][builder[g].chosen] <= now + Offset[builder[g].chosen] /\ now \in Nat
      BY <2>2 DEF NoneAhead
    <3>. QED
      BY <2>1, <2>2, <3>1 DEF PostedWithin
  <2>. QED
    BY <2>1, <2>3 DEF ClocksMeant, NoneAhead
<1>11. ASSUME NEW g \in Goroutines, Return(g)
       PROVE  IInv'
  <2>1. /\ drop(g) /\ pc[g] = "posted" /\ UNCHANGED <<now, ledgers>>
        /\ latest' = [latest EXCEPT ![builder[g].chosen] =
                        IF postedAt[g] > @ THEN postedAt[g] ELSE @]
    BY <1>11 DEF Return
  <2>2. latest' \in [Clocks -> Nat] /\ \A c \in Clocks : latest'[c] <= now + Offset[c]
    <3>1. postedAt[g] \in Nat /\ postedAt[g] <= now + Offset[builder[g].chosen]
      BY <2>1 DEF PostedWithin
    <3>. QED
      BY <2>1, <3>1 DEF NoneAhead
  <2>. QED
    BY <1>8, <2>1, <2>2
<1>. QED
  BY <1>1, <1>2, <1>3, <1>4, <1>5, <1>6, <1>7, <1>9, <1>10, <1>11 DEF Next

(* Every clock in use is the one its owner chose, and neither a posted nor *)
(* a returned transaction is dated ahead of it.                            *)
THEOREM Inductive == Spec => []IInv
<1>1. Init => IInv
  BY InitHolds
<1>2. IInv /\ [Next]_vars => IInv'
  BY StepKeeps
<1>. QED
  BY <1>1, <1>2, PTL DEF Spec

(* Transactions of one clock are posted in order, whichever goroutines     *)
(* build them and however old their builders and ledgers are.              *)
THEOREM InOrder == Spec => []PostedInOrder
<1>1. IInv => PostedInOrder
  BY DEF IInv, ClocksMeant, Means, NoneAhead, PostedWithin, PostedInOrder
<1>. QED
  BY <1>1, Inductive, PTL

LEMMA StepPosts ==
  ASSUME IInv, [Next]_vars, NEW g \in Goroutines, pc'[g] = "posted", pc[g] # "posted"
  PROVE  postedAt'[g] = Now(builder[g].chosen, now)
<1>1. DOMAIN pc = Goroutines /\ DOMAIN postedAt = Goroutines
  BY DEF IInv
<1>2. Post(g)
  <2>1. pc' # pc
    OBVIOUS
  <2>2. ~UNCHANGED vars /\ ~NewLedger /\ ~UpdateConfig /\ ~Tick
    BY <2>1 DEF vars, NewLedger, UpdateConfig, Tick
  <2>3. \A h \in Goroutines :
          ~NewTxBuilder(h) /\ ~Build(h) /\ ~ValidateTransaction(h) /\ ~Reject(h) /\ ~Return(h)
    BY <1>1 DEF NewTxBuilder, Build, ValidateTransaction, Reject, Return, drop
  <2>4. PICK h \in Goroutines : Post(h)
    BY <2>2, <2>3 DEF Next
  <2>. QED
    BY <1>1, <2>4 DEF Post
<1>3. Means(orDefault(builder[g].clock), builder[g].chosen) /\ now \in Nat
  BY DEF IInv, ClocksMeant, NoneAhead
<1>. QED
  BY <1>1, <1>2, <1>3, Shown DEF Post, reading

(* PostedAt is read off the clock that was chosen, while Build ran.        *)
THEOREM ByChosenClock == Spec => PostedByChosenClock
<1>1. IInv /\ [Next]_vars =>
        [\A g \in Goroutines : pc'[g] = "posted" /\ pc[g] # "posted" =>
           postedAt'[g] = Now(builder[g].chosen, now)]_vars
  BY StepPosts
<1>. QED
  BY <1>1, Inductive, PTL DEF Spec, PostedByChosenClock
================================================================================
