----------------------------- MODULE GeneratorProofs -----------------------------
(***************************************************************************)
(* Theorems about Generator, for all lists its maintainers may publish:    *)
(* lists of any length, whose rows say anything the XML can say.           *)
(***************************************************************************)
EXTENDS Generator, FiniteSetTheorems, TLAPS

(* Induction, for the set of the naturals a claim holds for. *)
LEMMA NatInductive ==
  ASSUME NEW S, 0 \in S, \A n \in Nat : n \in S => n + 1 \in S
  PROVE  Nat \subseteq S
<1>1. SUFFICES ASSUME Nat \ S # {}
               PROVE  FALSE
  OBVIOUS
<1>. DEFINE T == Nat \ S
<1>2. PICK n \in T : \A k \in T : <<k, n>> \notin OpToRel(<, Nat)
  BY <1>1, WFMin, NatLessThanWellFounded, Zenon
<1>3. \A k \in T : ~(k < n)
  BY <1>2 DEF OpToRel
<1>4. n # 0 /\ n - 1 \in Nat /\ n - 1 < n
  OBVIOUS
<1>5. n - 1 \in S
  BY <1>3, <1>4
<1>6. (n - 1) + 1 \in S
  BY <1>4, <1>5
<1>. QED
  BY <1>4, <1>6

-------------------------------------------------------------------------------
(***************************************************************************)
(* sort.Slice: there is an order to sort in.                               *)
(***************************************************************************)
(* A sequence of integers has a highest one. *)
LEMMA Highest ==
  ASSUME NEW n \in Nat, NEW c \in [1 .. n + 1 -> Int]
  PROVE  \E top \in 1 .. n + 1 : \A i \in 1 .. n + 1 : c[i] <= c[top]
<1>. DEFINE HasOne(k) == \E top \in 1 .. k + 1 : \A i \in 1 .. k + 1 : c[i] <= c[top]
            S == {k \in Nat : k <= n => HasOne(k)}
<1>1. 0 \in S
  <2>1. c[1] <= c[1] /\ 1 .. 0 + 1 = {1}
    OBVIOUS
  <2>. QED
    BY <2>1
<1>2. ASSUME NEW k \in Nat, k \in S
      PROVE  k + 1 \in S
  <2>1. SUFFICES ASSUME k + 1 <= n
                 PROVE  HasOne(k + 1)
    OBVIOUS
  <2>2. PICK top \in 1 .. k + 1 : \A i \in 1 .. k + 1 : c[i] <= c[top]
    BY <1>2, <2>1
  <2>3. c[top] \in Int /\ c[k + 2] \in Int
    BY <2>1
  <2>4. CASE c[k + 2] <= c[top]
    <3>1. \A i \in 1 .. (k + 1) + 1 : c[i] <= c[top]
      BY <2>2, <2>4
    <3>. QED
      BY <3>1
  <2>5. CASE c[top] < c[k + 2]
    <3>1. ASSUME NEW i \in 1 .. k + 1
          PROVE  c[i] <= c[k + 2]
      <4>1. c[i] \in Int /\ c[i] <= c[top]
        BY <2>1, <2>2
      <4>. QED
        BY <2>3, <2>5, <4>1
    <3>2. \A i \in 1 .. (k + 1) + 1 : c[i] <= c[k + 2]
      BY <2>3, <3>1
    <3>. QED
      BY <3>2
  <2>. QED
    BY <2>3, <2>4, <2>5
<1>. HIDE DEF S
<1>3. Nat \subseteq S
  BY <1>1, <1>2, NatInductive
<1>4. n \in S
  BY <1>3
<1>. QED
  BY <1>4 DEF S

(* The permutations that bring a sequence of integers in order. *)
Orders(c, n) ==
  {p \in Bijection(1 .. n, 1 .. n) : \A i, j \in 1 .. n : i < j => c[p[i]] <= c[p[j]]}

(* One exists: the last place is for a highest one, and what was there     *)
(* takes its place among the others.                                       *)
LEMMA LastInOrder ==
  ASSUME NEW n \in Nat, NEW c \in [1 .. n + 1 -> Int],
         \A d \in [1 .. n -> Int] : Orders(d, n) # {}
  PROVE  Orders(c, n + 1) # {}
<1>1. PICK top \in 1 .. n + 1 : \A i \in 1 .. n + 1 : c[i] <= c[top]
  BY Highest
<1>. DEFINE d == [i \in 1 .. n |-> IF i = top THEN c[n + 1] ELSE c[i]]
<1>2. d \in [1 .. n -> Int]
  OBVIOUS
<1>3. PICK q \in Orders(d, n) : TRUE
  BY <1>2
<1>4. /\ q \in [1 .. n -> 1 .. n]
      /\ \A i, j \in 1 .. n : q[i] = q[j] => i = j
      /\ \A k \in 1 .. n : \E i \in 1 .. n : q[i] = k
      /\ \A i, j \in 1 .. n : i < j => d[q[i]] <= d[q[j]]
  BY <1>3 DEF Orders, Bijection, Injection, Surjection, IsInjective
<1>. DEFINE p == [i \in 1 .. n + 1 |-> IF i = n + 1 THEN top
                                      ELSE IF q[i] = top THEN n + 1 ELSE q[i]]
<1>5. /\ p[n + 1] = top
      /\ \A i \in 1 .. n : /\ i \in 1 .. n + 1
                          /\ i # n + 1
                          /\ q[i] \in 1 .. n /\ q[i] # n + 1
                          /\ p[i] = IF q[i] = top THEN n + 1 ELSE q[i]
      /\ \A i \in 1 .. n + 1 : i \in 1 .. n \/ i = n + 1
  <2>1. \A i \in 1 .. n : i \in 1 .. n + 1 /\ i # n + 1 /\ q[i] \in 1 .. n /\ q[i] # n + 1
    BY <1>4
  <2>2. n + 1 \in 1 .. n + 1
    OBVIOUS
  <2>. QED
    BY <2>1, <2>2
<1>. HIDE DEF p
<1>6. \A i \in 1 .. n : p[i] \in 1 .. n + 1 /\ c[p[i]] = d[q[i]] /\ p[i] # top
  BY <1>5
<1>7. /\ p \in [1 .. n + 1 -> 1 .. n + 1]
      /\ \A i, j \in 1 .. n + 1 : p[i] = p[j] => i = j
  <2>1. \A i \in 1 .. n + 1 : p[i] \in 1 .. n + 1
    BY <1>5, <1>6
  <2>2. \A i, j \in 1 .. n : p[i] = p[j] => i = j
    BY <1>4, <1>5
  <2>. QED
    BY <1>5, <1>6, <2>1, <2>2 DEF p
<1>8. \A k \in 1 .. n + 1 : \E i \in 1 .. n + 1 : p[i] = k
  <2>1. SUFFICES ASSUME NEW k \in 1 .. n + 1, k # top
                 PROVE  \E i \in 1 .. n : p[i] = k
    BY <1>5
  <2>2. CASE k = n + 1
    <3>1. top \in 1 .. n
      BY <2>1, <2>2
    <3>2. PICK i \in 1 .. n : q[i] = top
      BY <1>4, <3>1
    <3>. QED
      BY <1>5, <2>2, <3>2
  <2>3. CASE k # n + 1
    <3>1. PICK i \in 1 .. n : q[i] = k
      BY <1>4, <2>3
    <3>. QED
      BY <1>5, <2>1, <3>1
  <2>. QED
    BY <2>2, <2>3
<1>9. ASSUME NEW i \in 1 .. n + 1, NEW j \in 1 .. n + 1, i < j
      PROVE  c[p[i]] <= c[p[j]]
  <2>1. i \in 1 .. n
    BY <1>9
  <2>2. CASE j = n + 1
    BY <1>1, <1>5, <1>7, <2>2
  <2>3. CASE j # n + 1
    <3>1. j \in 1 .. n
      BY <2>3
    <3>. QED
      BY <1>4, <1>6, <1>9, <2>1, <3>1
  <2>. QED
    BY <2>2, <2>3
<1>10. p \in Bijection(1 .. n + 1, 1 .. n + 1)
  BY <1>7, <1>8 DEF Bijection, Injection, Surjection, IsInjective
<1>11. p \in Orders(c, n + 1)
  BY <1>9, <1>10 DEF Orders
<1>. QED
  BY <1>11

LEMMA OrderExists ==
  ASSUME NEW n \in Nat, NEW c \in [1 .. n -> Int]
  PROVE  Orders(c, n) # {}
<1>. DEFINE S == {k \in Nat : \A d \in [1 .. k -> Int] : Orders(d, k) # {}}
<1>1. 0 \in S
  <2>1. SUFFICES ASSUME NEW d \in [1 .. 0 -> Int]
                 PROVE  Orders(d, 0) # {}
    OBVIOUS
  <2>2. 1 .. 0 = {}
    OBVIOUS
  <2>3. d \in Orders(d, 0)
    BY <2>2 DEF Orders, Bijection, Injection, Surjection, IsInjective
  <2>. QED
    BY <2>3
<1>2. ASSUME NEW k \in Nat, k \in S
      PROVE  k + 1 \in S
  <2>1. \A d \in [1 .. k -> Int] : Orders(d, k) # {}
    BY <1>2
  <2>2. \A d \in [1 .. k + 1 -> Int] : Orders(d, k + 1) # {}
    BY <2>1, LastInOrder
  <2>. QED
    BY <2>2
<1>. HIDE DEF S
<1>3. Nat \subseteq S
  BY <1>1, <1>2, NatInductive
<1>4. n \in S
  BY <1>3
<1>. QED
  BY <1>4, Zenon DEF S
(* What the rows of List One say, once they are read. *)
EntryType ==
  [code : Int, numeric : STRING, name : STRING, minorUnits : {0, 2, 3, 4},
   ratable : BOOLEAN, fund : BOOLEAN]

InOrder(table) == \A i, j \in DOMAIN table : i < j => table[i].code < table[j].code

(* Entries of different codes come out of a sort strictly in order. *)
LEMMA SortSorts ==
  ASSUME NEW entries \in Seq(EntryType),
         \A i, j \in DOMAIN entries : entries[i].code = entries[j].code => i = j
  PROVE  /\ sortSlice(entries) \in Seq(EntryType)
         /\ Range(sortSlice(entries)) = Range(entries)
         /\ InOrder(sortSlice(entries))
<1>. DEFINE n == Len(entries)
            c == [i \in 1 .. n |-> entries[i].code]
            D == DOMAIN entries
            P == Bijection(D, D)
            Sorts(p) == \A i, j \in D : i < j => entries[p[i]].code <= entries[p[j]].code
            order == CHOOSE p \in P : Sorts(p)
<1>1. n \in Nat /\ D = 1 .. n /\ \A i \in 1 .. n : entries[i] \in EntryType
  OBVIOUS
<1>2. c \in [1 .. n -> Int] /\ \A i \in 1 .. n : c[i] = entries[i].code
  BY <1>1 DEF EntryType
<1>3. \E p \in P : Sorts(p)
  <2>. HIDE DEF n, c
  <2>1. PICK p \in Orders(c, n) : TRUE
    BY <1>1, <1>2, OrderExists
  <2>2. /\ p \in P
        /\ \A i \in 1 .. n : p[i] \in 1 .. n
        /\ \A i, j \in 1 .. n : i < j => c[p[i]] <= c[p[j]]
    BY <1>1, <2>1 DEF Orders, Bijection, Injection, Surjection
  <2>3. Sorts(p)
    BY <1>1, <1>2, <2>2
  <2>. QED
    BY <2>2, <2>3
<1>4. order \in P /\ Sorts(order)
  <2>. HIDE DEF P, Sorts
  <2>. QED
    BY <1>3
<1>5. sortSlice(entries) = [i \in D |-> entries[order[i]]]
  BY Zenon DEF sortSlice
<1>. HIDE DEF order
<1>6. /\ order \in [1 .. n -> 1 .. n]
      /\ \A i, j \in 1 .. n : order[i] = order[j] => i = j
      /\ \A k \in 1 .. n : \E i \in 1 .. n : order[i] = k
  BY <1>1, <1>4 DEF Bijection, Injection, Surjection, IsInjective
<1>. HIDE DEF n
<1>7. sortSlice(entries) \in Seq(EntryType)
  BY <1>1, <1>5, <1>6
<1>8. Range(sortSlice(entries)) = Range(entries)
  <2>1. /\ DOMAIN sortSlice(entries) = 1 .. n
        /\ \A i \in 1 .. n : sortSlice(entries)[i] = entries[order[i]] /\ order[i] \in 1 .. n
    BY <1>1, <1>5, <1>6
  <2>2. Range(entries) = {entries[i] : i \in 1 .. n}
    BY <1>1, Zenon DEF Range
  <2>3. Range(sortSlice(entries)) = {sortSlice(entries)[i] : i \in 1 .. n}
    BY <2>1, Zenon DEF Range
  <2>4. \A i \in 1 .. n : entries[i] \in Range(sortSlice(entries))
    <3>1. SUFFICES ASSUME NEW i \in 1 .. n
                   PROVE  \E k \in 1 .. n : sortSlice(entries)[k] = entries[i]
      BY <2>3, Zenon
    <3>2. PICK k \in 1 .. n : order[k] = i
      BY <1>6
    <3>. QED
      BY <2>1, <3>2
  <2>5. \A i \in 1 .. n : sortSlice(entries)[i] \in Range(entries)
    BY <2>1, <2>2, Zenon
  <2>. HIDE DEF n
  <2>6. \A e \in Range(entries) : e \in Range(sortSlice(entries))
    BY <2>2, <2>4, Zenon
  <2>7. \A e \in Range(sortSlice(entries)) : e \in Range(entries)
    BY <2>3, <2>5, Zenon
  <2>. QED
    BY <2>6, <2>7, Zenon
<1>9. InOrder(sortSlice(entries))
  <2>1. SUFFICES ASSUME NEW i \in 1 .. n, NEW j \in 1 .. n, i < j
                 PROVE  entries[order[i]].code < entries[order[j]].code
    BY <1>1, <1>5 DEF InOrder
  <2>2. entries[order[i]].code <= entries[order[j]].code
    BY <1>1, <1>4, <2>1
  <2>3. order[i] # order[j] /\ order[i] \in 1 .. n /\ order[j] \in 1 .. n
    BY <1>1, <1>6, <2>1
  <2>4. entries[order[i]].code # entries[order[j]].code
    BY <1>1, <2>3
  <2>5. entries[order[i]].code \in Int /\ entries[order[j]].code \in Int
    BY <1>1, <2>3 DEF EntryType
  <2>. QED
    BY <2>2, <2>4, <2>5
<1>. QED
  BY <1>7, <1>8, <1>9

-------------------------------------------------------------------------------
(***************************************************************************)
(* makeEntry, and collectEntries row by row.                               *)
(***************************************************************************)
LEMMA RowsFailOrNot ==
  ASSUME NEW row \in Row
  PROVE  rowFails(row) <=> ~wellFormed(row)
<1>1. row.code = 0 => ~(row.code > 0)
  OBVIOUS
<1>2. row.minorUnits \in DOMAIN MinorUnits <=> row.minorUnits \in {"N.A.", "0", "2", "3", "4"}
  BY DEF MinorUnits
<1>. QED
  BY <1>1, <1>2, Zenon DEF rowFails, wellFormed, validateCode, validateNumeric

LEMMA EntryOfRow ==
  ASSUME NEW row \in Row, NEW funds, wellFormed(row), row.code # 0
  PROVE  /\ makeEntry(row, funds) \in EntryType
         /\ makeEntry(row, funds).code = row.code
         /\ row.code > 0
         /\ row.minorUnits \in {"N.A.", "0", "2", "3", "4"}
<1>1. row.code > 0 /\ row.minorUnits \in {"N.A.", "0", "2", "3", "4"}
  BY Zenon DEF wellFormed
<1>2. MinorUnits[row.minorUnits] \in {0, 2, 3, 4}
  BY <1>1 DEF MinorUnits
<1>. QED
  BY <1>1, <1>2 DEF makeEntry, EntryType, Row

(* An entry says exactly what its row does. *)
Says(row) == <<row.name, row.numeric, row.minorUnits>>

LEMMA EntriesSaySo ==
  ASSUME NEW a \in Row, NEW b \in Row, NEW funds,
         wellFormed(a), wellFormed(b), a.code # 0, a.code = b.code
  PROVE  makeEntry(a, funds) = makeEntry(b, funds) <=> Says(a) = Says(b)
<1>1. /\ a.minorUnits \in {"N.A.", "0", "2", "3", "4"}
      /\ b.minorUnits \in {"N.A.", "0", "2", "3", "4"}
  BY EntryOfRow
<1>2. \A raw \in {"N.A.", "0", "2", "3", "4"} :
        MinorUnits[raw] = CASE raw = "2" -> 2 [] raw = "3" -> 3 [] raw = "4" -> 4 [] OTHER -> 0
  BY DEF MinorUnits
<1>3. MinorUnits[a.minorUnits] = MinorUnits[b.minorUnits]
        /\ (a.minorUnits = "N.A." <=> b.minorUnits = "N.A.") => a.minorUnits = b.minorUnits
  BY <1>1, <1>2
<1>4. ASSUME makeEntry(a, funds) = makeEntry(b, funds)
      PROVE  Says(a) = Says(b)
  <2>1. /\ a.name = b.name /\ a.numeric = b.numeric
        /\ MinorUnits[a.minorUnits] = MinorUnits[b.minorUnits]
        /\ (a.minorUnits # "N.A.") = (b.minorUnits # "N.A.")
    BY <1>4 DEF makeEntry
  <2>. QED
    BY <1>3, <2>1 DEF Says
<1>5. ASSUME Says(a) = Says(b)
      PROVE  makeEntry(a, funds) = makeEntry(b, funds)
  BY <1>5, Zenon DEF Says, makeEntry
<1>. QED
  BY <1>4, <1>5
(* What is known after a row, of what was known before it. *)
Nothing == [seen |-> [code \in {} |-> 0], err |-> NoError]

Taken(done, row, i, funds) ==
  IF done.err # NoError THEN done
  ELSE IF rowFails(row) THEN [done EXCEPT !.err = Error("row", i)]
  ELSE IF row.code = 0 THEN done
  ELSE IF conflicts(done.seen, makeEntry(row, funds))
    THEN [done EXCEPT !.err = Error("code", row.code)]
  ELSE [done EXCEPT !.seen = store(@, makeEntry(row, funds))]

Body(f, i, rows, funds) ==
  IF i = 0 THEN Nothing ELSE Taken(f[i - 1], rows[i], i, funds)

(* The recursion over the rows has a solution. *)
LEMMA RowByRow ==
  ASSUME NEW rows \in Seq(Row), NEW funds
  PROVE  \E f : /\ f = [i \in 0 .. Len(rows) |-> Body(f, i, rows, funds)]
                /\ collectEntries(rows, funds) = f[Len(rows)]
<1>. DEFINE Solves(f, n) == f = [i \in 0 .. n |-> Body(f, i, rows, funds)]
            S == {n \in Nat : \E f : Solves(f, n)}
<1>1. 0 \in S
  <2>. DEFINE f == [i \in 0 .. 0 |-> Nothing]
  <2>1. \A i \in 0 .. 0 : Body(f, i, rows, funds) = Nothing
    BY DEF Body
  <2>2. Solves(f, 0)
    BY <2>1, Zenon
  <2>. QED
    BY <2>2
<1>2. ASSUME NEW n \in Nat, n \in S
      PROVE  n + 1 \in S
  <2>1. PICK f : Solves(f, n)
    BY <1>2
  <2>. DEFINE g == [i \in 0 .. n + 1 |-> IF i = n + 1 THEN Body(f, i, rows, funds) ELSE f[i]]
  <2>2. \A i \in 0 .. n + 1 : i # 0 => i - 1 \in 0 .. n /\ i - 1 \in 0 .. n + 1 /\ i - 1 # n + 1
    OBVIOUS
  <2>3. \A i \in 0 .. n + 1 : Body(g, i, rows, funds) = Body(f, i, rows, funds)
    BY <2>2, Zenon DEF Body
  <2>4. \A i \in 0 .. n + 1 : i # n + 1 => i \in 0 .. n
    OBVIOUS
  <2>5. \A i \in 0 .. n : f[i] = Body(f, i, rows, funds)
    BY <2>1, Zenon
  <2>6. \A i \in 0 .. n + 1 : g[i] = Body(g, i, rows, funds)
    BY <2>3, <2>4, <2>5, Zenon
  <2>7. g = [i \in 0 .. n + 1 |-> g[i]]
    BY Zenon
  <2>8. Solves(g, n + 1)
    <3>. HIDE DEF g
    <3>. QED
      BY <2>6, <2>7, Zenon
  <2>9. n + 1 \in Nat
    OBVIOUS
  <2>. QED
    BY <2>8, <2>9, Zenon
<1>3. \E f : Solves(f, Len(rows))
  <2>1. Nat \subseteq S
    <3>. HIDE DEF S
    <3>. QED
      BY <1>1, <1>2, NatInductive
  <2>2. Len(rows) \in S
    BY <2>1
  <2>. QED
    BY <2>2
<1>. DEFINE grown == CHOOSE f : Solves(f, Len(rows))
<1>4. Solves(grown, Len(rows))
  <2>. HIDE DEF Solves
  <2>. QED
    BY <1>3
<1>5. collectEntries(rows, funds) = grown[Len(rows)]
  BY Zenon DEF collectEntries, Body, Taken, Nothing
<1>. QED
  <2>. HIDE DEF grown
  <2>. QED
    BY <1>4, <1>5
(* The first n rows are well formed, and those of one code say the same.   *)
Kept(rows, n) == {k \in 1 .. n : rows[k].code # 0}

Fine(rows, n) ==
  /\ \A k \in 1 .. n : wellFormed(rows[k])
  /\ \A a, b \in Kept(rows, n) : rows[a].code = rows[b].code => Says(rows[a]) = Says(rows[b])

(* After n rows there is no error exactly if they are, and then the map    *)
(* has the entry of each of them.                                          *)
Known(done, rows, n, funds) ==
  /\ done.err = NoError <=> Fine(rows, n)
  /\ done.err = NoError =>
       /\ done = [seen |-> done.seen, err |-> NoError]
       /\ DOMAIN done.seen = {rows[k].code : k \in Kept(rows, n)}
       /\ \A k \in Kept(rows, n) : done.seen[rows[k].code] = makeEntry(rows[k], funds)

LEMMA ErrorsAreSome ==
  \A i : Error("row", i) # NoError /\ Error("code", i) # NoError
BY DEF Error, NoError

LEMMA NextRow ==
  ASSUME NEW rows \in Seq(Row), NEW funds, NEW n \in Nat, n + 1 <= Len(rows),
         NEW done, Known(done, rows, n, funds)
  PROVE  Known(Taken(done, rows[n + 1], n + 1, funds), rows, n + 1, funds)
<1>. DEFINE row   == rows[n + 1]
            entry == makeEntry(row, funds)
            after == Taken(done, row, n + 1, funds)
<1>1. \A k \in 1 .. n + 1 : rows[k] \in Row
  OBVIOUS
<1>2. 1 .. n + 1 = (1 .. n) \cup {n + 1} /\ row \in Row
  OBVIOUS
<1>3. Kept(rows, n + 1) = Kept(rows, n) \cup (IF row.code = 0 THEN {} ELSE {n + 1})
  BY <1>2 DEF Kept
<1>4. Fine(rows, n + 1) => Fine(rows, n) /\ wellFormed(row)
  BY <1>2, <1>3 DEF Fine
<1>5. CASE done.err # NoError
  BY <1>4, <1>5 DEF Known, Taken
<1>6. ASSUME done.err = NoError
      PROVE  /\ Fine(rows, n)
             /\ done = [seen |-> done.seen, err |-> NoError]
             /\ DOMAIN done.seen = {rows[k].code : k \in Kept(rows, n)}
             /\ \A k \in Kept(rows, n) : done.seen[rows[k].code] = makeEntry(rows[k], funds)
  BY <1>6, Zenon DEF Known
<1>7. CASE done.err = NoError /\ rowFails(row)
  <2>1. after.err = Error("row", n + 1)
    BY <1>6, <1>7 DEF Taken
  <2>2. ~wellFormed(row)
    BY <1>2, <1>7, RowsFailOrNot
  <2>. QED
    BY <1>4, <2>1, <2>2, ErrorsAreSome DEF Known
<1>8. CASE done.err = NoError /\ ~rowFails(row) /\ row.code = 0
  <2>1. after = done
    BY <1>8, Zenon DEF Taken
  <2>2. wellFormed(row)
    BY <1>2, <1>8, RowsFailOrNot
  <2>3. Kept(rows, n + 1) = Kept(rows, n)
    BY <1>3, <1>8
  <2>4. Fine(rows, n + 1)
    BY <1>2, <1>6, <1>8, <2>2, <2>3 DEF Fine
  <2>. QED
    BY <1>6, <1>8, <2>1, <2>3, <2>4 DEF Known
<1>9. ASSUME done.err = NoError, ~rowFails(row), row.code # 0
      PROVE  /\ wellFormed(row) /\ entry.code = row.code
             /\ Kept(rows, n + 1) = Kept(rows, n) \cup {n + 1}
             /\ \A k \in Kept(rows, n) :
                  rows[k].code = row.code =>
                    (makeEntry(rows[k], funds) = entry <=> Says(rows[k]) = Says(row))
  <2>1. wellFormed(row)
    BY <1>2, <1>9, RowsFailOrNot
  <2>2. entry.code = row.code
    BY <1>2, <1>9, <2>1, EntryOfRow
  <2>3. ASSUME NEW k \in Kept(rows, n), rows[k].code = row.code
        PROVE  makeEntry(rows[k], funds) = entry <=> Says(rows[k]) = Says(row)
    <3>1. rows[k] \in Row /\ wellFormed(rows[k])
      BY <1>1, <1>6, <1>9 DEF Fine, Kept
    <3>. QED
      BY <1>2, <1>9, <2>1, <2>3, <3>1, EntriesSaySo
  <2>. QED
    BY <1>3, <1>9, <2>1, <2>2, <2>3
<1>10. CASE /\ done.err = NoError /\ ~rowFails(row) /\ row.code # 0
            /\ conflicts(done.seen, entry)
  <2>1. after.err = Error("code", row.code)
    BY <1>6, <1>10 DEF Taken
  <2>2. PICK k \in Kept(rows, n) : rows[k].code = row.code /\ makeEntry(rows[k], funds) # entry
    BY <1>6, <1>9, <1>10 DEF conflicts
  <2>3. Says(rows[k]) # Says(row) /\ {k, n + 1} \subseteq Kept(rows, n + 1)
    BY <1>9, <1>10, <2>2
  <2>4. ~Fine(rows, n + 1)
    BY <2>2, <2>3 DEF Fine
  <2>. QED
    BY <2>1, <2>4, ErrorsAreSome DEF Known
<1>11. CASE /\ done.err = NoError /\ ~rowFails(row) /\ row.code # 0
            /\ ~conflicts(done.seen, entry)
  <2>1. after = [seen |-> store(done.seen, entry), err |-> NoError]
    BY <1>6, <1>11 DEF Taken
  <2>2. /\ DOMAIN store(done.seen, entry) = DOMAIN done.seen \cup {row.code}
        /\ \A code \in DOMAIN done.seen \cup {row.code} :
             store(done.seen, entry)[code] = IF code = row.code THEN entry ELSE done.seen[code]
    BY <1>9, <1>11, Zenon DEF store
  <2>3. \A k \in Kept(rows, n) : rows[k].code = row.code => makeEntry(rows[k], funds) = entry
    BY <1>6, <1>9, <1>11 DEF conflicts
  <2>4. Fine(rows, n + 1)
    <3>1. \A k \in Kept(rows, n) : rows[k].code = row.code => Says(rows[k]) = Says(row)
      BY <1>9, <1>11, <2>3
    <3>. QED
      BY <1>2, <1>6, <1>9, <1>11, <3>1 DEF Fine
  <2>5. DOMAIN store(done.seen, entry) = {rows[k].code : k \in Kept(rows, n + 1)}
    BY <1>6, <1>9, <1>11, <2>2
  <2>6. ASSUME NEW k \in Kept(rows, n + 1)
        PROVE  store(done.seen, entry)[rows[k].code] = makeEntry(rows[k], funds)
    BY <1>6, <1>9, <1>11, <2>2, <2>3
  <2>. QED
    BY <2>1, <2>4, <2>5, <2>6 DEF Known
<1>. QED
  BY <1>5, <1>7, <1>8, <1>10, <1>11

(* Of all rows: no error exactly if List One agrees, and then the map has  *)
(* a code of each currency of it, with what each of its rows says.         *)
LEMMA Collected ==
  ASSUME NEW rows \in Seq(Row), NEW funds
  PROVE  LET done == collectEntries(rows, funds)
         IN  /\ done.err = NoError <=> Fine(rows, Len(rows))
             /\ done.err = NoError =>
                  /\ DOMAIN done.seen = codesOf(rows)
                  /\ \A row \in currencies(rows) : done.seen[row.code] = makeEntry(row, funds)
<1>. DEFINE n == Len(rows)
            done == collectEntries(rows, funds)
<1>1. n \in Nat /\ DOMAIN rows = 1 .. n
  OBVIOUS
<1>2. PICK f : /\ f = [i \in 0 .. n |-> Body(f, i, rows, funds)]
               /\ done = f[n]
  BY RowByRow
<1>3. \A i \in 0 .. n : f[i] = Body(f, i, rows, funds)
  BY <1>2, Zenon
<1>. HIDE DEF done
<1>. DEFINE S == {i \in Nat : i <= n => Known(f[i], rows, i, funds)}
<1>4. 0 \in S
  <2>1. f[0] = Nothing
    BY <1>1, <1>3 DEF Body
  <2>2. Kept(rows, 0) = {}
    BY DEF Kept
  <2>3. Fine(rows, 0)
    BY <2>2 DEF Fine
  <2>4. /\ Nothing = [seen |-> Nothing.seen, err |-> NoError]
        /\ Nothing.err = NoError /\ DOMAIN Nothing.seen = {}
    BY DEF Nothing
  <2>5. Known(Nothing, rows, 0, funds)
    BY <2>2, <2>3, <2>4 DEF Known
  <2>. QED
    BY <2>1, <2>5
<1>5. ASSUME NEW i \in Nat, i \in S
      PROVE  i + 1 \in S
  <2>1. SUFFICES ASSUME i + 1 <= n
                 PROVE  Known(f[i + 1], rows, i + 1, funds)
    OBVIOUS
  <2>2. Known(f[i], rows, i, funds)
    BY <1>1, <1>5, <2>1
  <2>3. i + 1 \in 0 .. n /\ i + 1 # 0 /\ (i + 1) - 1 = i
    BY <2>1
  <2>4. f[i + 1] = Taken(f[i], rows[i + 1], i + 1, funds)
    BY <1>3, <2>3 DEF Body
  <2>. QED
    BY <2>1, <2>2, <2>4, NextRow
<1>6. Known(done, rows, n, funds)
  <2>1. Nat \subseteq S
    <3>. HIDE DEF S
    <3>. QED
      BY <1>4, <1>5, NatInductive
  <2>2. n \in S
    BY <1>1, <2>1
  <2>. QED
    BY <1>1, <1>2, <2>2
<1>7. /\ codesOf(rows) = {rows[k].code : k \in Kept(rows, n)}
      /\ \A row \in currencies(rows) : \E k \in Kept(rows, n) : row = rows[k]
  BY <1>1 DEF codesOf, currencies, Kept, Range
<1>8. done.err = NoError =>
        \A row \in currencies(rows) : done.seen[row.code] = makeEntry(row, funds)
  BY <1>6, <1>7 DEF Known
<1>. QED
  BY <1>6, <1>7, <1>8, Zenon DEF Known, done
-------------------------------------------------------------------------------
(***************************************************************************)
(* buildTable: what it refuses, and what it makes.                         *)
(***************************************************************************)
Agrees(rows) ==
  /\ \A row \in Range(rows) : wellFormed(row)
  /\ \A a, b \in currencies(rows) : a.code = b.code => Says(a) = Says(b)

LEMMA FineRowsAgree ==
  ASSUME NEW rows \in Seq(Row)
  PROVE  Fine(rows, Len(rows)) <=> Agrees(rows)
<1>. DEFINE D == 1 .. Len(rows)
            K == Kept(rows, Len(rows))
<1>1. DOMAIN rows = D
  OBVIOUS
<1>2. Range(rows) = {rows[k] : k \in D}
  BY <1>1, Zenon DEF Range
<1>3. /\ \A k \in K : k \in D /\ rows[k] \in currencies(rows)
      /\ \A row \in currencies(rows) : \E k \in K : row = rows[k]
  BY <1>2 DEF currencies, Kept
<1>4. Fine(rows, Len(rows)) <=>
        /\ \A k \in D : wellFormed(rows[k])
        /\ \A a, b \in K : rows[a].code = rows[b].code => Says(rows[a]) = Says(rows[b])
  BY Zenon DEF Fine
<1>. HIDE DEF D, K
<1>5. (\A k \in D : wellFormed(rows[k])) <=> \A row \in Range(rows) : wellFormed(row)
  BY <1>2, Zenon
<1>6. (\A a, b \in K : rows[a].code = rows[b].code => Says(rows[a]) = Says(rows[b])) <=>
        \A a, b \in currencies(rows) : a.code = b.code => Says(a) = Says(b)
  <2>1. ASSUME \A a, b \in K : rows[a].code = rows[b].code => Says(rows[a]) = Says(rows[b]),
               NEW a \in currencies(rows), NEW b \in currencies(rows), a.code = b.code
        PROVE  Says(a) = Says(b)
    <3>1. PICK k \in K, m \in K : a = rows[k] /\ b = rows[m]
      BY <1>3, Zenon
    <3>. QED
      BY <2>1, <3>1, Zenon
  <2>2. ASSUME \A a, b \in currencies(rows) : a.code = b.code => Says(a) = Says(b),
               NEW a \in K, NEW b \in K, rows[a].code = rows[b].code
        PROVE  Says(rows[a]) = Says(rows[b])
    BY <1>3, <2>2, Zenon
  <2>. QED
    BY <2>1, <2>2, Zenon
<1>. QED
  BY <1>4, <1>5, <1>6, Zenon DEF Agrees

(* buildTable fails exactly if the lists do not agree. *)
LEMMA Refusals ==
  ASSUME NEW rows \in Seq(Row), NEW funds
  PROVE  buildTableError(rows, funds) = NoError <=>
           /\ IsInjective(funds) /\ Agrees(rows) /\ codesOf(rows) # {}
           /\ Range(funds) \subseteq codesOf(rows)
           /\ collectEntries(rows, Range(funds)).err = NoError
<1>. DEFINE done == collectEntries(rows, Range(funds))
<1>1. /\ done.err = NoError <=> Agrees(rows)
      /\ done.err = NoError => DOMAIN done.seen = codesOf(rows)
  BY Collected, FineRowsAgree, Zenon
<1>2. /\ Error("list two", 0) # NoError
      /\ Error("list one", 0) # NoError
  BY DEF Error, NoError
<1>. HIDE DEF done
<1>3. buildTableError(rows, funds) =
        IF ~IsInjective(funds) THEN Error("list two", 0)
        ELSE IF done.err # NoError THEN done.err
        ELSE IF DOMAIN done.seen = {} THEN Error("list one", 0)
        ELSE IF Range(funds) \subseteq DOMAIN done.seen THEN NoError ELSE Error("list two", 0)
  BY Zenon DEF buildTableError, checkFundsPresent, done
<1>4. done = collectEntries(rows, Range(funds))
  BY DEF done
<1>. QED
  BY <1>1, <1>2, <1>3, <1>4, Zenon

(* The entries of a map are finitely many, and come in a sequence that has *)
(* each of them once.                                                      *)
LEMMA Iterated ==
  ASSUME NEW rows \in Seq(Row), NEW funds,
         collectEntries(rows, funds).err = NoError,
         NEW entries \in iterations(collectEntries(rows, funds).seen)
  PROVE  /\ entries \in Seq(EntryType)
         /\ Range(entries) = {makeEntry(row, funds) : row \in currencies(rows)}
         /\ \A i, j \in DOMAIN entries : entries[i].code = entries[j].code => i = j
<1>. DEFINE seen == collectEntries(rows, funds).seen
            R == Range(seen)
            n == Cardinality(R)
            K == Kept(rows, Len(rows))
<1>1. /\ Agrees(rows)
      /\ DOMAIN seen = codesOf(rows)
      /\ \A row \in currencies(rows) : seen[row.code] = makeEntry(row, funds)
  BY Collected, FineRowsAgree, Zenon
<1>2. /\ DOMAIN rows = 1 .. Len(rows) /\ Len(rows) \in Nat
      /\ \A k \in 1 .. Len(rows) : rows[k] \in Row
  OBVIOUS
<1>. HIDE DEF seen
<1>3. R = {makeEntry(row, funds) : row \in currencies(rows)}
  BY <1>1 DEF Range, codesOf
<1>4. \A row \in currencies(rows) :
        /\ makeEntry(row, funds) \in EntryType
        /\ makeEntry(row, funds).code = row.code
  <2>1. SUFFICES ASSUME NEW row \in currencies(rows)
                 PROVE  row \in Row /\ wellFormed(row) /\ row.code # 0
    BY EntryOfRow, Zenon
  <2>. QED
    BY <1>1, <1>2 DEF Agrees, currencies, Range
<1>5. /\ \A e \in R : e \in EntryType
      /\ \A e, f \in R : e.code = f.code => e = f
  BY <1>1, <1>3, <1>4
<1>6. IsFiniteSet(R)
  <2>. DEFINE f == [k \in K |-> makeEntry(rows[k], funds)]
  <2>1. IsFiniteSet(K)
    <3>1. IsFiniteSet(1 .. Len(rows))
      BY <1>2, FS_Interval
    <3>2. K \in SUBSET (1 .. Len(rows))
      BY DEF Kept
    <3>. QED
      BY <3>1, <3>2, FS_Subset
  <2>2. /\ \A k \in K : rows[k] \in currencies(rows)
        /\ \A row \in currencies(rows) : \E k \in K : row = rows[k]
    BY <1>2 DEF currencies, Kept, Range
  <2>3. f \in Surjection(K, R)
    <3>1. f \in [K -> R]
      BY <1>3, <2>2
    <3>2. \A e \in R : \E k \in K : f[k] = e
      BY <1>3, <2>2
    <3>. QED
      BY <3>1, <3>2 DEF Surjection
  <2>. QED
    BY <2>1, <2>3, FS_Surjection
<1>7. entries \in [1 .. n -> R] /\ \A i, j \in 1 .. n : i # j => entries[i] # entries[j]
  BY Zenon DEF iterations, SetToSeqs, seen
<1>8. n \in Nat
  BY <1>6, FS_CardinalityType
<1>9. entries \in Surjection(1 .. n, R)
  <2>1. entries \in Injection(1 .. n, R)
    BY <1>7 DEF Injection, IsInjective
  <2>2. Cardinality(1 .. n) = n
    BY <1>8, FS_Interval
  <2>. QED
    BY <1>6, <2>1, <2>2, FS_Injection
<1>10. Range(entries) = R
  BY <1>7, <1>9 DEF Surjection, Range
<1>11. entries \in Seq(EntryType)
  BY <1>5, <1>7, <1>8
<1>12. \A i, j \in DOMAIN entries : entries[i].code = entries[j].code => i = j
  BY <1>5, <1>7
<1>. QED
  BY <1>3, <1>10, <1>11, <1>12

(* Entries that are strictly in order can be so in one way. *)
LEMMA HeadsAgree ==
  ASSUME NEW s \in Seq(EntryType), NEW t \in Seq(EntryType),
         InOrder(s), InOrder(t), Range(s) = Range(t)
  PROVE  \A i \in DOMAIN s : i \in DOMAIN t /\ s[i] = t[i]
<1>. DEFINE Differ == {i \in DOMAIN s : ~(i \in DOMAIN t /\ s[i] = t[i])}
<1>1. SUFFICES ASSUME Differ # {}
               PROVE  FALSE
  OBVIOUS
<1>2. /\ DOMAIN s = 1 .. Len(s) /\ Len(s) \in Nat
      /\ DOMAIN t = 1 .. Len(t) /\ Len(t) \in Nat
      /\ \A i \in DOMAIN s : i \in Nat /\ s[i] \in EntryType
      /\ \A i \in DOMAIN t : i \in Nat /\ t[i] \in EntryType
  OBVIOUS
<1>3. /\ \A i \in DOMAIN s : s[i].code \in Int /\ \E k \in DOMAIN t : s[i] = t[k]
      /\ \A i \in DOMAIN t : t[i].code \in Int /\ \E k \in DOMAIN s : t[i] = s[k]
  <2>1. /\ \A i \in DOMAIN s : s[i] \in Range(t)
        /\ \A i \in DOMAIN t : t[i] \in Range(s)
    BY Zenon DEF Range
  <2>. QED
    BY <1>2, <2>1 DEF Range, EntryType
<1>4. /\ \A i, j \in DOMAIN s : i < j => s[i].code < s[j].code
      /\ \A i, j \in DOMAIN t : i < j => t[i].code < t[j].code
  BY Zenon DEF InOrder
<1>5. PICK i \in Differ : \A j \in Differ : <<j, i>> \notin OpToRel(<, Nat)
  <2>1. Differ \subseteq Nat
    BY <1>2
  <2>. QED
    BY <1>1, <2>1, WFMin, NatLessThanWellFounded, Zenon
<1>6. \A j \in DOMAIN s : j < i => j \in DOMAIN t /\ s[j] = t[j]
  <2>1. \A j \in Differ : ~(j < i)
    BY <1>2, <1>5 DEF OpToRel
  <2>. QED
    BY <2>1
<1>. i \in DOMAIN s /\ i \in Nat /\ ~(i \in DOMAIN t /\ s[i] = t[i])
  BY <1>2, <1>5
<1>. HIDE DEF Differ
<1>7. PICK k \in DOMAIN t : s[i] = t[k]
  BY <1>3
<1>8. i < k
  <2>1. CASE k < i
    <3>1. k \in DOMAIN s
      BY <1>2, <2>1
    <3>2. s[k] = s[i]
      BY <1>6, <1>7, <2>1, <3>1
    <3>3. s[k].code < s[i].code /\ s[i].code \in Int
      BY <1>3, <1>4, <2>1, <3>1
    <3>. QED
      BY <3>2, <3>3
  <2>2. k # i
    BY <1>7
  <2>. QED
    BY <1>2, <2>1, <2>2
<1>9. i \in DOMAIN t
  BY <1>2, <1>8
<1>10. PICK m \in DOMAIN s : t[i] = s[m]
  BY <1>3, <1>9
<1>11. ~(m < i)
  <2>1. SUFFICES ASSUME m < i
                 PROVE  FALSE
    OBVIOUS
  <2>2. m \in DOMAIN t /\ t[m] = t[i]
    BY <1>6, <1>10, <2>1
  <2>3. t[m].code < t[i].code /\ t[i].code \in Int
    BY <1>3, <1>4, <1>9, <2>1, <2>2
  <2>. QED
    BY <2>2, <2>3
<1>12. i < m
  <2>1. m # i
    BY <1>9, <1>10
  <2>. QED
    BY <1>2, <1>11, <2>1
<1>13. t[i].code < s[i].code
  BY <1>4, <1>7, <1>8, <1>9, Zenon
<1>14. s[i].code < t[i].code
  BY <1>4, <1>10, <1>12
<1>15. s[i].code \in Int /\ t[i].code \in Int
  BY <1>3, <1>9, Zenon
<1>. QED
  BY <1>13, <1>14, <1>15

LEMMA OneOrder ==
  ASSUME NEW s \in Seq(EntryType), NEW t \in Seq(EntryType),
         InOrder(s), InOrder(t), Range(s) = Range(t)
  PROVE  s = t
<1>1. DOMAIN s = DOMAIN t /\ \A i \in DOMAIN s : s[i] = t[i]
  <2>1. \A i \in DOMAIN s : i \in DOMAIN t /\ s[i] = t[i]
    BY HeadsAgree
  <2>2. \A i \in DOMAIN t : i \in DOMAIN s
    BY HeadsAgree
  <2>. QED
    BY <2>1, <2>2
<1>2. s = [i \in DOMAIN s |-> s[i]] /\ t = [i \in DOMAIN t |-> t[i]]
  OBVIOUS
<1>. QED
  BY <1>1, <1>2, Zenon

(* The same lists make the same table, entry for entry, in whatever order Go *)
(* iterates its map.                                                       *)
THEOREM Reproducible ==
  ASSUME NEW rows \in Seq(Row), NEW funds,
         collectEntries(rows, funds).err = NoError,
         NEW a \in iterations(collectEntries(rows, funds).seen),
         NEW b \in iterations(collectEntries(rows, funds).seen)
  PROVE  sortedEntries(a) = sortedEntries(b)
<1>. DEFINE made == {makeEntry(row, funds) : row \in currencies(rows)}
<1>1. /\ a \in Seq(EntryType) /\ Range(a) = made
      /\ \A i, j \in DOMAIN a : a[i].code = a[j].code => i = j
      /\ b \in Seq(EntryType) /\ Range(b) = made
      /\ \A i, j \in DOMAIN b : b[i].code = b[j].code => i = j
  BY Iterated, Zenon
<1>. HIDE DEF made
<1>2. /\ sortSlice(a) \in Seq(EntryType) /\ InOrder(sortSlice(a)) /\ Range(sortSlice(a)) = Range(a)
      /\ sortSlice(b) \in Seq(EntryType) /\ InOrder(sortSlice(b)) /\ Range(sortSlice(b)) = Range(b)
  BY <1>1, SortSorts
<1>3. sortSlice(a) = sortSlice(b)
  BY <1>1, <1>2, OneOrder
<1>. QED
  BY <1>3 DEF sortedEntries

(* What it makes of lists that agree is their table. *)
LEMMA TableMade ==
  ASSUME NEW one, one.rows \in Seq(Row), NEW funds,
         collectEntries(one.rows, Range(funds)).err = NoError,
         NEW entries \in iterations(collectEntries(one.rows, Range(funds)).seen)
  PROVE  /\ sortedEntries(entries) \in Seq(EntryType)
         /\ TableOf(sortedEntries(entries), one, funds)
<1>. DEFINE rows == one.rows
            table == sortedEntries(entries)
            F == Range(funds)
<1>1. /\ entries \in Seq(EntryType)
      /\ Range(entries) = {makeEntry(row, F) : row \in currencies(rows)}
      /\ \A i, j \in DOMAIN entries : entries[i].code = entries[j].code => i = j
  BY Iterated
<1>2. /\ table \in Seq(EntryType)
      /\ Range(table) = {makeEntry(row, F) : row \in currencies(rows)}
      /\ InOrder(table)
  <2>1. Range(sortSlice(entries)) = Range(entries)
        /\ sortSlice(entries) \in Seq(EntryType) /\ InOrder(sortSlice(entries))
    BY <1>1, SortSorts
  <2>. QED
    BY <1>1, <2>1, Zenon DEF sortedEntries
<1>3. Agrees(rows)
  BY Collected, FineRowsAgree, Zenon
<1>4. ASSUME NEW row \in currencies(rows)
      PROVE  /\ makeEntry(row, F).code = row.code
             /\ makeEntry(row, F).fund <=> row.code \in F
             /\ <<makeEntry(row, F).name, makeEntry(row, F).numeric>> = <<row.name, row.numeric>>
             /\ makeEntry(row, F).ratable <=> row.minorUnits # "N.A."
             /\ makeEntry(row, F).ratable => <<makeEntry(row, F).minorUnits, row.minorUnits>> \in printed
  <2>1. row \in Row /\ wellFormed(row) /\ row.code # 0
    BY <1>3 DEF Agrees, currencies, Range
  <2>2. row.minorUnits \in {"N.A.", "0", "2", "3", "4"}
    BY <2>1, EntryOfRow
  <2>3. row.minorUnits # "N.A." => <<MinorUnits[row.minorUnits], row.minorUnits>> \in printed
    BY <2>2 DEF MinorUnits, printed
  <2>. QED
    BY <2>3 DEF makeEntry
<1>5. \A a, b \in currencies(rows) : a.code = b.code =>
        <<a.name, a.numeric, a.minorUnits>> = <<b.name, b.numeric, b.minorUnits>>
  BY <1>3, Zenon DEF Agrees, Says
<1>. HIDE DEF table, F, rows
<1>6. {e.code : e \in Range(table)} = codesOf(rows)
  <2>1. {e.code : e \in Range(table)} = {makeEntry(row, F).code : row \in currencies(rows)}
    <3>1. \A e \in Range(table) : \E row \in currencies(rows) : e = makeEntry(row, F)
      BY <1>2, Zenon
    <3>2. \A row \in currencies(rows) : makeEntry(row, F) \in Range(table)
      BY <1>2, Zenon
    <3>. QED
      BY <3>1, <3>2
  <2>2. {makeEntry(row, F).code : row \in currencies(rows)} = {row.code : row \in currencies(rows)}
    BY <1>4
  <2>. QED
    BY <2>1, <2>2, Zenon DEF codesOf
<1>7. ASSUME NEW e \in Range(table)
      PROVE  /\ e.fund <=> e.code \in F
             /\ \A row \in currencies(rows) : row.code = e.code =>
                  /\ <<e.name, e.numeric>> = <<row.name, row.numeric>>
                  /\ e.ratable <=> row.minorUnits # "N.A."
                  /\ e.ratable => <<e.minorUnits, row.minorUnits>> \in printed
  <2>1. PICK made \in currencies(rows) : e = makeEntry(made, F)
    BY <1>2
  <2>2. ASSUME NEW row \in currencies(rows), row.code = e.code
        PROVE  /\ row.name = made.name /\ row.numeric = made.numeric
               /\ row.minorUnits = made.minorUnits
    BY <1>4, <1>5, <2>1, <2>2
  <2>. QED
    BY <1>4, <2>1, <2>2
<1>. QED
  BY <1>2, <1>6, <1>7, Zenon DEF TableOf, InOrder, table, F, rows
-------------------------------------------------------------------------------
(***************************************************************************)
(* The invariant.  A run that has read a list has read it right; it writes *)
(* only what lists that agree say, and fails on lists that agree only when *)
(* writing does.  The file has a table of its sources from when it is      *)
(* opened on, and the program the entries of a table.                      *)
(***************************************************************************)
Docs == [published : STRING, rows : Seq(Row)]

ReadRight ==
  /\ pc \in {"parsed", "read", "writing"} =>
       doc \in Docs /\ doc # Unreadable /\ doc.published # ""
  /\ pc \in {"read", "writing"} =>
       lines \in Seq(Seq(Int)) /\ lines # Unreadable /\ Len(lines) = 1
  /\ pc = "writing" => Consistent(doc, lines)

FileRight ==
  /\ file \in [whole : BOOLEAN, doc : Docs \cup {Unreadable},
               funds : Seq(Int), table : Seq(EntryType)]
  /\ file.whole \/ pc = "writing" => TableOf(file.table, file.doc, file.funds)

ProgramRight ==
  /\ ordered \in Seq(EntryType) /\ InOrder(ordered)
  /\ DOMAIN registry = {e.code : e \in Range(ordered)}
  /\ \A e \in Range(ordered) : registry[e.code] = e

IInv == ReadRight /\ FileRight /\ ProgramRight /\ ConsistentNotRefused
LEMMA ListsRead ==
  /\ \A one \in ListOnes : one # Unreadable => one \in Docs
  /\ \A two \in ListTwos : two # Unreadable => two \in Seq(Seq(Int))
BY GeneratorAssumption DEF Docs

(* Lists that agree are read, and a table is made of them; and of others   *)
(* that are read none is, unless the publication date spoils it.           *)
LEMMA ConsistentIsRead ==
  ASSUME NEW one \in Docs, NEW two, Consistent(one, two),
         two # Unreadable => two \in Seq(Seq(Int))
  PROVE  readFundsError(two) = NoError
<1>1. /\ two \in Seq(Seq(Int)) /\ two # Unreadable /\ Len(two) = 1
      /\ Range(two[1]) \subseteq codesOf(one.rows)
      /\ \A row \in Range(one.rows) : wellFormed(row)
  BY Zenon DEF Consistent
<1>2. \A row \in currencies(one.rows) : row.code > 0
  <2>1. one.rows \in Seq(Row)
    BY DEF Docs
  <2>2. \A row \in currencies(one.rows) : row \in Row /\ wellFormed(row) /\ row.code # 0
    BY <1>1, <2>1 DEF currencies, Range
  <2>. QED
    BY <2>2, EntryOfRow
<1>3. \A i \in DOMAIN two[1] : two[1][i] \in codesOf(one.rows)
  BY <1>1 DEF Range
<1>4. \A i \in DOMAIN two[1] : validateCode(two[1][i])
  BY <1>2, <1>3 DEF codesOf, validateCode
<1>. QED
  BY <1>1, <1>4, Zenon DEF readFundsError

LEMMA ConsistentIsBuilt ==
  ASSUME NEW one \in Docs, one # Unreadable, one.published # "",
         NEW two \in Seq(Seq(Int)), two # Unreadable, Len(two) = 1
  PROVE  /\ Consistent(one, two) <=>
              /\ buildTableError(one.rows, two[1]) = NoError
              /\ one.published # "two\nlines"
         /\ buildTableError(one.rows, two[1]) = NoError =>
              collectEntries(one.rows, Range(two[1])).err = NoError
<1>1. one.rows \in Seq(Row)
  BY DEF Docs
<1>2. buildTableError(one.rows, two[1]) = NoError <=>
           /\ IsInjective(two[1]) /\ Agrees(one.rows) /\ codesOf(one.rows) # {}
           /\ Range(two[1]) \subseteq codesOf(one.rows)
           /\ collectEntries(one.rows, Range(two[1])).err = NoError
  BY <1>1, Refusals
<1>3. collectEntries(one.rows, Range(two[1])).err = NoError <=> Agrees(one.rows)
  BY <1>1, Collected, FineRowsAgree, Zenon
<1>. QED
  BY <1>2, <1>3, Zenon DEF Consistent, Agrees, Says

LEMMA FirstOfOne ==
  ASSUME NEW two \in Seq(Seq(Int)), Len(two) = 1
  PROVE  two[1] \in Seq(Int)
<1>1. 1 \in DOMAIN two
  OBVIOUS
<1>. QED
  BY <1>1

(* Entries strictly in order have different codes. *)
LEMMA CodesDiffer ==
  ASSUME NEW table \in Seq(EntryType), InOrder(table)
  PROVE  \A i, j \in DOMAIN table : table[i].code = table[j].code => i = j
<1>1. \A i \in DOMAIN table : i \in Int /\ table[i] \in EntryType
  OBVIOUS
<1>2. \A i \in DOMAIN table : i \in Int /\ table[i].code \in Int
  BY <1>1 DEF EntryType
<1>3. \A i, j \in DOMAIN table : i < j => table[i].code < table[j].code
  BY DEF InOrder
<1>. QED
  BY <1>2, <1>3

LEMMA InitRight == Init => IInv
<1>. SUFFICES ASSUME Init
              PROVE  IInv
  OBVIOUS
<1>1. ReadRight
  BY DEF Init, ReadRight
<1>2. FileRight
  <2>1. <<>> \in Seq(Int) /\ <<>> \in Seq(EntryType)
    OBVIOUS
  <2>2. pc # "writing" /\ file = [whole |-> FALSE, doc |-> Unreadable, funds |-> <<>>, table |-> <<>>]
    BY DEF Init
  <2>. QED
    BY <2>1, <2>2 DEF FileRight
<1>3. ProgramRight
  <2>1. /\ ordered = <<>> /\ DOMAIN ordered = {} /\ Range(ordered) = {}
        /\ DOMAIN registry = {}
    BY DEF Init, Range
  <2>. QED
    BY <2>1 DEF ProgramRight, InOrder
<1>4. ConsistentNotRefused
  BY DEF Init, ConsistentNotRefused
<1>. QED
  BY <1>1, <1>2, <1>3, <1>4 DEF IInv

(* Reading the lists: what cannot be read, and what does not agree with    *)
(* itself, does not agree with the other list either.                      *)
LEMMA ReadingRight ==
  ASSUME IInv, parseListOne \/ readFunds
  PROVE  IInv'
<1>1. /\ file' = file /\ program' = program
      /\ pc' # "writing"
  BY Zenon DEF parseListOne, readFunds, fail
<1>2. FileRight' /\ ProgramRight'
  BY <1>1 DEF IInv, FileRight, ProgramRight, program
<1>3. CASE parseListOne
  <2>1. /\ doc' \in ListOnes /\ lines' = Unreadable
        /\ \/ pc' = "failed"
           \/ pc' = "parsed" /\ parseListOneError(doc') = NoError
    BY <1>3, Zenon DEF parseListOne, fail
  <2>2. Error("list one", 0) # NoError
    BY DEF Error, NoError
  <2>3. parseListOneError(doc') = NoError => doc' # Unreadable /\ doc'.published # ""
    BY <2>2, Zenon DEF parseListOneError
  <2>4. ReadRight'
    BY <1>1, <2>1, <2>3, ListsRead DEF ReadRight
  <2>5. ConsistentNotRefused'
    BY <2>1, Zenon DEF ConsistentNotRefused, Consistent
  <2>. QED
    BY <1>2, <2>4, <2>5 DEF IInv
<1>4. CASE readFunds
  <2>1. /\ pc = "parsed" /\ doc' = doc /\ lines' \in ListTwos
        /\ \/ pc' = "failed" /\ readFundsError(lines') # NoError
           \/ pc' = "read" /\ readFundsError(lines') = NoError
    BY <1>4, Zenon DEF readFunds, fail
  <2>2. doc \in Docs /\ doc # Unreadable /\ doc.published # ""
    BY <2>1 DEF IInv, ReadRight
  <2>3. Error("list two", 0) # NoError
    BY DEF Error, NoError
  <2>4. readFundsError(lines') = NoError => lines' # Unreadable /\ Len(lines') = 1
    BY <2>3, Zenon DEF readFundsError
  <2>5. ReadRight'
    BY <1>1, <2>1, <2>2, <2>4, ListsRead DEF ReadRight
  <2>6. lines' # Unreadable => lines' \in Seq(Seq(Int))
    BY <2>1, ListsRead
  <2>7. readFundsError(lines') # NoError => ~Consistent(doc', lines')
    BY <2>1, <2>2, <2>6, ConsistentIsRead, Zenon
  <2>8. ConsistentNotRefused'
    BY <2>1, <2>7 DEF ConsistentNotRefused
  <2>. QED
    BY <1>2, <2>5, <2>8 DEF IInv
<1>. QED
  BY <1>3, <1>4

(* Building: the file is opened only to write the table of its sources.    *)
LEMMA BuildingRight ==
  ASSUME IInv, buildTable
  PROVE  IInv' /\ (file' # file => Consistent(doc, lines))
<1>. DEFINE err == buildTableError(doc.rows, lines[1])
<1>1. /\ pc = "read" /\ doc' = doc /\ lines' = lines /\ program' = program
      /\ doc \in Docs /\ doc # Unreadable /\ doc.published # ""
      /\ lines \in Seq(Seq(Int)) /\ lines # Unreadable /\ Len(lines) = 1
  BY DEF buildTable, IInv, ReadRight
<1>2. /\ Consistent(doc, lines) <=> err = NoError /\ doc.published # "two\nlines"
      /\ err = NoError => collectEntries(doc.rows, Range(lines[1])).err = NoError
  BY <1>1, ConsistentIsBuilt, Zenon
<1>3. ProgramRight'
  BY <1>1 DEF IInv, ProgramRight, program
<1>. HIDE DEF err
<1>4. \/ /\ pc' = "failed" /\ file' = file
         /\ error'.what # "write" => ~Consistent(doc, lines)
      \/ /\ pc' = "writing" /\ err = NoError /\ doc.published # "two\nlines"
         /\ \E entries \in iterations(collectEntries(doc.rows, Range(lines[1])).seen) :
              file' = [whole |-> FALSE, doc |-> doc, funds |-> lines[1],
                       table |-> sortedEntries(entries)]
  <2>1. Error("write", 0).what = "write"
    BY DEF Error
  <2>. QED
    BY <1>2, <2>1, Zenon DEF buildTable, fail, err
<1>5. CASE /\ pc' = "failed" /\ file' = file
           /\ error'.what # "write" => ~Consistent(doc, lines)
  <2>1. ReadRight'
    BY <1>5 DEF ReadRight
  <2>2. FileRight'
    BY <1>5 DEF IInv, FileRight
  <2>3. ConsistentNotRefused'
    BY <1>1, <1>5 DEF ConsistentNotRefused
  <2>. QED
    BY <1>3, <1>5, <2>1, <2>2, <2>3 DEF IInv
<1>6. ASSUME pc' = "writing", err = NoError, doc.published # "two\nlines",
             NEW entries \in iterations(collectEntries(doc.rows, Range(lines[1])).seen),
             file' = [whole |-> FALSE, doc |-> doc, funds |-> lines[1],
                      table |-> sortedEntries(entries)]
      PROVE  IInv' /\ (file' # file => Consistent(doc, lines))
  <2>1. Consistent(doc, lines)
    BY <1>2, <1>6
  <2>2. ReadRight'
    BY <1>1, <1>6, <2>1 DEF ReadRight
  <2>3. doc.rows \in Seq(Row) /\ lines[1] \in Seq(Int)
    <3>1. doc.rows \in Seq(Row)
      BY <1>1 DEF Docs
    <3>2. lines[1] \in Seq(Int)
      BY <1>1, FirstOfOne, Zenon
    <3>. QED
      BY <3>1, <3>2
  <2>4. /\ sortedEntries(entries) \in Seq(EntryType)
        /\ TableOf(sortedEntries(entries), doc, lines[1])
    BY <1>2, <1>6, <2>3, TableMade
  <2>5. FileRight'
    BY <1>1, <1>6, <2>3, <2>4 DEF FileRight
  <2>6. ConsistentNotRefused'
    BY <1>6 DEF ConsistentNotRefused
  <2>. QED
    BY <1>3, <2>1, <2>2, <2>5, <2>6 DEF IInv
<1>. QED
  BY <1>4, <1>5, <1>6, Zenon

(* The end of a run: the file keeps its table and its sources. *)
LEMMA EndingRight ==
  ASSUME IInv, writeFile \/ writeFails \/ Killed
  PROVE  IInv' /\ (file' # file => Consistent(doc, lines))
<1>1. /\ program' = program
      /\ pc' \in {"idle", "failed"}
      /\ pc' = "failed" => error'.what = "write"
      /\ \/ file' = file
         \/ pc = "writing" /\ file' = [file EXCEPT !.whole = TRUE]
  BY DEF writeFile, writeFails, Killed, fail, Error
<1>2. ReadRight'
  BY <1>1 DEF ReadRight
<1>3. FileRight'
  <2>1. FileRight
    BY DEF IInv
  <2>2. CASE file' = file
    BY <1>1, <2>1, <2>2 DEF FileRight
  <2>3. CASE pc = "writing" /\ file' = [file EXCEPT !.whole = TRUE]
    <3>1. TableOf(file.table, file.doc, file.funds)
      BY <2>1, <2>3 DEF FileRight
    <3>2. file \in [whole : BOOLEAN, doc : Docs \cup {Unreadable},
                    funds : Seq(Int), table : Seq(EntryType)]
      BY <2>1 DEF FileRight
    <3>3. /\ file' \in [whole : BOOLEAN, doc : Docs \cup {Unreadable},
                        funds : Seq(Int), table : Seq(EntryType)]
          /\ file'.table = file.table /\ file'.doc = file.doc /\ file'.funds = file.funds
      BY <2>3, <3>2
    <3>4. TableOf(file'.table, file'.doc, file'.funds)
      BY <3>1, <3>3
    <3>. QED
      BY <3>3, <3>4 DEF FileRight
  <2>. QED
    BY <1>1, <2>2, <2>3
<1>4. ProgramRight'
  BY <1>1 DEF IInv, ProgramRight, program
<1>5. ConsistentNotRefused'
  BY <1>1 DEF ConsistentNotRefused
<1>6. file' # file => Consistent(doc, lines)
  BY <1>1 DEF IInv, ReadRight
<1>. QED
  BY <1>2, <1>3, <1>4, <1>5, <1>6 DEF IInv

(* The program: a map and a list of the table it is built with. *)
LEMMA ProgramBuilt ==
  ASSUME IInv, BuildAndInit
  PROVE  IInv' /\ file' = file
<1>1. /\ UNCHANGED <<pc, doc, lines, error, file>>
      /\ file.whole
      /\ registry' = [code \in {e.code : e \in Range(file.table)} |->
                        CHOOSE e \in Range(file.table) : e.code = code]
      /\ ordered' = sortSlice(file.table)
  BY DEF BuildAndInit
<1>2. ReadRight' /\ FileRight' /\ ConsistentNotRefused'
  BY <1>1 DEF IInv, ReadRight, FileRight, ConsistentNotRefused
<1>3. file.table \in Seq(EntryType) /\ InOrder(file.table)
  BY <1>1 DEF IInv, FileRight, TableOf, InOrder
<1>4. \A i, j \in DOMAIN file.table : file.table[i].code = file.table[j].code => i = j
  BY <1>3, CodesDiffer, Zenon
<1>5. /\ ordered' \in Seq(EntryType) /\ InOrder(ordered')
      /\ Range(ordered') = Range(file.table)
  BY <1>1, <1>3, <1>4, SortSorts
<1>6. \A e, f \in Range(file.table) : e.code = f.code => e = f
  BY <1>4 DEF Range
<1>7. \A e \in Range(file.table) : registry'[e.code] = e
  BY <1>1, <1>6
<1>8. DOMAIN registry' = {e.code : e \in Range(file.table)}
  BY <1>1
<1>9. ProgramRight'
  BY <1>5, <1>7, <1>8 DEF ProgramRight, InOrder
<1>. QED
  BY <1>1, <1>2, <1>9 DEF IInv

LEMMA NextRight ==
  ASSUME IInv, [Next]_vars
  PROVE  IInv' /\ (file' # file => Consistent(doc, lines))
<1>1. CASE parseListOne \/ readFunds
  <2>1. file' = file
    BY <1>1, Zenon DEF parseListOne, readFunds
  <2>. QED
    BY <1>1, <2>1, ReadingRight
<1>2. CASE buildTable
  BY <1>2, BuildingRight
<1>3. CASE writeFile \/ writeFails \/ Killed
  BY <1>3, EndingRight
<1>4. CASE BuildAndInit
  BY <1>4, ProgramBuilt
<1>5. CASE UNCHANGED vars
  BY <1>5 DEF vars, program, IInv, ReadRight, FileRight, ProgramRight, ConsistentNotRefused
<1>. QED
  BY <1>1, <1>2, <1>3, <1>4, <1>5 DEF Next
-------------------------------------------------------------------------------
(***************************************************************************)
(* The theorems.                                                           *)
(***************************************************************************)
(* The registry finds what is in the list, under any spelling. *)
LEMMA ProgramServes ==
  ASSUME IInv
  PROVE  RegistryServesTable
<1>. DEFINE minor == [code \in DOMAIN registry |->
              IF registry[code].ratable THEN registry[code].minorUnits ELSE NotRatable]
<1>1. /\ ordered \in Seq(EntryType) /\ InOrder(ordered)
      /\ DOMAIN registry = {e.code : e \in Range(ordered)}
      /\ \A e \in Range(ordered) : registry[e.code] = e
  BY DEF IInv, ProgramRight
<1>2. \A code \in DOMAIN registry : registry[code] \in Range(ordered)
  BY <1>1
<1>3. \A i, j \in DOMAIN ordered : i < j => ordered[i].code < ordered[j].code
  BY <1>1, Zenon DEF InOrder
<1>4. ASSUME NEW code \in DOMAIN Upper
      PROVE  Served!lookup(code) = "nil" <=> \E e \in Range(ordered) : e.code = Upper[code]
  <2>1. Served!lookup(code) = "nil" <=> Upper[code] \in DOMAIN minor
    BY <1>4 DEF Served!lookup, Served!validCode
  <2>2. Upper[code] \in DOMAIN minor <=> \E e \in Range(ordered) : e.code = Upper[code]
    BY <1>1
  <2>. QED
    BY <2>1, <2>2, Zenon
<1>5. ASSUME NEW code \in DOMAIN Upper, NEW e \in Range(ordered), e.code = Upper[code]
      PROVE  /\ Served!Code(code) = e.code
             /\ Served!Ratable(code) <=> e.ratable
             /\ e.ratable => Served!MinorUnits(code) = e.minorUnits
  <2>1. e \in EntryType
    BY <1>1, <1>5 DEF Range
  <2>2. Upper[code] \in DOMAIN registry /\ registry[Upper[code]] = e
    BY <1>1, <1>5
  <2>3. minor[Upper[code]] = IF e.ratable THEN e.minorUnits ELSE NotRatable
    BY <2>2
  <2>4. e.minorUnits # NotRatable
    BY <2>1, GeneratorAssumption DEF EntryType
  <2>5. minor[Upper[code]] # NotRatable <=> e.ratable
    BY <2>3, <2>4
  <2>6. /\ Served!Code(code) = Upper[code]
        /\ Served!Ratable(code) <=> minor[Upper[code]] # NotRatable
        /\ Served!MinorUnits(code) = minor[Upper[code]]
    BY Zenon DEF Served!Code, Served!Ratable, Served!MinorUnits
  <2>. HIDE DEF minor
  <2>. QED
    BY <1>5, <2>3, <2>5, <2>6
<1>. QED
  BY <1>2, <1>3, <1>4, <1>5, Zenon DEF RegistryServesTable

(* What is read is read right, the file is its sources' table, and the     *)
(* program has the entries of a table, whatever is killed or replaced.     *)
THEOREM Inductive == Spec => []IInv
<1>1. Init => IInv
  BY InitRight
<1>2. IInv /\ [Next]_vars => IInv'
  BY NextRight
<1>. QED
  BY <1>1, <1>2, PTL DEF Spec

(* A complete table_gen.go is the table of the lists its header names. *)
THEOREM TableIsOfItsSources == Spec => []TableAsItsHeaderSays
<1>1. IInv => TableAsItsHeaderSays
  BY DEF IInv, FileRight, TableAsItsHeaderSays
<1>. QED
  BY <1>1, Inductive, PTL

(* The generator fails on consistent lists only when it cannot write. *)
THEOREM ConsistentListsPass == Spec => []ConsistentNotRefused
<1>1. IInv => ConsistentNotRefused
  BY DEF IInv
<1>. QED
  BY <1>1, Inductive, PTL

(* Lookup and All of a built program serve the table it was built with. *)
THEOREM RegistryServes == Spec => []RegistryServesTable
<1>1. IInv => RegistryServesTable
  BY ProgramServes
<1>. QED
  BY <1>1, Inductive, PTL

(* No step touches table_gen.go unless the lists it read are consistent. *)
THEOREM TableKept == Spec => TableKeptUnlessConsistent
<1>1. IInv /\ [Next]_vars => [file' # file => Consistent(doc, lines)]_vars
  BY NextRight
<1>. QED
  BY <1>1, Inductive, PTL DEF Spec, TableKeptUnlessConsistent
===============================================================================
