----------------------------- MODULE ErrorChainsProofs -----------------------------
(***************************************************************************)
(* Theorems about ErrorChains, for every number of errors, whatever a      *)
(* provider or a caller makes of them.  What errors.Is walks is defined by *)
(* recursion along the links between errors; it is well defined because    *)
(* an error links to older ones only.                                      *)
(***************************************************************************)
EXTENDS ErrorChains, WellFoundedInduction, TLAPS

(***************************************************************************)
(* The invariant: an error links to older ones, its Code is a sentinel or  *)
(* nil, and a rewrap has the Code and the Cause of what it was made of.    *)
(***************************************************************************)
Foreigns == {foreign(c, of) : c \in Classes, of \in Seq(Nat)}
Fields == {"", "code", "functionalCurrency", "context", "rate", "config", "entry"}
VEs == [kind : {"ValidationError"}, code : Nat, entryIndex : Int, field : Fields, cause : Nat]
Errors == Foreigns \cup {typedNil} \cup VEs

(* Of the heap h, so that it can be said of the next one too. *)
Sentinel(h, e) == h[e] = foreign(0, <<>>)

LinkedAt(h, e) ==
  /\ h[e].kind = "foreign" => \A i \in DOMAIN h[e].of : h[e].of[i] \in 1 .. e - 1
  /\ h[e].kind = "ValidationError" =>
       /\ h[e].cause \in 0 .. e - 1
       /\ h[e].code \in 0 .. e - 1
       /\ h[e].code # 0 => Sentinel(h, h[e].code)

Linked(h) ==
  /\ h \in Seq(Errors) /\ Len(Roots) <= Len(h)
  /\ \A e \in DOMAIN Roots : Sentinel(h, e)
  /\ \A e \in DOMAIN h : LinkedAt(h, e)

Rewrapped(h, made) ==
  \A r \in DOMAIN made :
    /\ {r, made[r]} \subseteq DOMAIN h
    /\ h[r].kind = "ValidationError" /\ h[made[r]].kind = "ValidationError"
    /\ h[r].code = h[made[r]].code /\ h[r].cause = h[made[r]].cause

IInv == Linked(heap) /\ Rewrapped(heap, rewrapOf)

(***************************************************************************)
(* The trees that errors.Is walks.                                         *)
(***************************************************************************)
Tree(tree, e) ==
  {e} \cup
  CASE heap[e].kind = "ValidationError" ->
         Unwrap(heap[e], partOf(tree, heap[e].code), partOf(tree, heap[e].cause))
    [] heap[e].kind = "foreign" -> UNION {tree[o] : o \in Range(heap[e].of)}
    [] OTHER -> {}

Grown(tree, n) == tree = [e \in 1 .. n |-> Tree(tree, e)]

(* A tree is made of those of older errors. *)
LEMMA TreeOfOlder ==
  ASSUME Linked(heap), NEW e \in errs, NEW tree, NEW other,
         \A o \in 1 .. e - 1 : tree[o] = other[o]
  PROVE  Tree(tree, e) = Tree(other, e)
<1>1. LinkedAt(heap, e) /\ e \in Nat
  BY DEF Linked, errs
<1>2. CASE heap[e].kind = "ValidationError"
  <2>1. \A part \in {heap[e].code, heap[e].cause} : part # 0 => part \in 1 .. e - 1
    BY <1>1, <1>2 DEF LinkedAt
  <2>2. \A part \in {heap[e].code, heap[e].cause} : partOf(tree, part) = partOf(other, part)
    BY <2>1 DEF partOf
  <2>. QED
    BY <1>2, <2>2 DEF Tree
<1>3. CASE heap[e].kind = "foreign"
  <2>1. \A o \in Range(heap[e].of) : tree[o] = other[o]
    BY <1>1, <1>3 DEF LinkedAt, Range
  <2>2. {tree[o] : o \in Range(heap[e].of)} = {other[o] : o \in Range(heap[e].of)}
    BY <2>1
  <2>. QED
    BY <1>3, <2>2 DEF Tree
<1>4. CASE heap[e].kind \notin {"ValidationError", "foreign"}
  BY <1>4 DEF Tree
<1>. QED
  BY <1>2, <1>3, <1>4

LEMMA TreesGrow ==
  ASSUME Linked(heap)
  PROVE  \A n \in 0 .. Len(heap) : \E tree : Grown(tree, n)
<1>. DEFINE stuck == {n \in 0 .. Len(heap) : ~ \E tree : Grown(tree, n)}
<1>1. SUFFICES ASSUME stuck # {}
               PROVE  FALSE
  OBVIOUS
<1>2. Len(heap) \in Nat /\ errs = 1 .. Len(heap)
  BY DEF Linked, errs
<1>3. stuck \subseteq Nat
  BY <1>2
<1>4. PICK n \in stuck : \A m \in stuck : <<m, n>> \notin OpToRel(<, Nat)
  BY <1>1, <1>3, WFMin, NatLessThanWellFounded, Zenon
<1>5. \A m \in stuck : ~(m < n)
  BY <1>3, <1>4 DEF OpToRel
<1>6. n # 0
  <2>1. Grown([e \in 1 .. 0 |-> {}], 0)
    BY DEF Grown
  <2>. QED
    BY <2>1, Zenon
<1>7. n \in 1 .. Len(heap) /\ n - 1 \in 0 .. Len(heap) /\ n - 1 < n
  BY <1>2, <1>6
<1>8. PICK tree : Grown(tree, n - 1)
  BY <1>5, <1>7, Zenon
<1>. DEFINE next == [e \in 1 .. n |-> IF e = n THEN Tree(tree, n) ELSE tree[e]]
<1>9. \A e \in 1 .. n : \A o \in 1 .. e - 1 : next[o] = tree[o]
  BY <1>7
<1>10. \A e \in 1 .. n : next[e] = Tree(tree, e)
  BY <1>7, <1>8 DEF Grown
<1>11. \A e \in 1 .. n : Tree(next, e) = Tree(tree, e)
  <2>. HIDE DEF next
  <2>1. \A e \in 1 .. n : e \in errs
    BY <1>2, <1>7
  <2>. QED
    BY <1>9, <2>1, TreeOfOlder
<1>12. next = [e \in 1 .. n |-> Tree(next, e)]
  <2>1. \A e \in 1 .. n : next[e] = Tree(next, e)
    BY <1>10, <1>11
  <2>2. next = [e \in 1 .. n |-> next[e]]
    OBVIOUS
  <2>. HIDE DEF next
  <2>. QED
    BY <2>1, <2>2
<1>. QED
  BY <1>12, Zenon DEF Grown

(* The recursion has a solution, so trees is what its definition says. *)
LEMMA TreesAre ==
  ASSUME Linked(heap)
  PROVE  \A e \in errs : trees[e] = Tree(trees, e)
<1>. DEFINE grown == CHOOSE tree : tree = [e \in errs |-> Tree(tree, e)]
<1>1. errs = 1 .. Len(heap) /\ Len(heap) \in 0 .. Len(heap)
  BY DEF Linked, errs
<1>2. \E tree : tree = [e \in errs |-> Tree(tree, e)]
  BY <1>1, TreesGrow, Zenon DEF Grown
<1>3. grown = [e \in errs |-> Tree(grown, e)]
  BY <1>2, Zenon
<1>4. trees = grown
  BY Zenon DEF trees, Tree
<1>. HIDE DEF grown
<1>5. \A e \in errs : grown[e] = Tree(grown, e)
  BY <1>3, Zenon
<1>. QED
  BY <1>4, <1>5

(***************************************************************************)
(* What errors.As finds in an error: a ValidationError finds itself.       *)
(***************************************************************************)
Find(found, e) ==
  IF heap[e].kind # "foreign" THEN e
  ELSE LET hits == {i \in DOMAIN heap[e].of : found[heap[e].of[i]] # 0}
       IN  IF hits = {} THEN 0 ELSE found[heap[e].of[Min(hits)]]

Searched(found, n) == found = [e \in 1 .. n |-> Find(found, e)]

LEMMA MinIs ==
  ASSUME NEW S \in SUBSET Nat, S # {}
  PROVE  Min(S) \in S
<1>1. PICK n \in S : \A m \in S : <<m, n>> \notin OpToRel(<, Nat)
  BY WFMin, NatLessThanWellFounded, Zenon
<1>2. \A m \in S : ~(m < n)
  BY <1>1 DEF OpToRel
<1>3. \A m \in S : n <= m
  BY <1>2
<1>. QED
  BY <1>3 DEF Min

(* What is found in an error is found in older ones. *)
LEMMA FindInOlder ==
  ASSUME Linked(heap), NEW e \in errs, NEW found, NEW other,
         \A o \in 1 .. e - 1 : found[o] = other[o]
  PROVE  Find(found, e) = Find(other, e)
<1>1. LinkedAt(heap, e) /\ heap[e] \in Errors
  BY DEF Linked, errs
<1>2. CASE heap[e].kind # "foreign"
  BY <1>2 DEF Find
<1>3. CASE heap[e].kind = "foreign"
  <2>1. \A i \in DOMAIN heap[e].of : found[heap[e].of[i]] = other[heap[e].of[i]]
    BY <1>1, <1>3 DEF LinkedAt
  <2>2. DOMAIN heap[e].of \subseteq Nat
    BY <1>1, <1>3 DEF Errors, Foreigns, foreign, typedNil, VEs
  <2>. DEFINE hits(f) == {i \in DOMAIN heap[e].of : f[heap[e].of[i]] # 0}
  <2>3. hits(found) = hits(other)
    BY <2>1
  <2>4. hits(found) # {} => Min(hits(found)) \in DOMAIN heap[e].of
    <3>1. hits(found) \in SUBSET Nat
      BY <2>2
    <3>. QED
      BY <3>1, MinIs
  <2>. QED
    BY <1>3, <2>1, <2>3, <2>4 DEF Find
<1>. QED
  BY <1>2, <1>3

LEMMA SearchEnds ==
  ASSUME Linked(heap)
  PROVE  \A n \in 0 .. Len(heap) : \E found : Searched(found, n)
<1>. DEFINE stuck == {n \in 0 .. Len(heap) : ~ \E found : Searched(found, n)}
<1>1. SUFFICES ASSUME stuck # {}
               PROVE  FALSE
  OBVIOUS
<1>2. Len(heap) \in Nat /\ errs = 1 .. Len(heap)
  BY DEF Linked, errs
<1>3. stuck \subseteq Nat
  BY <1>2
<1>4. PICK n \in stuck : \A m \in stuck : <<m, n>> \notin OpToRel(<, Nat)
  BY <1>1, <1>3, WFMin, NatLessThanWellFounded, Zenon
<1>5. \A m \in stuck : ~(m < n)
  BY <1>3, <1>4 DEF OpToRel
<1>6. n # 0
  <2>1. Searched([e \in 1 .. 0 |-> 0], 0)
    BY DEF Searched
  <2>. QED
    BY <2>1, Zenon
<1>7. n \in 1 .. Len(heap) /\ n - 1 \in 0 .. Len(heap) /\ n - 1 < n
  BY <1>2, <1>6
<1>8. PICK found : Searched(found, n - 1)
  BY <1>5, <1>7, Zenon
<1>. DEFINE next == [e \in 1 .. n |-> IF e = n THEN Find(found, n) ELSE found[e]]
<1>9. \A e \in 1 .. n : \A o \in 1 .. e - 1 : next[o] = found[o]
  BY <1>7
<1>10. \A e \in 1 .. n : next[e] = Find(found, e)
  BY <1>7, <1>8 DEF Searched
<1>11. \A e \in 1 .. n : Find(next, e) = Find(found, e)
  <2>. HIDE DEF next
  <2>1. \A e \in 1 .. n : e \in errs
    BY <1>2, <1>7
  <2>. QED
    BY <1>9, <2>1, FindInOlder
<1>12. next = [e \in 1 .. n |-> Find(next, e)]
  <2>1. \A e \in 1 .. n : next[e] = Find(next, e)
    BY <1>10, <1>11
  <2>2. next = [e \in 1 .. n |-> next[e]]
    OBVIOUS
  <2>. HIDE DEF next
  <2>. QED
    BY <2>1, <2>2
<1>. QED
  BY <1>12, Zenon DEF Searched

LEMMA AsFindsItself ==
  ASSUME Linked(heap), NEW e \in errs, isVE(e)
  PROVE  As[e] = e
<1>. DEFINE searched == CHOOSE found : found = [o \in errs |-> Find(found, o)]
<1>1. errs = 1 .. Len(heap) /\ Len(heap) \in 0 .. Len(heap)
  BY DEF Linked, errs
<1>2. \E found : found = [o \in errs |-> Find(found, o)]
  BY <1>1, SearchEnds, Zenon DEF Searched
<1>3. searched = [o \in errs |-> Find(searched, o)]
  BY <1>2, Zenon
<1>4. As = searched
  BY Zenon DEF As, Find
<1>. HIDE DEF searched
<1>5. searched[e] = Find(searched, e)
  BY <1>3, Zenon
<1>. QED
  BY <1>4, <1>5 DEF Find, isVE

(***************************************************************************)
(* Every step keeps the invariant.                                         *)
(***************************************************************************)
(* An error is added behind the ones there are, which stay as they are. *)
LEMMA Added ==
  ASSUME NEW h, Linked(h), NEW err \in Errors
  PROVE  LET g == h \o <<err>>
         IN  /\ g \in Seq(Errors) /\ Len(g) = Len(h) + 1 /\ g[Len(h) + 1] = err
             /\ DOMAIN g = DOMAIN h \cup {Len(h) + 1}
             /\ \A e \in DOMAIN h : g[e] = h[e]
<1>1. h \in Seq(Errors) /\ Len(h) \in Nat /\ DOMAIN h = 1 .. Len(h)
  BY DEF Linked
<1>. DEFINE g == h \o <<err>>
<1>2. g \in Seq(Errors) /\ Len(g) = Len(h) + 1 /\ g[Len(h) + 1] = err
  BY <1>1
<1>3. \A e \in 1 .. Len(h) : g[e] = h[e]
  BY <1>1
<1>4. DOMAIN g = 1 .. Len(h) + 1
  BY <1>2
<1>. HIDE DEF g
<1>. QED
  BY <1>1, <1>2, <1>3, <1>4

(* What an error may link to when it is made. *)
LinksInto(err, h) ==
  /\ err.kind = "foreign" => \A i \in DOMAIN err.of : err.of[i] \in DOMAIN h
  /\ err.kind = "ValidationError" =>
       /\ err.cause \in {0} \cup DOMAIN h
       /\ err.code \in {0} \cup DOMAIN h
       /\ err.code # 0 => Sentinel(h, err.code)

LEMMA LinkedStill ==
  ASSUME NEW h, Linked(h), NEW err \in Errors, LinksInto(err, h)
  PROVE  Linked(h \o <<err>>)
<1>. DEFINE g == h \o <<err>>
<1>1. /\ g \in Seq(Errors) /\ Len(g) = Len(h) + 1 /\ g[Len(h) + 1] = err
      /\ DOMAIN g = DOMAIN h \cup {Len(h) + 1}
      /\ \A e \in DOMAIN h : g[e] = h[e]
  BY Added
<1>. HIDE DEF g
<1>2. Len(h) \in Nat /\ DOMAIN h = 1 .. Len(h)
  BY DEF Linked
<1>3. \A e \in DOMAIN h : Sentinel(h, e) => Sentinel(g, e)
  BY <1>1 DEF Sentinel
<1>4. ASSUME NEW e \in DOMAIN h
      PROVE  LinkedAt(g, e)
  <2>1. LinkedAt(h, e) /\ g[e] = h[e]
    BY <1>1 DEF Linked
  <2>2. ASSUME h[e].kind = "ValidationError", h[e].code # 0
        PROVE  Sentinel(g, h[e].code)
    <3>1. h[e].code \in DOMAIN h
      BY <1>2, <2>1, <2>2 DEF LinkedAt
    <3>. QED
      BY <1>3, <2>1, <2>2, <3>1 DEF LinkedAt
  <2>. QED
    BY <2>1, <2>2 DEF LinkedAt
<1>5. LinkedAt(g, Len(h) + 1)
  <2>1. ASSUME err.kind = "ValidationError", err.code # 0
        PROVE  Sentinel(g, err.code)
    BY <1>3, <2>1 DEF LinksInto
  <2>. QED
    BY <1>1, <1>2, <2>1 DEF LinksInto, LinkedAt
<1>6. \A e \in DOMAIN Roots : Sentinel(g, e)
  <2>1. \A e \in DOMAIN Roots : e \in DOMAIN h
    BY <1>2 DEF Linked, Roots
  <2>. QED
    BY <1>3, <2>1 DEF Linked
<1>7. Linked(g)
  BY <1>1, <1>2, <1>4, <1>5, <1>6 DEF Linked
<1>. QED
  BY <1>7 DEF g

(* What is said of the rewraps made so far stays true. *)
LEMMA RewrappedStill ==
  ASSUME NEW h, Linked(h), NEW made, Rewrapped(h, made), NEW err \in Errors
  PROVE  Rewrapped(h \o <<err>>, made)
<1>. DEFINE g == h \o <<err>>
<1>1. DOMAIN h \subseteq DOMAIN g /\ \A e \in DOMAIN h : g[e] = h[e]
  BY Added
<1>. HIDE DEF g
<1>2. Rewrapped(g, made)
  BY <1>1 DEF Rewrapped
<1>. QED
  BY <1>2 DEF g

(* The sentinels of the library are there from the beginning. *)
LEMMA RootsAre ==
  ASSUME NEW h, Linked(h), NEW i \in DOMAIN Roots
  PROVE  /\ Root(Roots[i]) \in DOMAIN h /\ Sentinel(h, Root(Roots[i]))
         /\ Root(Roots[i]) \in Nat \ {0}
<1>1. Root(Roots[i]) \in DOMAIN Roots
  BY DEF Root
<1>2. DOMAIN Roots = 1 .. 4 /\ Len(Roots) = 4
  BY DEF Roots
<1>3. DOMAIN h = 1 .. Len(h) /\ Len(h) \in Nat
  BY DEF Linked
<1>. QED
  BY <1>1, <1>2, <1>3 DEF Linked

(* The state after one, two or three errors were made. *)
LEMMA Keeps ==
  ASSUME IInv, NEW err \in Errors, LinksInto(err, heap)
  PROVE  LET g == heap \o <<err>>
         IN  /\ Linked(g) /\ Rewrapped(g, rewrapOf)
             /\ Len(g) = Len(heap) + 1 /\ g[Len(heap) + 1] = err
             /\ DOMAIN g = errs \cup {Len(heap) + 1}
BY LinkedStill, RewrappedStill, Added DEF IInv, errs

LEMMA ForeignKept ==
  ASSUME IInv, Foreign
  PROVE  IInv'
<1>1. rewrapOf' = rewrapOf /\ errs \subseteq Nat
  BY DEF Foreign, IInv, Linked, errs
<1>2. ASSUME NEW err \in Errors, LinksInto(err, heap), Make(<<err>>)
      PROVE  IInv'
  BY <1>1, <1>2, Keeps DEF Make, IInv
<1>3. ASSUME NEW c \in Classes, NEW of \in Seq(Nat), \A i \in DOMAIN of : of[i] \in errs
      PROVE  foreign(c, of) \in Errors /\ LinksInto(foreign(c, of), heap)
  <2>1. /\ foreign(c, of).kind = "foreign" /\ foreign(c, of).of = of
    BY DEF foreign
  <2>2. foreign(c, of) \in Errors
    BY DEF Errors, Foreigns
  <2>. QED
    BY <1>3, <2>1, <2>2 DEF LinksInto, errs
<1>4. /\ <<>> \in Seq(Nat) /\ DOMAIN <<>> = {}
      /\ \A e \in errs : <<e>> \in Seq(Nat) /\ \A i \in DOMAIN <<e>> : <<e>>[i] \in errs
      /\ \A a, b \in errs : /\ <<a, b>> \in Seq(Nat)
                            /\ \A i \in DOMAIN <<a, b>> : <<a, b>>[i] \in errs
  BY <1>1
<1>5. typedNil \in Errors /\ LinksInto(typedNil, heap)
  BY DEF Errors, LinksInto, typedNil
<1>. QED
  BY <1>2, <1>3, <1>4, <1>5, ChainsAssumption DEF Foreign
(* What the library makes of a sentinel, or nothing, and a cause. *)
LEMMA MadeOf ==
  ASSUME NEW h, Linked(h), NEW code \in {0} \cup DOMAIN h, code # 0 => Sentinel(h, code),
         NEW entryIndex \in Int, NEW field \in Fields, NEW cause \in {0} \cup DOMAIN h
  PROVE  LET err == NewEntryValidationError(code, entryIndex, field, cause)
         IN  err \in Errors /\ LinksInto(err, h)
<1>1. code \in Nat /\ cause \in Nat
  BY DEF Linked
<1>. QED
  BY <1>1 DEF NewEntryValidationError, Errors, VEs, LinksInto

(* An error made of one of the library's sentinels. *)
Names == {"ErrRateProvider", "ErrInvalidConfiguration", "ErrUnknownCurrency", "context"}

LEMMA RootNamed ==
  ASSUME NEW h, Linked(h), NEW name \in Names
  PROVE  Root(name) \in DOMAIN h /\ Sentinel(h, Root(name)) /\ Root(name) # 0
<1>1. /\ {1, 2, 3, 4} \subseteq DOMAIN Roots
      /\ Roots[1] = "ErrRateProvider" /\ Roots[2] = "ErrInvalidConfiguration"
      /\ Roots[3] = "ErrUnknownCurrency" /\ Roots[4] = "context"
  BY DEF Roots
<1>2. PICK i \in DOMAIN Roots : Roots[i] = name
  BY <1>1, Zenon DEF Names
<1>. QED
  BY <1>2, RootsAre

LEMMA MadeOfRoot ==
  ASSUME NEW h, Linked(h), NEW name \in Names, NEW entryIndex \in Int,
         NEW field \in Fields, NEW cause \in {0} \cup DOMAIN h
  PROVE  LET err == NewEntryValidationError(Root(name), entryIndex, field, cause)
         IN  err \in Errors /\ LinksInto(err, h)
<1>. DEFINE code == Root(name)
<1>1. code \in {0} \cup DOMAIN h /\ (code # 0 => Sentinel(h, code))
  BY RootNamed
<1>. HIDE DEF code
<1>2. LET err == NewEntryValidationError(code, entryIndex, field, cause)
      IN  err \in Errors /\ LinksInto(err, h)
  BY <1>1, MadeOf
<1>. QED
  BY <1>2 DEF code

(* The same without an entry. *)
LEMMA MadeOfRootAlone ==
  ASSUME NEW h, Linked(h), NEW name \in Names, NEW field \in Fields,
         NEW cause \in {0} \cup DOMAIN h
  PROVE  LET err == NewValidationError(Root(name), field, cause)
         IN  err \in Errors /\ LinksInto(err, h)
<1>1. -1 \in Int
  OBVIOUS
<1>. QED
  BY <1>1, MadeOfRoot, Zenon DEF NewValidationError

(* One error of the library's, and nothing else. *)
LEMMA OneKept ==
  ASSUME IInv, NEW err \in Errors, LinksInto(err, heap), Make(<<err>>), UNCHANGED rewrapOf
  PROVE  IInv'
BY Keeps DEF Make, IInv

LEMMA LookupKept ==
  ASSUME IInv, Lookup
  PROVE  IInv'
<1>. DEFINE lookup == NewValidationError(Root("ErrUnknownCurrency"), "code", 0)
<1>1. lookup \in Errors /\ LinksInto(lookup, heap)
  <2>1. Linked(heap) /\ "ErrUnknownCurrency" \in Names /\ "code" \in Fields
        /\ 0 \in {0} \cup DOMAIN heap
    BY Zenon DEF IInv, Names, Fields
  <2>. QED
    BY <2>1, MadeOfRootAlone, Zenon
<1>2. Make(<<lookup>>) /\ UNCHANGED rewrapOf
  BY DEF Lookup
<1>. HIDE DEF lookup
<1>. QED
  BY <1>1, <1>2, OneKept

LEMMA ContextKept ==
  ASSUME IInv, validationContext
  PROVE  IInv'
<1>. DEFINE err == NewValidationError(Root("ErrRateProvider"), "context", Root("context"))
<1>1. Root("context") \in errs
  BY RootNamed DEF IInv, errs, Names
<1>2. err \in Errors /\ LinksInto(err, heap)
  <2>1. Linked(heap) /\ "ErrRateProvider" \in Names /\ "context" \in Fields
        /\ Root("context") \in {0} \cup DOMAIN heap
    BY <1>1, Zenon DEF IInv, Names, Fields, errs
  <2>. QED
    BY <2>1, MadeOfRootAlone, Zenon
<1>3. Make(<<err>>) /\ UNCHANGED rewrapOf
  BY DEF validationContext
<1>. HIDE DEF err
<1>. QED
  BY <1>2, <1>3, OneKept

(* Several errors come one after the other. *)
LEMMA Two ==
  ASSUME NEW h, Linked(h), NEW made, Rewrapped(h, made),
         NEW a \in Errors, LinksInto(a, h),
         NEW b \in Errors, LinksInto(b, h \o <<a>>)
  PROVE  /\ h \o <<a, b>> = (h \o <<a>>) \o <<b>>
         /\ Linked(h \o <<a, b>>) /\ Rewrapped(h \o <<a, b>>, made)
<1>1. h \in Seq(Errors) /\ <<a>> \in Seq(Errors) /\ <<b>> \in Seq(Errors)
  BY DEF Linked
<1>2. h \o <<a, b>> = (h \o <<a>>) \o <<b>>
  BY <1>1
<1>3. Linked(h \o <<a>>) /\ Rewrapped(h \o <<a>>, made)
  BY LinkedStill, RewrappedStill
<1>4. Linked((h \o <<a>>) \o <<b>>) /\ Rewrapped((h \o <<a>>) \o <<b>>, made)
  BY <1>3, LinkedStill, RewrappedStill, Zenon
<1>. QED
  BY <1>2, <1>4, Zenon

LEMMA ConfigKept ==
  ASSUME IInv, ValidateConfig
  PROVE  IInv'
<1>. DEFINE lookup == NewValidationError(Root("ErrUnknownCurrency"), "code", 0)
            config == NewValidationError(Root("ErrInvalidConfiguration"),
                                         "functionalCurrency", Len(heap) + 1)
<1>1. lookup \in Errors /\ LinksInto(lookup, heap)
  <2>1. Linked(heap) /\ "ErrUnknownCurrency" \in Names /\ "code" \in Fields
        /\ 0 \in {0} \cup DOMAIN heap
    BY Zenon DEF IInv, Names, Fields
  <2>. QED
    BY <2>1, MadeOfRootAlone, Zenon
<1>2. Linked(heap \o <<lookup>>) /\ Len(heap) + 1 \in DOMAIN (heap \o <<lookup>>)
  <2>. HIDE DEF lookup
  <2>. QED
    BY <1>1, Keeps DEF errs
<1>3. config \in Errors /\ LinksInto(config, heap \o <<lookup>>)
  <2>. HIDE DEF lookup
  <2>1. "ErrInvalidConfiguration" \in Names /\ "functionalCurrency" \in Fields
        /\ Len(heap) + 1 \in {0} \cup DOMAIN (heap \o <<lookup>>)
    BY <1>2, Zenon DEF Names, Fields
  <2>. QED
    BY <1>2, <2>1, MadeOfRootAlone, Zenon
<1>4. heap' = heap \o <<lookup, config>> /\ rewrapOf' = rewrapOf
  BY DEF ValidateConfig, Make
<1>. HIDE DEF lookup, config
<1>5. Linked(heap \o <<lookup, config>>) /\ Rewrapped(heap \o <<lookup, config>>, rewrapOf)
  BY <1>1, <1>3, Two DEF IInv
<1>. QED
  BY <1>4, <1>5 DEF IInv
(* A foreign error that wraps what is there. *)
LEMMA Wrapping ==
  ASSUME NEW h, Linked(h), NEW of \in Seq(Nat), \A i \in DOMAIN of : of[i] \in DOMAIN h
  PROVE  foreign(0, of) \in Errors /\ LinksInto(foreign(0, of), h)
<1>1. foreign(0, of).kind = "foreign" /\ foreign(0, of).of = of
  BY DEF foreign
<1>2. foreign(0, of) \in Errors
  BY ChainsAssumption DEF Errors, Foreigns
<1>. QED
  BY <1>1, <1>2 DEF LinksInto

LEMMA RateKept ==
  ASSUME IInv, resolveRate
  PROVE  IInv'
<1>1. PICK providerErr \in errs :
        LET wrapped == foreign(0, <<providerErr>>)
            n == Len(heap)
        IN  \/ Make(<<wrapped, NewEntryValidationError(Root("ErrRateProvider"), 0, "rate", n + 1)>>)
            \/ Make(<<wrapped, foreign(0, <<n + 1, Root("context")>>),
                      NewEntryValidationError(Root("ErrRateProvider"), 0, "context", n + 2)>>)
  BY DEF resolveRate
<1>. DEFINE n == Len(heap)
            wrapped == foreign(0, <<providerErr>>)
            rate == NewEntryValidationError(Root("ErrRateProvider"), 0, "rate", n + 1)
            both == foreign(0, <<n + 1, Root("context")>>)
            canceled == NewEntryValidationError(Root("ErrRateProvider"), 0, "context", n + 2)
<1>2. /\ rewrapOf' = rewrapOf
      /\ heap' = heap \o <<wrapped, rate>> \/ heap' = heap \o <<wrapped, both, canceled>>
  BY <1>1 DEF resolveRate, Make
<1>3. Linked(heap) /\ errs = 1 .. n /\ n \in Nat
  BY DEF IInv, Linked, errs
<1>4. wrapped \in Errors /\ LinksInto(wrapped, heap)
  <2>1. /\ <<providerErr>> \in Seq(Nat)
        /\ \A i \in DOMAIN <<providerErr>> : <<providerErr>>[i] \in DOMAIN heap
    BY <1>3 DEF errs
  <2>. QED
    BY <1>3, <2>1, Wrapping, Zenon
<1>. HIDE DEF wrapped
<1>. DEFINE g == heap \o <<wrapped>>
<1>5. /\ Linked(g) /\ Rewrapped(g, rewrapOf) /\ Len(g) = n + 1
      /\ DOMAIN g = errs \cup {n + 1} /\ DOMAIN g \subseteq Nat
  BY <1>3, <1>4, Keeps
<1>6. rate \in Errors /\ LinksInto(rate, g)
  <2>. HIDE DEF g
  <2>1. /\ "ErrRateProvider" \in Names /\ "rate" \in Fields
        /\ n + 1 \in {0} \cup DOMAIN g
    BY <1>5, Zenon DEF Names, Fields
  <2>2. 0 \in Int
    OBVIOUS
  <2>. QED
    BY <1>5, <2>1, <2>2, MadeOfRoot, Zenon
<1>7. CASE heap' = heap \o <<wrapped, rate>>
  <2>. HIDE DEF rate
  <2>1. Linked(heap') /\ Rewrapped(heap', rewrapOf)
    BY <1>3, <1>4, <1>6, <1>7, Two DEF IInv
  <2>. QED
    BY <1>2, <2>1 DEF IInv
<1>8. CASE heap' = heap \o <<wrapped, both, canceled>>
  <2>1. both \in Errors /\ LinksInto(both, g)
    <3>. HIDE DEF g
    <3>1. Root("context") \in DOMAIN g
      <4>1. "context" \in Names
        BY DEF Names
      <4>. QED
        BY <1>5, <4>1, RootNamed
    <3>2. PICK of : of = <<n + 1, Root("context")>>
      OBVIOUS
    <3>3. of \in Seq(Nat) /\ \A i \in DOMAIN of : of[i] \in DOMAIN g
      BY <1>5, <3>1, <3>2
    <3>. QED
      BY <1>5, <3>2, <3>3, Wrapping, Zenon
  <2>. HIDE DEF both
  <2>. DEFINE k == heap \o <<wrapped, both>>
  <2>2. Linked(k) /\ Rewrapped(k, rewrapOf) /\ k = g \o <<both>>
    BY <1>3, <1>4, <2>1, Two DEF IInv
  <2>3. n + 2 \in DOMAIN k
    <3>. HIDE DEF g
    <3>1. DOMAIN (g \o <<both>>) = DOMAIN g \cup {Len(g) + 1}
      BY <1>5, <2>1, Added
    <3>2. Len(g) + 1 = n + 2
      BY <1>3, <1>5
    <3>. QED
      BY <2>2, <3>1, <3>2
  <2>. HIDE DEF k
  <2>4. canceled \in Errors /\ LinksInto(canceled, k)
    <3>1. /\ "ErrRateProvider" \in Names /\ "context" \in Fields
          /\ n + 2 \in {0} \cup DOMAIN k
      BY <2>3, Zenon DEF Names, Fields
    <3>2. 0 \in Int
      OBVIOUS
    <3>. QED
      BY <2>2, <3>1, <3>2, MadeOfRoot, Zenon
  <2>. HIDE DEF canceled
  <2>5. heap' = k \o <<canceled>>
    <3>1. /\ heap \in Seq(Errors) /\ <<wrapped, both>> \in Seq(Errors) /\ <<canceled>> \in Seq(Errors)
      BY <1>3, <1>4, <2>1, <2>4 DEF Linked
    <3>2. heap \o <<wrapped, both, canceled>> = (heap \o <<wrapped, both>>) \o <<canceled>>
      BY <3>1
    <3>. QED
      BY <1>8, <3>2 DEF k
  <2>6. Linked(heap') /\ Rewrapped(heap', rewrapOf)
    BY <2>2, <2>4, <2>5, LinkedStill, RewrappedStill
  <2>. QED
    BY <1>2, <2>6 DEF IInv
<1>. QED
  BY <1>2, <1>7, <1>8
(* A rewrap makes one error, of the Code and the Cause of another. *)
LEMMA RewrapMakes ==
  ASSUME IInv, NEW err \in errs, isVE(err)
  PROVE  /\ LET new == rewrapValidationError(err, "config")
            IN  /\ new \in Errors /\ LinksInto(new, heap) /\ new.kind = "ValidationError"
                /\ new.code = heap[err].code /\ new.cause = heap[err].cause
         /\ LET new == rewrapEntryValidationError(err, 0)
            IN  /\ new \in Errors /\ LinksInto(new, heap) /\ new.kind = "ValidationError"
                /\ new.code = heap[err].code /\ new.cause = heap[err].cause
<1>. DEFINE code == heap[err].code
            cause == heap[err].cause
            field == heap[err].field
<1>1. Linked(heap) /\ errs = DOMAIN heap /\ LinkedAt(heap, err) /\ err \in Nat \ {0}
  BY DEF IInv, Linked, errs
<1>2. As[err] = err
  BY <1>1, AsFindsItself
<1>3. heap[err] \in VEs
  <2>1. heap[err] \in Errors
    BY <1>1 DEF Linked
  <2>. QED
    BY <2>1 DEF isVE, Errors, Foreigns, foreign, typedNil
<1>4. /\ code \in {0} \cup DOMAIN heap /\ cause \in {0} \cup DOMAIN heap
      /\ code # 0 => Sentinel(heap, code)
  BY <1>1 DEF LinkedAt, isVE, Linked
<1>5. field \in Fields
  BY <1>3 DEF VEs
<1>6. rewrapValidationError(err, "config") = NewEntryValidationError(code, -1, "config", cause)
  BY <1>1, <1>2 DEF rewrapValidationError, NewValidationError
<1>7. rewrapEntryValidationError(err, 0) = NewEntryValidationError(code, 0, field, cause)
  BY <1>1, <1>2 DEF rewrapEntryValidationError
<1>8. -1 \in Int /\ 0 \in Int
  OBVIOUS
<1>9. "config" \in Fields
  BY Zenon DEF Fields
<1>. HIDE DEF code, cause, field
<1>10. ASSUME NEW i \in Int, NEW f \in Fields
       PROVE  LET new == NewEntryValidationError(code, i, f, cause)
              IN  /\ new \in Errors /\ LinksInto(new, heap) /\ new.kind = "ValidationError"
                  /\ new.code = code /\ new.cause = cause
  <2>1. LET new == NewEntryValidationError(code, i, f, cause)
        IN  new \in Errors /\ LinksInto(new, heap)
    BY <1>1, <1>4, MadeOf
  <2>. QED
    BY <2>1 DEF NewEntryValidationError
<1>. QED
  BY <1>5, <1>6, <1>7, <1>8, <1>9, <1>10, Zenon DEF code, cause

LEMMA RewrapKept ==
  ASSUME IInv, Rewrap
  PROVE  IInv'
<1>1. PICK err \in errs :
        /\ isVE(err)
        /\ \/ Make(<<rewrapValidationError(err, "config")>>)
           \/ Make(<<rewrapEntryValidationError(err, 0)>>)
        /\ rewrapOf' = [r \in DOMAIN rewrapOf \cup {Len(heap) + 1} |->
                          IF r = Len(heap) + 1 THEN err ELSE rewrapOf[r]]
  BY DEF Rewrap
<1>2. PICK new \in Errors :
        /\ LinksInto(new, heap) /\ new.kind = "ValidationError"
        /\ new.code = heap[err].code /\ new.cause = heap[err].cause
        /\ heap' = heap \o <<new>>
  BY <1>1, RewrapMakes DEF Make
<1>3. /\ Linked(heap') /\ Rewrapped(heap', rewrapOf)
      /\ heap'[Len(heap) + 1] = new /\ DOMAIN heap' = errs \cup {Len(heap) + 1}
      /\ \A e \in errs : heap'[e] = heap[e]
  BY <1>2, Keeps, Added DEF IInv, errs
<1>4. /\ DOMAIN rewrapOf' = {Len(heap) + 1} \cup DOMAIN rewrapOf
      /\ rewrapOf'[Len(heap) + 1] = err
      /\ \A r \in DOMAIN rewrapOf : r # Len(heap) + 1 => rewrapOf'[r] = rewrapOf[r]
  BY <1>1
<1>5. Rewrapped(heap', rewrapOf')
  <2>. SUFFICES ASSUME NEW r \in DOMAIN rewrapOf'
                PROVE  /\ {r, rewrapOf'[r]} \subseteq DOMAIN heap'
                       /\ heap'[r].kind = "ValidationError"
                       /\ heap'[rewrapOf'[r]].kind = "ValidationError"
                       /\ heap'[r].code = heap'[rewrapOf'[r]].code
                       /\ heap'[r].cause = heap'[rewrapOf'[r]].cause
    BY DEF Rewrapped
  <2>1. CASE r = Len(heap) + 1
    BY <1>1, <1>2, <1>3, <1>4, <2>1 DEF isVE
  <2>2. CASE r # Len(heap) + 1
    BY <1>3, <1>4, <2>2 DEF Rewrapped
  <2>. QED
    BY <2>1, <2>2
<1>. QED
  BY <1>3, <1>5 DEF IInv

LEMMA CallerKept ==
  ASSUME IInv, Caller
  PROVE  IInv'
<1>1. PICK code \in {0} \cup {e \in errs : isSentinel(e)}, cause \in errs \cup {0} :
        Make(<<NewValidationError(code, "", cause)>>)
  BY DEF Caller
<1>. DEFINE err == NewValidationError(code, "", cause)
<1>2. err \in Errors /\ LinksInto(err, heap)
  <2>1. "" \in Fields
    BY Zenon DEF Fields
  <2>2. /\ Linked(heap) /\ -1 \in Int /\ code \in {0} \cup DOMAIN heap /\ cause \in {0} \cup DOMAIN heap
        /\ code # 0 => Sentinel(heap, code)
    BY DEF IInv, errs, isSentinel, Sentinel
  <2>. QED
    BY <2>1, <2>2, MadeOf, Zenon DEF NewValidationError
<1>3. Make(<<err>>) /\ UNCHANGED rewrapOf
  BY <1>1 DEF Caller
<1>. HIDE DEF err
<1>. QED
  BY <1>2, <1>3, OneKept

LEMMA IInit == Init => IInv
<1>. SUFFICES ASSUME Init
              PROVE  IInv
  OBVIOUS
<1>1. DOMAIN Roots = 1 .. 4 /\ Len(Roots) = 4
  BY DEF Roots
<1>. DEFINE plain == foreign(0, <<>>)
<1>2. plain \in Errors /\ plain.kind = "foreign" /\ plain.of = <<>>
  <2>1. <<>> \in Seq(Nat) /\ 0 \in Classes
    BY ChainsAssumption
  <2>2. \A of \in Seq(Nat) : foreign(0, of) \in Errors
    BY <2>1 DEF Errors, Foreigns
  <2>3. plain \in Errors
    BY <2>1, <2>2, Zenon
  <2>. QED
    BY <2>3 DEF foreign
<1>3. heap = [i \in 1 .. 4 |-> plain]
  BY <1>1 DEF Init
<1>. HIDE DEF plain
<1>4. heap \in Seq(Errors) /\ Len(heap) = 4 /\ \A e \in 1 .. 4 : heap[e] = plain
  BY <1>2, <1>3
<1>5. \A e \in 1 .. 4 : LinkedAt(heap, e)
  BY <1>2, <1>4 DEF LinkedAt
<1>6. Linked(heap)
  BY <1>1, <1>4, <1>5 DEF Linked, Sentinel, plain
<1>7. Rewrapped(heap, rewrapOf)
  BY DEF Init, Rewrapped
<1>. QED
  BY <1>6, <1>7 DEF IInv

LEMMA IStep == IInv /\ [Next]_vars => IInv'
<1>. SUFFICES ASSUME IInv, [Next]_vars
              PROVE  IInv'
  OBVIOUS
<1>1. CASE UNCHANGED vars
  BY <1>1 DEF vars, IInv
<1>. QED
  BY <1>1, ForeignKept, LookupKept, ConfigKept, ContextKept, RateKept, RewrapKept, CallerKept
  DEF Next

(* Whatever errors are made, in whatever order, links lead to older ones,  *)
(* Codes are sentinels, and rewraps keep Code and Cause.                   *)
THEOREM Inductive == Spec => []IInv
BY IInit, IStep, PTL DEF Spec

(***************************************************************************)
(* What errors.Is finds.                                                   *)
(***************************************************************************)
(* Unwrap takes a cause for its code only when it is the code. *)
LEMMA UnwrapShows ==
  ASSUME Linked(heap), NEW e \in errs, isVE(e), NEW t \in errs \ {e}
  PROVE  matches(trees[e], t) <=>
           \E part \in {heap[e].code, heap[e].cause} : matches(partOf(trees, part), t)
<1>. DEFINE code == heap[e].code
            cause == heap[e].cause
            U == Unwrap(heap[e], partOf(trees, code), partOf(trees, cause))
<1>1. /\ code \in 0 .. e - 1 /\ cause \in 0 .. e - 1 /\ e \in Nat
      /\ errs = 1 .. Len(heap) /\ Len(heap) \in Nat
      /\ code # 0 => Sentinel(heap, code)
  BY DEF Linked, LinkedAt, errs, isVE
<1>2. trees[e] = {e} \cup U
  BY TreesAre DEF Tree, isVE
<1>3. matches(trees[e], t) <=> matches(U, t)
  BY <1>2 DEF matches, class, isVE
<1>4. ~ matches({}, t)
  BY DEF matches
<1>5. ASSUME code # 0
      PROVE  partOf(trees, code) = {code} /\ class(code) = 0 /\ code \in errs
  <2>1. code \in errs
    BY <1>1, <1>5
  <2>2. trees[code] = Tree(trees, code)
    BY <2>1, TreesAre
  <2>3. heap[code].kind = "foreign" /\ heap[code].of = <<>> /\ heap[code].class = 0
    BY <1>1, <1>5 DEF Sentinel, foreign
  <2>4. Tree(trees, code) = {code}
    BY <2>3 DEF Tree, Range
  <2>. QED
    BY <1>5, <2>1, <2>2, <2>3, <2>4 DEF partOf, class
<1>6. CASE code = 0
  BY <1>3, <1>4, <1>6 DEF Unwrap, partOf
<1>7. CASE code # 0 /\ cause = 0
  BY <1>3, <1>4, <1>7 DEF Unwrap, partOf
<1>8. CASE code # 0 /\ cause # 0
  <2>1. CASE sameError(partOf(trees, code), code, partOf(trees, cause), cause)
    <3>1. code = cause
      BY <1>5, <1>8, <2>1 DEF sameError, matches
    <3>2. U = partOf(trees, code)
      BY <1>8, <2>1 DEF Unwrap
    <3>. QED
      BY <1>3, <3>1, <3>2
  <2>2. CASE ~ sameError(partOf(trees, code), code, partOf(trees, cause), cause)
    <3>1. U = partOf(trees, code) \cup partOf(trees, cause)
      BY <1>8, <2>2 DEF Unwrap
    <3>. QED
      BY <1>3, <3>1 DEF matches
  <2>. QED
    BY <2>1, <2>2
<1>. QED
  BY <1>6, <1>7, <1>8

(* errors.Is finds in a ValidationError what it finds in its Code or in    *)
(* its Cause, for any provider's error: nothing is lost and nothing added. *)
THEOREM UnwrapKeepsBoth == Spec => []UnwrapLosesNothing
<1>1. IInv => UnwrapLosesNothing
  BY UnwrapShows DEF IInv, UnwrapLosesNothing
<1>. QED
  BY <1>1, Inductive, PTL

(* However often an error is rewrapped on its way up, errors.Is finds in   *)
(* it what it found in the error it was made of.                           *)
THEOREM RewrapsMatch == Spec => []RewrapKeepsMatches
<1>1. ASSUME IInv, NEW r \in DOMAIN rewrapOf, NEW t \in errs \ {r, rewrapOf[r]}
      PROVE  matches(trees[r], t) <=> matches(trees[rewrapOf[r]], t)
  <2>1. /\ r \in errs /\ rewrapOf[r] \in errs /\ isVE(r) /\ isVE(rewrapOf[r])
        /\ heap[r].code = heap[rewrapOf[r]].code /\ heap[r].cause = heap[rewrapOf[r]].cause
    BY <1>1 DEF IInv, Rewrapped, errs, isVE
  <2>2. /\ matches(trees[r], t) <=>
             \E part \in {heap[r].code, heap[r].cause} : matches(partOf(trees, part), t)
        /\ matches(trees[rewrapOf[r]], t) <=>
             \E part \in {heap[r].code, heap[r].cause} : matches(partOf(trees, part), t)
    BY <1>1, <2>1, UnwrapShows DEF IInv
  <2>. QED
    BY <2>2
<1>2. IInv => RewrapKeepsMatches
  BY <1>1 DEF RewrapKeepsMatches
<1>. QED
  BY <1>2, Inductive, PTL
===============================================================================
