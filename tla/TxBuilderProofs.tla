--------------------------- MODULE TxBuilderProofs ---------------------------
(***************************************************************************)
(* Theorems about TxBuilder, for every builder, entry, rate and bound its  *)
(* assumptions admit.  Where the provider and the clock may call the       *)
(* builder, the theorems hold for any number of Builds under way, one      *)
(* inside the other; three of them hold only of a builder those two leave  *)
(* alone, and say so.                                                      *)
(***************************************************************************)
EXTENDS TxBuilder, ValidationProofs, SequenceTheorems

(***************************************************************************)
(* The inductive invariant.  First of a frame alone: its loop ranges over  *)
(* the entries of the builder the Build began with, which passed the       *)
(* checks; its answers are what its cache holds; and the entries behind it *)
(* agree with them.                                                        *)
(***************************************************************************)
Caches == UNION {[R -> Decimal!Decimal] : R \in SUBSET RequestSet}

FrameSet ==
  [at : {"loop", "provider", "clock"}, next : Nat \ {0}, entries : Seq(EntrySet),
   cache : Caches, adjusting : BOOLEAN, read : Seq(EntrySet), start : BuilderSet,
   answers : SUBSET AnswerSet]

Given(c) == {[request |-> r, rate |-> c[r]] : r \in DOMAIN c}

AgreesAt(f, i) ==
  Agrees(f.entries[i], f.start.effectiveDate, f.answers, f.start.config.rateTolerance)

Behind(f) == \A i \in 1 .. f.next - 1 : foreign(f.entries[i]) => AgreesAt(f, i)

(* The request the loop is about, by the date the Build began with. *)
pending(f) == rateRequest(f.entries[f.next], f.start.effectiveDate)

AtAnEntry(f) ==
  /\ f.at = "provider" =>
       /\ f.next <= Len(f.entries)
       /\ foreign(f.entries[f.next])
       /\ pending(f) \notin DOMAIN f.cache
       /\ f.start.rateProvider # "nil"
  /\ f.at = "clock" => f.next > Len(f.entries)

Held ==
  {f \in FrameSet :
     /\ f.next <= Len(f.entries) + 1
     /\ f.entries = f.start.entries
     /\ ~f.start.finalized
     /\ staticError(f.start) = NoError
     /\ f.answers = Given(f.cache)
     /\ f.start.rateProvider = "nil" => DOMAIN f.cache = {}
     /\ Behind(f)
     /\ AtAnEntry(f)}

(* Then of a frame and the builder: whatever the callbacks do, the builder *)
(* keeps what the loop reads of it, and only gains entries.                *)
Extends(s, t) == Len(s) <= Len(t) /\ \A i \in 1 .. Len(s) : t[i] = s[i]

Keeps(b, c) ==
  /\ c.id = b.id
  /\ c.effectiveDate = b.effectiveDate
  /\ c.config = b.config
  /\ c.rateProvider = b.rateProvider
  /\ Extends(b.entries, c.entries)

Fits(f, b) ==
  /\ Keeps(f.start, b)
  /\ f.at = "clock" => Extends(f.start.entries, f.read)

Made(b) == \A i \in DOMAIN b.entries : MadeEntry(b.entries[i])

(* Of the outcome: an error means a rule is broken, a transaction that the *)
(* checks passed.                                                          *)
OutcomeSet ==
  [kind : {"none", "error", "panic", "transaction"},
   err : ValidationError, tx : TransactionSet,
   start : BuilderSet, answers : SUBSET AnswerSet]

RatesAgree(b, answers) ==
  RatesHold(b.entries, b.effectiveDate, answers, b.config.rateTolerance)

Justified(o) ==
  /\ o.kind = "error" /\ ~o.start.finalized =>
       \/ staticError(o.start) # NoError /\ Made(o.start)
       \/ ~RatesAgree(o.start, o.answers)
  /\ o.kind = "transaction" =>
       /\ staticError(o.start) = NoError
       /\ Extends(o.start.entries, o.tx.entries)
       /\ RatesAgree(o.start, o.answers)
       /\ ~Reentrant => \E now \in Times :
                          o.tx = Transaction(o.start, o.start.entries, now)

(* And of a builder the provider and the clock leave alone. *)
Alone ==
  /\ Len(stack) <= 1
  /\ stack # <<>> =>
       /\ builder = top.start
       /\ top.at = "clock" => /\ top.read = builder.entries
                              /\ top.adjusting = builder.isAdjustingEvent
  /\ successes = IF builder.finalized THEN 1 ELSE 0

IInv ==
  /\ builder \in BuilderSet /\ Made(builder)
  /\ stack \in Seq(Held)
  /\ \A d \in DOMAIN stack : Fits(stack[d], builder)
  /\ outcome \in OutcomeSet /\ Justified(outcome)
  /\ builds \in Nat /\ successes \in Nat
  /\ ~Reentrant => Alone

(***************************************************************************)
(* Facts about the values in it.                                           *)
(***************************************************************************)
LEMMA ExtendsPrefix ==
  ASSUME NEW s \in Seq(EntrySet), NEW t \in Seq(EntrySet), Extends(s, t)
  PROVE  IsPrefix(s, t)
<1>1. /\ Len(s) \in Nat /\ Len(t) \in Nat /\ Len(s) <= Len(t)
      /\ \A i \in 1 .. Len(s) : t[i] = s[i]
  BY DEF Extends
<1>2. SubSeq(s, 1, Len(s)) = [i \in 1 .. Len(s) |-> s[i]]
  BY <1>1
<1>3. SubSeq(t, 1, Len(s)) = [i \in 1 .. Len(s) |-> t[i]]
  BY <1>1
<1>. QED
  BY <1>1, <1>2, <1>3 DEF IsPrefix

LEMMA ExtendsFurther ==
  ASSUME NEW r \in Seq(EntrySet), NEW s \in Seq(EntrySet), NEW t \in Seq(EntrySet),
         Extends(r, s), Extends(s, t)
  PROVE  Extends(r, t)
BY DEF Extends

LEMMA ExtendsItself ==
  ASSUME NEW s \in Seq(EntrySet)
  PROVE  Extends(s, s)
BY DEF Extends

LEMMA BuilderFields ==
  ASSUME NEW b \in BuilderSet
  PROVE  /\ b.id \in IdSet /\ b.effectiveDate \in TimeSet
         /\ b.isAdjustingEvent \in BOOLEAN /\ b.entries \in Seq(EntrySet)
         /\ b.metadata \in SUBSET IdSet /\ b.finalized \in BOOLEAN
         /\ b.rateProvider \in STRING /\ b.config \in LedgerConfig
BY DEF BuilderSet

LEMMA FrameFields ==
  ASSUME NEW f \in FrameSet
  PROVE  /\ f.at \in {"loop", "provider", "clock"} /\ f.next \in Nat \ {0}
         /\ f.entries \in Seq(EntrySet) /\ f.cache \in Caches
         /\ f.adjusting \in BOOLEAN /\ f.read \in Seq(EntrySet)
         /\ f.start \in BuilderSet /\ f.answers \in SUBSET AnswerSet
BY DEF FrameSet

LEMMA CacheType ==
  ASSUME NEW c \in Caches
  PROVE  /\ DOMAIN c \subseteq RequestSet
         /\ c \in [DOMAIN c -> Decimal!Decimal]
         /\ Given(c) \in SUBSET AnswerSet
<1>1. PICK R \in SUBSET RequestSet : c \in [R -> Decimal!Decimal]
  BY DEF Caches
<1>2. \A r \in DOMAIN c : [request |-> r, rate |-> c[r]] \in AnswerSet
  BY <1>1 DEF AnswerSet
<1>. QED
  BY <1>1, <1>2 DEF Given

LEMMA StoreType ==
  ASSUME NEW c \in Caches, NEW r \in RequestSet, NEW x \in Decimal!Decimal
  PROVE  /\ store(c, r, x) \in Caches
         /\ r \notin DOMAIN c =>
              Given(store(c, r, x)) = Given(c) \cup {[request |-> r, rate |-> x]}
<1>1. PICK R \in SUBSET RequestSet : c \in [R -> Decimal!Decimal]
  BY DEF Caches
<1>2. /\ DOMAIN store(c, r, x) = R \cup {r}
      /\ \A q \in R \cup {r} : store(c, r, x)[q] = IF q = r THEN x ELSE c[q]
      /\ store(c, r, x) \in [R \cup {r} -> Decimal!Decimal]
  BY <1>1 DEF store
<1>3. R \cup {r} \in SUBSET RequestSet
  OBVIOUS
<1>4. store(c, r, x) \in Caches
  BY <1>2, <1>3 DEF Caches
<1>. DEFINE d == store(c, r, x)
<1>5. ASSUME r \notin DOMAIN c
      PROVE  Given(d) = Given(c) \cup {[request |-> r, rate |-> x]}
  <2>. HIDE DEF d
  <2>1. /\ DOMAIN c = R /\ r \notin R
        /\ DOMAIN d = R \cup {r} /\ d[r] = x
        /\ \A q \in R : d[q] = c[q]
    BY <1>1, <1>2, <1>5 DEF d
  <2>. QED
    BY <2>1 DEF Given
<1>. QED
  BY <1>4, <1>5

(* Whatever a callback does leaves the Builds under way as they fit. *)
LEMMA FitsStill ==
  ASSUME NEW f \in FrameSet, NEW b \in BuilderSet, NEW c \in BuilderSet,
         Fits(f, b), Keeps(b, c)
  PROVE  Fits(f, c)
<1>1. /\ f.start.entries \in Seq(EntrySet) /\ b.entries \in Seq(EntrySet)
      /\ c.entries \in Seq(EntrySet)
  BY BuilderFields, FrameFields
<1>2. Extends(f.start.entries, c.entries)
  BY <1>1, ExtendsFurther DEF Fits, Keeps
<1>. QED
  BY <1>2 DEF Fits, Keeps

LEMMA KeepsItself ==
  ASSUME NEW b \in BuilderSet
  PROVE  Keeps(b, b)
BY BuilderFields, ExtendsItself DEF Keeps

(* What the accumulating calls make of a builder, finalized or not. *)
LEMMA AccumulatedType ==
  ASSUME NEW b \in BuilderSet, Made(b)
  PROVE  /\ \A e \in EntrySet : MadeEntry(e) =>
              /\ addEntry(b, e) \in BuilderSet /\ Made(addEntry(b, e))
              /\ Keeps(b, addEntry(b, e))
              /\ addEntry(b, e).finalized = b.finalized
         /\ \A adjusting \in BOOLEAN :
              /\ setAdjustingEvent(b, adjusting) \in BuilderSet
              /\ Made(setAdjustingEvent(b, adjusting))
              /\ Keeps(b, setAdjustingEvent(b, adjusting))
              /\ setAdjustingEvent(b, adjusting).finalized = b.finalized
         /\ \A meta \in SUBSET IdSet :
              /\ withMetadata(b, meta) \in BuilderSet /\ Made(withMetadata(b, meta))
              /\ Keeps(b, withMetadata(b, meta))
              /\ withMetadata(b, meta).finalized = b.finalized
<1>1. b.entries \in Seq(EntrySet) /\ Keeps(b, b)
  BY BuilderFields, KeepsItself
<1>2. ASSUME NEW e \in EntrySet, MadeEntry(e)
      PROVE  /\ addEntry(b, e) \in BuilderSet /\ Made(addEntry(b, e))
             /\ Keeps(b, addEntry(b, e))
             /\ addEntry(b, e).finalized = b.finalized
  <2>1. CASE b.finalized
    BY <1>1, <2>1 DEF addEntry
  <2>2. CASE ~b.finalized
    <3>. PICK longer : longer = Append(b.entries, e)
      OBVIOUS
    <3>1. /\ longer \in Seq(EntrySet)
          /\ Extends(b.entries, longer)
          /\ \A i \in DOMAIN longer : MadeEntry(longer[i])
      BY <1>1, <1>2 DEF Extends, Made
    <3>2. addEntry(b, e) = [b EXCEPT !.entries = longer]
      BY <2>2 DEF addEntry
    <3>3. addEntry(b, e) \in BuilderSet /\ addEntry(b, e).entries = longer
      BY <3>1, <3>2 DEF BuilderSet
    <3>4. /\ addEntry(b, e).id = b.id /\ addEntry(b, e).effectiveDate = b.effectiveDate
          /\ addEntry(b, e).config = b.config
          /\ addEntry(b, e).rateProvider = b.rateProvider
          /\ addEntry(b, e).finalized = b.finalized
      BY <3>2 DEF BuilderSet
    <3>. QED
      BY <3>1, <3>3, <3>4 DEF Keeps, Made
  <2>. QED
    BY <2>1, <2>2
<1>3. ASSUME NEW adjusting \in BOOLEAN
      PROVE  /\ setAdjustingEvent(b, adjusting) \in BuilderSet
             /\ Made(setAdjustingEvent(b, adjusting))
             /\ Keeps(b, setAdjustingEvent(b, adjusting))
             /\ setAdjustingEvent(b, adjusting).finalized = b.finalized
  BY <1>1 DEF setAdjustingEvent, BuilderSet, Made, Keeps
<1>4. ASSUME NEW meta \in SUBSET IdSet
      PROVE  /\ withMetadata(b, meta) \in BuilderSet /\ Made(withMetadata(b, meta))
             /\ Keeps(b, withMetadata(b, meta))
             /\ withMetadata(b, meta).finalized = b.finalized
  <2>1. b.metadata \cup meta \in SUBSET IdSet
    BY BuilderFields
  <2>. QED
    BY <1>1, <2>1 DEF withMetadata, BuilderSet, Made, Keeps
<1>. QED
  BY <1>2, <1>3, <1>4

(***************************************************************************)
(* A turn of the loop.  Between the provider's answer and the comparison   *)
(* the frame holds a rate for its entry.                                   *)
(***************************************************************************)
Resolved ==
  {f \in FrameSet :
     /\ f.next <= Len(f.entries)
     /\ f.entries = f.start.entries
     /\ ~f.start.finalized
     /\ staticError(f.start) = NoError
     /\ f.answers = Given(f.cache)
     /\ f.start.rateProvider # "nil"
     /\ Behind(f)
     /\ foreign(f.entries[f.next])
     /\ pending(f) \in DOMAIN f.cache}

LEMMA EntryOfTurn ==
  ASSUME NEW f \in FrameSet, f.next <= Len(f.entries), f.entries = f.start.entries,
         staticError(f.start) = NoError
  PROVE  /\ f.next \in DOMAIN f.start.entries /\ f.next \in Int
         /\ f.entries[f.next] \in EntrySet
         /\ f.start.effectiveDate \in TimeSet
         /\ Decimal!Positive(f.entries[f.next].exchangeRate)
         /\ pending(f) \in RequestSet
<1>1. f.next \in DOMAIN f.start.entries /\ f.next \in Int
  BY FrameFields
<1>2. f.entries[f.next] \in EntrySet
  BY <1>1, FrameFields
<1>3. f.start.effectiveDate \in TimeSet /\ f.start.entries \in Seq(EntrySet)
  BY FrameFields, BuilderFields
<1>4. Decimal!Positive(f.entries[f.next].exchangeRate)
  BY <1>1, <1>3, StaticSound
<1>5. UTC(f.start.effectiveDate) \in TimeSet
  BY <1>3 DEF UTC, TimeSet
<1>. QED
  BY <1>1, <1>2, <1>3, <1>4, <1>5 DEF pending, rateRequest, RequestSet, EntrySet

(* The actions read the builder of the moment, which has what they need as *)
(* the frame's start had it.                                               *)
LEMMA ReadAsAtStart ==
  ASSUME NEW f, NEW b, Fits(f, b)
  PROVE  /\ rateRequest(f.entries[f.next], b.effectiveDate) = pending(f)
         /\ b.config.rateTolerance = f.start.config.rateTolerance
         /\ b.rateProvider = f.start.rateProvider
BY DEF Fits, Keeps, pending

LEMMA Disagreement ==
  ASSUME NEW f \in FrameSet, f.next <= Len(f.entries), f.entries = f.start.entries,
         foreign(f.entries[f.next]), ~AgreesAt(f, f.next)
  PROVE  ~RatesAgree(f.start, f.answers)
<1>1. f.next \in DOMAIN f.start.entries
  BY FrameFields
<1>. QED
  BY <1>1 DEF RatesAgree, RatesHold, foreign, AgreesAt

(* Without a rate in the cache, no answer is about the entry. *)
LEMMA Unanswered ==
  ASSUME NEW f \in FrameSet, f.next <= Len(f.entries), f.entries = f.start.entries,
         foreign(f.entries[f.next]), f.answers = Given(f.cache),
         pending(f) \notin DOMAIN f.cache
  PROVE  ~RatesAgree(f.start, f.answers)
<1>1. \A a \in f.answers : a.request # pending(f)
  BY DEF Given
<1>2. f.start.effectiveDate \in TimeSet
  BY FrameFields, BuilderFields
<1>3. ~AgreesAt(f, f.next)
  BY <1>1, <1>2, AgreesNone DEF AgreesAt, pending
<1>. QED
  BY <1>3, Disagreement

LEMMA CachedResolves ==
  ASSUME NEW f \in Held, f.at = "loop", f.next <= Len(f.entries),
         foreign(f.entries[f.next]), pending(f) \in DOMAIN f.cache
  PROVE  f \in Resolved
BY DEF Held, Resolved

answered(f, x) ==
  [f EXCEPT !.cache   = store(f.cache, pending(f), x),
            !.answers = f.answers \cup {[request |-> pending(f), rate |-> x]}]

LEMMA AnswerResolves ==
  ASSUME NEW f \in Held, f.at = "provider", NEW x \in Decimal!Decimal,
         NEW h, h = answered(f, x)
  PROVE  /\ h \in Resolved
         /\ h.entries = f.entries /\ h.next = f.next /\ h.start = f.start
         /\ h.at = "provider"
         /\ pending(h) = pending(f) /\ h.cache[pending(f)] = x
<1>1. /\ f \in FrameSet /\ f.entries = f.start.entries /\ staticError(f.start) = NoError
      /\ f.next <= Len(f.entries) /\ pending(f) \notin DOMAIN f.cache
      /\ f.answers = Given(f.cache) /\ Behind(f) /\ foreign(f.entries[f.next])
      /\ f.start.rateProvider # "nil" /\ ~f.start.finalized
  BY DEF Held, AtAnEntry
<1>2. pending(f) \in RequestSet /\ f.cache \in Caches
  BY <1>1, EntryOfTurn, FrameFields
<1>. PICK c, more : /\ c = store(f.cache, pending(f), x)
                    /\ more = f.answers \cup {[request |-> pending(f), rate |-> x]}
  OBVIOUS
<1>3. c \in Caches /\ more = Given(c) /\ more \in SUBSET AnswerSet
  BY <1>1, <1>2, StoreType, CacheType
<1>4. pending(f) \in DOMAIN c /\ c[pending(f)] = x
  BY DEF store
<1>5. h = [f EXCEPT !.cache = c, !.answers = more]
  BY DEF answered
<1>6. /\ h \in FrameSet
      /\ h.entries = f.entries /\ h.next = f.next /\ h.start = f.start
      /\ h.at = f.at /\ h.cache = c /\ h.answers = more
  BY <1>1, <1>3, <1>5 DEF FrameSet
<1>7. pending(h) = pending(f)
  BY <1>6 DEF pending
<1>8. f.answers \subseteq h.answers
  BY <1>6
<1>9. \A i \in 1 .. f.next - 1 : AgreesAt(f, i) => AgreesAt(h, i)
  BY <1>6, <1>8, AgreesMore DEF AgreesAt
<1>10. Behind(h)
  BY <1>1, <1>6, <1>9 DEF Behind
<1>11. /\ h.next <= Len(h.entries) /\ h.entries = h.start.entries /\ ~h.start.finalized
       /\ staticError(h.start) = NoError /\ h.answers = Given(h.cache)
       /\ h.start.rateProvider # "nil" /\ pending(h) \in DOMAIN h.cache
  BY <1>1, <1>3, <1>4, <1>6, <1>7
<1>12. foreign(h.entries[h.next])
  BY <1>1, <1>6
<1>13. h \in Resolved
  BY <1>6, <1>10, <1>11, <1>12, Zenon DEF Resolved
<1>14. h.at = "provider" /\ h.cache[pending(f)] = x
  BY <1>4, <1>6
<1>. QED
  BY <1>6, <1>7, <1>13, <1>14, Zenon

(* The rate it holds decides: refused, the entry agrees with no answer; or *)
(* the loop turns.                                                         *)
LEMMA Decided ==
  ASSUME NEW h \in Resolved,
         NEW err, err = compareRate(h.entries[h.next], h.next, h.cache[pending(h)],
                                    h.start.config.rateTolerance)
  PROVE  /\ err \in ValidationError
         /\ err # NoError => ~RatesAgree(h.start, h.answers)
         /\ err = NoError => [h EXCEPT !.at = "loop", !.next = h.next + 1] \in Held
<1>1. /\ h \in FrameSet /\ h.entries = h.start.entries /\ staticError(h.start) = NoError
      /\ h.next <= Len(h.entries) /\ pending(h) \in DOMAIN h.cache
      /\ h.answers = Given(h.cache) /\ Behind(h) /\ foreign(h.entries[h.next])
      /\ h.start.rateProvider # "nil" /\ ~h.start.finalized
  BY DEF Resolved
<1>2. h.next \in Int /\ h.start.effectiveDate \in TimeSet
  BY <1>1, EntryOfTurn
<1>. DEFINE e == h.entries[h.next]
            rate == h.cache[pending(h)]
            tolerance == h.start.config.rateTolerance
            date == h.start.effectiveDate
<1>3. err \in ValidationError
  BY <1>2, CompareResult
<1>4. /\ [request |-> pending(h), rate |-> rate] \in h.answers
      /\ \A a \in h.answers : a.request = pending(h) => a.rate = rate
  BY <1>1 DEF Given
<1>5. ASSUME err # NoError
      PROVE  ~RatesAgree(h.start, h.answers)
  <2>1. ~Agrees(e, date, h.answers, tolerance)
    BY <1>2, <1>4, <1>5, AgreesNot DEF pending
  <2>. QED
    BY <1>1, <2>1, Disagreement DEF AgreesAt
<1>6. ASSUME err = NoError
      PROVE  [h EXCEPT !.at = "loop", !.next = h.next + 1] \in Held
  <2>. DEFINE n == h.next + 1
              t == [h EXCEPT !.at = "loop", !.next = n]
  <2>1. Agrees(e, date, h.answers, tolerance)
    BY <1>2, <1>4, <1>6, AgreesFound DEF pending
  <2>2. n \in Nat \ {0} /\ n <= Len(h.entries) + 1
    BY <1>1, FrameFields
  <2>. HIDE DEF n
  <2>3. /\ t \in FrameSet
        /\ t.at = "loop" /\ t.next = n /\ t.entries = h.entries /\ t.start = h.start
        /\ t.answers = h.answers /\ t.cache = h.cache
    BY <1>1, <2>2 DEF FrameSet
  <2>4. \A i \in 1 .. n - 1 : i \in 1 .. h.next - 1 \/ i = h.next
    BY <1>2 DEF n
  <2>. HIDE DEF t
  <2>5. Behind(t)
    BY <1>1, <2>1, <2>3, <2>4 DEF Behind, AgreesAt
  <2>6. AtAnEntry(t)
    BY <2>3 DEF AtAnEntry
  <2>7. t \in Held
    BY <1>1, <2>2, <2>3, <2>5, <2>6 DEF Held
  <2>. QED
    BY <2>7 DEF t, n
<1>. QED
  BY <1>3, <1>5, <1>6

(***************************************************************************)
(* Steps.  The innermost Build, and what a step may do to the stack.       *)
(***************************************************************************)
LEMMA HeldFrame ==
  ASSUME NEW f \in Held
  PROVE  /\ f \in FrameSet /\ f.next <= Len(f.entries) + 1
         /\ f.entries = f.start.entries /\ ~f.start.finalized
         /\ staticError(f.start) = NoError /\ f.answers = Given(f.cache)
         /\ f.start.rateProvider = "nil" => DOMAIN f.cache = {}
         /\ Behind(f) /\ AtAnEntry(f)
BY DEF Held

LEMMA TopHeld ==
  ASSUME IInv, stack # <<>>
  PROVE  /\ Len(stack) \in DOMAIN stack /\ Len(stack) \in Nat \ {0}
         /\ top \in Held /\ top \in FrameSet /\ Fits(top, builder)
<1>1. stack \in Seq(Held)
  BY DEF IInv
<1>2. Len(stack) \in DOMAIN stack /\ Len(stack) \in Nat \ {0}
  BY <1>1
<1>3. top \in Held /\ Fits(top, builder)
  BY <1>1, <1>2 DEF IInv, top
<1>. QED
  BY <1>2, <1>3, HeldFrame

(* The loop moves the innermost frame. *)
LEMMA SetTopKept ==
  ASSUME IInv, stack # <<>>, NEW f \in Held, f.start = top.start,
         f.at = "clock" => /\ f.read = builder.entries
                           /\ f.adjusting = builder.isAdjustingEvent,
         SetTop(f), UNCHANGED <<builder, outcome, builds, successes>>
  PROVE  IInv'
<1>1. /\ stack \in Seq(Held) /\ Len(stack) \in DOMAIN stack /\ Fits(top, builder)
      /\ top \in FrameSet /\ builder \in BuilderSet /\ f \in FrameSet
  BY TopHeld, HeldFrame DEF IInv
<1>2. /\ stack' \in Seq(Held) /\ Len(stack') = Len(stack) /\ DOMAIN stack' = DOMAIN stack
      /\ stack' # <<>> /\ stack'[Len(stack)] = f
      /\ \A d \in DOMAIN stack \ {Len(stack)} : stack'[d] = stack[d]
  BY <1>1 DEF SetTop
<1>3. f.start.entries \in Seq(EntrySet) /\ builder.entries \in Seq(EntrySet)
  BY <1>1, FrameFields, BuilderFields
<1>4. Fits(f, builder)
  BY <1>1 DEF Fits, Keeps
<1>5. \A d \in DOMAIN stack' : Fits(stack'[d], builder)
  BY <1>1, <1>2, <1>4 DEF IInv
<1>6. top' = f
  BY <1>2 DEF top
<1>7. ~Reentrant => Alone'
  BY <1>1, <1>2, <1>6 DEF IInv, Alone
<1>8. outcome' \in OutcomeSet /\ Justified(outcome')
  BY DEF IInv
<1>. QED
  BY <1>2, <1>5, <1>7, <1>8 DEF IInv

(* A Build ends and leaves the stack. *)
LEMMA Popped ==
  ASSUME NEW q \in Seq(Held), q # <<>>, NEW s, s = SubSeq(q, 1, Len(q) - 1)
  PROVE  /\ s \in Seq(Held) /\ Len(s) = Len(q) - 1
         /\ \A d \in DOMAIN s : d \in DOMAIN q /\ s[d] = q[d]
<1>. PICK n : n = Len(q) - 1
  OBVIOUS
<1>1. Len(q) \in Nat \ {0}
  OBVIOUS
<1>2. /\ n \in Nat /\ 1 \in Int /\ n \in Int
      /\ \A d \in 1 .. n : d \in DOMAIN q /\ q[d] \in Held
  BY <1>1
<1>3. s = SubSeq(q, 1, n)
  OBVIOUS
<1>4. /\ s \in Seq(Held)
      /\ Len(s) = IF 1 <= n THEN n - 1 + 1 ELSE 0
      /\ \A d \in 1 .. n - 1 + 1 : s[d] = q[1 + d - 1]
  BY <1>2, <1>3, SubSeqProperties
<1>5. n - 1 + 1 = n /\ \A d \in 1 .. n : 1 + d - 1 = d
  BY <1>2
<1>6. n = 0 \/ 1 <= n
  BY <1>2
<1>7. Len(s) = n
  BY <1>4, <1>5, <1>6
<1>8. DOMAIN s = 1 .. n /\ \A d \in 1 .. n : s[d] = q[d]
  BY <1>4, <1>5, <1>7, LenProperties
<1>. QED
  BY <1>2, <1>4, <1>7, <1>8

LEMMA PoppedLast ==
  ASSUME NEW q \in Seq(Held), q # <<>>, Len(q) <= 1,
         NEW s \in Seq(Held), Len(s) = Len(q) - 1
  PROVE  s = <<>> /\ Len(s) <= 1
<1>1. Len(q) \in Nat \ {0}
  OBVIOUS
<1>2. Len(s) = 0
  BY <1>1
<1>. QED
  BY <1>2, EmptySeq

LEMMA PopKept ==
  ASSUME IInv, stack # <<>>, Pop,
         builder' = builder, builds' = builds, successes' = successes,
         outcome' \in OutcomeSet, Justified(outcome')
  PROVE  IInv'
<1>. PICK s : s = SubSeq(stack, 1, Len(stack) - 1)
  OBVIOUS
<1>1. stack' = s /\ stack \in Seq(Held)
  BY DEF Pop, IInv
<1>2. /\ s \in Seq(Held) /\ Len(s) = Len(stack) - 1
      /\ \A d \in DOMAIN s : d \in DOMAIN stack /\ s[d] = stack[d]
  BY <1>1, Popped
<1>3. \A d \in DOMAIN s : Fits(s[d], builder)
  BY <1>2 DEF IInv
<1>4. ASSUME ~Reentrant
      PROVE  Alone'
  <2>1. Alone
    BY <1>4 DEF IInv
  <2>2. Len(stack) <= 1
    BY <2>1 DEF Alone
  <2>3. s = <<>> /\ Len(s) <= 1
    BY <1>1, <1>2, <2>2, PoppedLast
  <2>. QED
    BY <1>1, <2>1, <2>3 DEF Alone
<1>. QED
  BY <1>1, <1>2, <1>3, <1>4 DEF IInv

LEMMA NoTransactionType == NoTransaction \in TransactionSet
BY DEF NoTransaction, TransactionSet, Id, Time, IdSet, TimeSet

LEMMA FailKept ==
  ASSUME IInv, stack # <<>>, NEW f \in FrameSet, f.start = top.start,
         NEW err \in ValidationError, ~RatesAgree(f.start, f.answers),
         Fail(f, err), UNCHANGED <<builds, successes>>
  PROVE  IInv'
<1>1. f.start \in BuilderSet /\ f.answers \in SUBSET AnswerSet
  BY FrameFields
<1>2. outcome' = [kind |-> "error", err |-> err, tx |-> NoTransaction,
                  start |-> f.start, answers |-> f.answers]
  BY DEF Fail, Ended
<1>3. outcome' \in OutcomeSet
  BY <1>1, <1>2, NoTransactionType DEF OutcomeSet
<1>4. Justified(outcome')
  BY <1>2 DEF Justified
<1>. QED
  BY <1>3, <1>4, PopKept DEF Fail

LEMMA CompareKept ==
  ASSUME IInv, stack # <<>>, NEW h \in Resolved, NEW rate,
         h.start = top.start, h.entries = top.entries, h.next = top.next,
         rate = h.cache[pending(h)],
         Compare(h, rate), UNCHANGED <<builds, successes>>
  PROVE  IInv'
<1>1. Fits(top, builder)
  BY TopHeld
<1>2. compareError(rate) = compareRate(h.entries[h.next], h.next, h.cache[pending(h)],
                                       h.start.config.rateTolerance)
  BY <1>1, ReadAsAtStart DEF compareError, current
<1>3. /\ compareError(rate) \in ValidationError
      /\ compareError(rate) # NoError => ~RatesAgree(h.start, h.answers)
      /\ compareError(rate) = NoError => [h EXCEPT !.at = "loop", !.next = h.next + 1] \in Held
  BY <1>2, Decided
<1>4. h \in FrameSet
  BY DEF Resolved
<1>5. CASE compareError(rate) # NoError
  <2>1. Fail(h, compareError(rate))
    BY <1>5 DEF Compare
  <2>. QED
    BY <1>3, <1>4, <1>5, <2>1, FailKept
<1>6. CASE compareError(rate) = NoError
  <2>. PICK t : t = [h EXCEPT !.at = "loop", !.next = h.next + 1]
    OBVIOUS
  <2>1. t \in Held /\ SetTop(t) /\ UNCHANGED <<builder, outcome>>
    BY <1>3, <1>6 DEF Compare
  <2>2. t.start = top.start /\ t.at = "loop"
    BY <1>4 DEF FrameSet
  <2>. QED
    BY <2>1, <2>2, SetTopKept
<1>. QED
  BY <1>5, <1>6

(***************************************************************************)
(* The calls of the builder: they keep what the Builds under way rely on,  *)
(* and without callbacks no Build is under way.                            *)
(***************************************************************************)
LEMMA AccumulateKept ==
  ASSUME IInv, MayCall, NEW b \in BuilderSet, Made(b), Keeps(builder, b),
         b.finalized = builder.finalized,
         builder' = b, UNCHANGED <<stack, outcome, builds, successes>>
  PROVE  IInv'
<1>1. \A d \in DOMAIN stack : stack[d] \in FrameSet
  BY HeldFrame DEF IInv
<1>2. \A d \in DOMAIN stack : Fits(stack[d], b)
  BY <1>1, FitsStill DEF IInv
<1>3. ASSUME ~Reentrant
      PROVE  Alone'
  <2>1. Alone /\ stack = <<>>
    BY <1>3 DEF IInv, MayCall
  <2>. QED
    BY <2>1 DEF Alone
<1>. QED
  BY <1>2, <1>3 DEF IInv

LEMMA BuildErrorResult ==
  ASSUME NEW b \in BuilderSet
  PROVE  /\ buildError(b) \in ValidationError
         /\ buildError(b) = NoError <=> ~b.finalized /\ staticError(b) = NoError
<1>1. /\ NewValidationError("ErrBuilderFinalized", "builder", {}) \in ValidationError
      /\ NewValidationError("ErrBuilderFinalized", "builder", {}) # NoError
  BY NewErrorType DEF Sentinels, Fields
<1>2. staticError(b) \in ValidationError
  BY BuilderFields, StaticResult
<1>. QED
  BY <1>1, <1>2 DEF buildError

LEMMA NewFrameHeld ==
  ASSUME NEW b \in BuilderSet, ~b.finalized, staticError(b) = NoError,
         NEW f, f = newFrame(b)
  PROVE  f \in Held /\ f.start = b /\ f.at = "loop"
<1>. PICK none : none = emptyCache
  OBVIOUS
<1>1. DOMAIN none = {} /\ none \in [{} -> Decimal!Decimal]
  BY DEF emptyCache
<1>2. none \in Caches /\ Given(none) = {}
  BY <1>1 DEF Caches, Given
<1>3. /\ b.entries \in Seq(EntrySet) /\ b.isAdjustingEvent \in BOOLEAN
      /\ <<>> \in Seq(EntrySet) /\ {} \in SUBSET AnswerSet
  BY BuilderFields
<1>4. f = [at |-> "loop", next |-> 1, entries |-> b.entries, cache |-> none,
           adjusting |-> b.isAdjustingEvent, read |-> <<>>, start |-> b, answers |-> {}]
  BY DEF newFrame
<1>5. f \in FrameSet
  BY <1>2, <1>3, <1>4 DEF FrameSet
<1>6. /\ f.next = 1 /\ f.entries = b.entries /\ f.start = b /\ f.answers = {}
      /\ f.cache = none /\ f.at = "loop"
  BY <1>4
<1>7. f.next <= Len(f.entries) + 1
  BY <1>3, <1>6
<1>8. Behind(f) /\ AtAnEntry(f)
  BY <1>6 DEF Behind, AtAnEntry
<1>. QED
  BY <1>1, <1>2, <1>5, <1>6, <1>7, <1>8 DEF Held

LEMMA BuildKept ==
  ASSUME IInv, Build
  PROVE  IInv'
<1>1. /\ builder \in BuilderSet /\ stack \in Seq(Held) /\ builds \in Nat
      /\ outcome \in OutcomeSet /\ Justified(outcome)
  BY DEF IInv
<1>2. builds' \in Nat
  BY <1>1 DEF Build
<1>3. UNCHANGED <<builder, successes>>
  BY DEF Build
<1>4. CASE buildError(builder) # NoError
  <2>. PICK f : f = newFrame(builder)
    OBVIOUS
  <2>1. f.start = builder /\ f.answers = {}
    BY DEF newFrame
  <2>. PICK err : err = buildError(builder)
    OBVIOUS
  <2>2. /\ outcome' = [kind |-> "error", err |-> err, tx |-> NoTransaction,
                       start |-> builder, answers |-> {}]
        /\ UNCHANGED stack
    BY <1>4, <2>1 DEF Build, Ended
  <2>3. err \in ValidationError /\ {} \in SUBSET AnswerSet
    BY <1>1, BuildErrorResult
  <2>4. outcome' \in OutcomeSet
    BY <1>1, <2>2, <2>3, NoTransactionType DEF OutcomeSet
  <2>5. ~builder.finalized => staticError(builder) # NoError /\ Made(builder)
    BY <1>1, <1>4, BuildErrorResult DEF IInv
  <2>6. Justified(outcome')
    BY <2>2, <2>5 DEF Justified
  <2>7. ~Reentrant => Alone'
    BY <1>3, <2>2 DEF IInv, Alone, top
  <2>. QED
    BY <1>2, <1>3, <2>2, <2>4, <2>6, <2>7 DEF IInv
<1>5. CASE buildError(builder) = NoError
  <2>. PICK f : f = newFrame(builder)
    OBVIOUS
  <2>1. stack' = Append(stack, f) /\ UNCHANGED outcome
    BY <1>5 DEF Build
  <2>2. ~builder.finalized /\ staticError(builder) = NoError
    BY <1>1, <1>5, BuildErrorResult
  <2>3. f \in Held /\ f.start = builder /\ f.at = "loop"
    BY <1>1, <2>2, NewFrameHeld
  <2>4. Fits(f, builder)
    BY <1>1, <2>3, KeepsItself DEF Fits
  <2>5. /\ stack' \in Seq(Held) /\ Len(stack') = Len(stack) + 1
        /\ stack'[Len(stack')] = f
        /\ \A d \in DOMAIN stack' : stack'[d] = f \/ (d \in DOMAIN stack /\ stack'[d] = stack[d])
    BY <1>1, <2>1, <2>3
  <2>6. \A d \in DOMAIN stack' : Fits(stack'[d], builder)
    BY <2>4, <2>5 DEF IInv
  <2>7. top' = f
    BY <2>5 DEF top
  <2>8. ASSUME ~Reentrant
        PROVE  Alone'
    <3>1. Alone /\ stack = <<>>
      BY <2>8 DEF IInv, MayCall, Build
    <3>2. Len(stack') <= 1
      BY <2>5, <3>1
    <3>. QED
      BY <1>3, <2>3, <2>7, <3>1, <3>2 DEF Alone
  <2>. QED
    BY <1>1, <1>2, <1>3, <2>1, <2>5, <2>6, <2>8 DEF IInv
<1>. QED
  BY <1>4, <1>5

(***************************************************************************)
(* The rate loop.                                                          *)
(***************************************************************************)
LEMMA SkipKept ==
  ASSUME IInv, Skip
  PROVE  IInv'
<1>1. /\ stack # <<>> /\ top.at = "loop" /\ top.next <= Len(top.entries)
      /\ ~foreign(current)
      /\ SetTop([top EXCEPT !.next = top.next + 1])
      /\ UNCHANGED <<builder, outcome, builds, successes>>
  BY DEF Skip, inLoop, busy
<1>. PICK f : f = top
  OBVIOUS
<1>. PICK n : n = f.next + 1
  OBVIOUS
<1>. PICK t : t = [f EXCEPT !.next = n]
  OBVIOUS
<1>2. f \in Held /\ f \in FrameSet
  BY <1>1, TopHeld
<1>3. /\ f.entries = f.start.entries /\ ~f.start.finalized /\ staticError(f.start) = NoError
      /\ f.answers = Given(f.cache) /\ Behind(f)
      /\ f.start.rateProvider = "nil" => DOMAIN f.cache = {}
  BY <1>2, HeldFrame
<1>4. n \in Nat \ {0} /\ n <= Len(f.entries) + 1 /\ f.next \in Int
  BY <1>1, <1>2, FrameFields
<1>5. /\ t \in FrameSet /\ t.at = f.at /\ t.next = n /\ t.entries = f.entries
      /\ t.start = f.start /\ t.answers = f.answers /\ t.cache = f.cache
  BY <1>2, <1>4 DEF FrameSet
<1>6. \A i \in 1 .. n - 1 : i \in 1 .. f.next - 1 \/ i = f.next
  BY <1>4
<1>7. ~foreign(f.entries[f.next])
  BY <1>1 DEF current
<1>8. Behind(t)
  BY <1>3, <1>5, <1>6, <1>7 DEF Behind, AgreesAt
<1>9. AtAnEntry(t) /\ t.at = "loop"
  BY <1>1, <1>5 DEF AtAnEntry
<1>10. t \in Held
  BY <1>3, <1>4, <1>5, <1>8, <1>9 DEF Held
<1>11. SetTop(t)
  BY <1>1
<1>. QED
  BY <1>1, <1>5, <1>9, <1>10, <1>11, SetTopKept

(* The entry the loop is at, and what the checks of the turn read of the   *)
(* builder.                                                                *)
LEMMA Turn ==
  ASSUME IInv, stack # <<>>, top.next <= Len(top.entries)
  PROVE  /\ top \in FrameSet /\ top.entries = top.start.entries
         /\ staticError(top.start) = NoError /\ top.answers = Given(top.cache)
         /\ top.next \in Int /\ current = top.entries[top.next]
         /\ request = pending(top) /\ request \in RequestSet
         /\ Decimal!Positive(current.exchangeRate)
         /\ builder.rateProvider = top.start.rateProvider
         /\ guardError \in ValidationError
         /\ guardError = NoError <=> top.start.rateProvider # "nil"
<1>1. top \in Held /\ Fits(top, builder)
  BY TopHeld
<1>2. /\ top \in FrameSet /\ top.entries = top.start.entries
      /\ staticError(top.start) = NoError /\ top.answers = Given(top.cache)
  BY <1>1, HeldFrame
<1>3. /\ top.next \in Int /\ pending(top) \in RequestSet
      /\ Decimal!Positive(top.entries[top.next].exchangeRate)
  BY <1>2, EntryOfTurn
<1>4. current = top.entries[top.next]
  BY DEF current
<1>5. request = pending(top) /\ builder.rateProvider = top.start.rateProvider
  BY <1>1, <1>4, ReadAsAtStart DEF request
<1>6. guardError = rateGuard(current, top.next, FALSE, top.start.rateProvider)
  BY <1>5 DEF guardError
<1>7. /\ guardError \in ValidationError
      /\ guardError = NoError <=> top.start.rateProvider # "nil"
  BY <1>3, <1>4, <1>6, GuardResult
<1>. QED
  BY <1>2, <1>3, <1>4, <1>5, <1>7

LEMMA RejectEntryKept ==
  ASSUME IInv, RejectEntry
  PROVE  IInv'
<1>1. /\ stack # <<>> /\ top.next <= Len(top.entries) /\ foreign(current)
      /\ guardError # NoError /\ Fail(top, guardError) /\ UNCHANGED <<builds, successes>>
  BY DEF RejectEntry, inLoop, busy
<1>. PICK f : f = top
  OBVIOUS
<1>. PICK err : err = guardError
  OBVIOUS
<1>2. /\ f \in FrameSet /\ f.entries = f.start.entries /\ f.answers = Given(f.cache)
      /\ err \in ValidationError /\ f.start.rateProvider = "nil"
      /\ foreign(f.entries[f.next])
  BY <1>1, Turn
<1>3. DOMAIN f.cache = {}
  BY <1>1, <1>2, TopHeld, HeldFrame
<1>4. ~RatesAgree(f.start, f.answers)
  BY <1>1, <1>2, <1>3, Unanswered
<1>. QED
  BY <1>1, <1>2, <1>4, FailKept

LEMMA UseCachedKept ==
  ASSUME IInv, UseCached
  PROVE  IInv'
<1>1. /\ stack # <<>> /\ top.at = "loop" /\ top.next <= Len(top.entries)
      /\ foreign(current) /\ request \in DOMAIN top.cache
      /\ Compare(top, top.cache[request]) /\ UNCHANGED <<builds, successes>>
  BY DEF UseCached, inLoop, busy
<1>. PICK f : f = top
  OBVIOUS
<1>2. f \in Held
  BY <1>1, TopHeld
<1>3. foreign(f.entries[f.next]) /\ request = pending(f)
  BY <1>1, Turn
<1>4. f \in Resolved
  BY <1>1, <1>2, <1>3, CachedResolves
<1>. PICK rate : rate = f.cache[pending(f)]
  OBVIOUS
<1>5. Compare(f, rate)
  BY <1>1, <1>3
<1>. QED
  BY <1>1, <1>4, <1>5, CompareKept

LEMMA AskProviderKept ==
  ASSUME IInv, AskProvider
  PROVE  IInv'
<1>1. /\ stack # <<>> /\ top.next <= Len(top.entries)
      /\ foreign(current) /\ guardError = NoError /\ request \notin DOMAIN top.cache
      /\ SetTop([top EXCEPT !.at = "provider"])
      /\ UNCHANGED <<builder, outcome, builds, successes>>
  BY DEF AskProvider, inLoop, busy
<1>. PICK f : f = top
  OBVIOUS
<1>. PICK t : t = [f EXCEPT !.at = "provider"]
  OBVIOUS
<1>2. f \in Held /\ f \in FrameSet
  BY <1>1, TopHeld
<1>3. /\ f.next <= Len(f.entries) + 1
      /\ f.entries = f.start.entries /\ ~f.start.finalized /\ staticError(f.start) = NoError
      /\ f.answers = Given(f.cache) /\ Behind(f)
  BY <1>2, HeldFrame
<1>4. /\ foreign(f.entries[f.next]) /\ pending(f) \notin DOMAIN f.cache
      /\ f.start.rateProvider # "nil"
  BY <1>1, Turn
<1>5. /\ t \in FrameSet /\ t.at = "provider" /\ t.next = f.next /\ t.entries = f.entries
      /\ t.start = f.start /\ t.answers = f.answers /\ t.cache = f.cache
  BY <1>2 DEF FrameSet
<1>6. Behind(t)
  BY <1>3, <1>5 DEF Behind, AgreesAt
<1>7. AtAnEntry(t)
  BY <1>1, <1>4, <1>5 DEF AtAnEntry, pending
<1>8. t \in Held
  BY <1>3, <1>4, <1>5, <1>6, <1>7 DEF Held
<1>9. SetTop(t)
  BY <1>1
<1>. QED
  BY <1>1, <1>5, <1>8, <1>9, SetTopKept

LEMMA ProviderAnswersKept ==
  ASSUME IInv, ProviderAnswers
  PROVE  IInv'
<1>. PICK rate \in Rates :
       Compare([top EXCEPT !.cache   = store(top.cache, request, rate),
                           !.answers = top.answers \cup
                                         {[request |-> request, rate |-> rate]}],
               rate)
  BY DEF ProviderAnswers
<1>1. stack # <<>> /\ top.at = "provider" /\ UNCHANGED <<builds, successes>>
  BY DEF ProviderAnswers, busy
<1>. PICK f : f = top
  OBVIOUS
<1>2. f \in Held /\ f.at = "provider"
  BY <1>1, TopHeld
<1>3. f.next <= Len(f.entries)
  BY <1>1, <1>2, HeldFrame DEF AtAnEntry
<1>4. request = pending(f)
  BY <1>1, <1>3, Turn
<1>. PICK h : h = answered(f, rate)
  OBVIOUS
<1>5. Compare(h, rate)
  BY <1>4 DEF answered
<1>6. rate \in Decimal!Decimal
  BY TxBuilderAssumption
<1>7. /\ h \in Resolved
      /\ h.entries = f.entries /\ h.next = f.next /\ h.start = f.start
      /\ h.at = "provider"
      /\ pending(h) = pending(f) /\ h.cache[pending(f)] = rate
  <2>1. h = answered(f, rate)
    OBVIOUS
  <2>. QED
    BY <1>2, <1>6, <2>1, AnswerResolves, Zenon
<1>8. /\ h.entries = top.entries /\ h.next = top.next /\ h.start = top.start
      /\ rate = h.cache[pending(h)]
  BY <1>7
<1>9. h \in Resolved
  BY <1>7
<1>. QED
  BY <1>1, <1>5, <1>8, <1>9, CompareKept, Zenon

LEMMA ProviderFailsKept ==
  ASSUME IInv, ProviderFails
  PROVE  IInv'
<1>1. /\ stack # <<>> /\ top.at = "provider"
      /\ Fail(top, answerError(TRUE, top.next, FALSE)) /\ UNCHANGED <<builds, successes>>
  BY DEF ProviderFails, busy
<1>. PICK f : f = top
  OBVIOUS
<1>2. f \in Held /\ f \in FrameSet
  BY <1>1, TopHeld
<1>3. /\ f.next <= Len(f.entries) /\ foreign(f.entries[f.next])
      /\ pending(f) \notin DOMAIN f.cache
      /\ f.entries = f.start.entries /\ f.answers = Given(f.cache) /\ f.next \in Int
  BY <1>1, <1>2, HeldFrame, FrameFields DEF AtAnEntry
<1>. PICK err : err = answerError(TRUE, f.next, FALSE)
  OBVIOUS
<1>4. err \in ValidationError
  BY <1>3, AnswerResult
<1>5. ~RatesAgree(f.start, f.answers)
  BY <1>2, <1>3, Unanswered
<1>. QED
  BY <1>1, <1>2, <1>4, <1>5, FailKept

LEMMA PanicKept ==
  ASSUME IInv, Panic
  PROVE  IInv'
<1>1. /\ stack # <<>> /\ Pop /\ UNCHANGED <<builder, builds, successes>>
      /\ outcome' = [kind |-> "panic", err |-> NoError, tx |-> NoTransaction,
                     start |-> top.start, answers |-> top.answers]
  BY DEF Panic, busy, Ended
<1>2. top.start \in BuilderSet /\ top.answers \in SUBSET AnswerSet
  BY <1>1, TopHeld, FrameFields
<1>3. outcome' \in OutcomeSet /\ Justified(outcome')
  BY <1>1, <1>2, NoTransactionType, NoErrorType DEF OutcomeSet, Justified
<1>. QED
  BY <1>1, <1>3, PopKept

(* Build reads the clock with its loop behind it. *)
LEMMA ReadClockKept ==
  ASSUME IInv, ReadClock
  PROVE  IInv'
<1>. PICK entries, adjusting :
       entries = builder.entries /\ adjusting = builder.isAdjustingEvent
  OBVIOUS
<1>1. /\ stack # <<>> /\ top.next > Len(top.entries)
      /\ SetTop([top EXCEPT !.at = "clock", !.adjusting = adjusting, !.read = entries])
      /\ UNCHANGED <<builder, outcome, builds, successes>>
  BY DEF ReadClock, busy
<1>. PICK f : f = top
  OBVIOUS
<1>. PICK t : t = [f EXCEPT !.at = "clock", !.adjusting = adjusting, !.read = entries]
  OBVIOUS
<1>2. f \in Held /\ f \in FrameSet
  BY <1>1, TopHeld
<1>3. /\ f.next <= Len(f.entries) + 1
      /\ f.entries = f.start.entries /\ ~f.start.finalized /\ staticError(f.start) = NoError
      /\ f.answers = Given(f.cache) /\ Behind(f)
      /\ f.start.rateProvider = "nil" => DOMAIN f.cache = {}
  BY <1>2, HeldFrame
<1>4. entries \in Seq(EntrySet) /\ adjusting \in BOOLEAN
  BY BuilderFields DEF IInv
<1>5. /\ t \in FrameSet /\ t.at = "clock" /\ t.next = f.next /\ t.entries = f.entries
      /\ t.start = f.start /\ t.answers = f.answers /\ t.cache = f.cache
      /\ t.read = entries /\ t.adjusting = adjusting
  BY <1>2, <1>4 DEF FrameSet
<1>6. Behind(t)
  BY <1>3, <1>5 DEF Behind, AgreesAt
<1>7. AtAnEntry(t)
  BY <1>1, <1>5 DEF AtAnEntry
<1>8. t \in Held
  BY <1>3, <1>5, <1>6, <1>7 DEF Held
<1>9. SetTop(t)
  BY <1>1
<1>. QED
  BY <1>1, <1>5, <1>8, <1>9, SetTopKept

(* The transaction: what Go read of the builder before the clock or reads  *)
(* after it, in front the entries Build found.                             *)
LEMMA TransactionType ==
  ASSUME NEW b \in BuilderSet, NEW adjusting \in BOOLEAN, NEW entries \in Seq(EntrySet),
         NEW now \in TimeSet,
         NEW tx, tx = Transaction([b EXCEPT !.isAdjustingEvent = adjusting], entries, now)
  PROVE  tx \in TransactionSet /\ tx.entries = entries
<1>. PICK c : c = [b EXCEPT !.isAdjustingEvent = adjusting]
  OBVIOUS
<1>1. /\ c.id \in IdSet /\ c.effectiveDate \in TimeSet /\ c.isAdjustingEvent \in BOOLEAN
      /\ c.metadata \in SUBSET IdSet
  BY DEF BuilderSet
<1>2. UTC(c.effectiveDate) \in TimeSet /\ UTC(now) \in TimeSet
  BY <1>1 DEF UTC, TimeSet
<1>. QED
  BY <1>1, <1>2 DEF Transaction, TransactionSet

LEMMA ClockReturnsKept ==
  ASSUME IInv, ClockReturns
  PROVE  IInv'
<1>. PICK now \in Times,
          adjusting \in {top.adjusting, builder.isAdjustingEvent},
          entries \in {top.read, builder.entries} :
       Ended("transaction", NoError,
             Transaction([builder EXCEPT !.isAdjustingEvent = adjusting], entries, now), top)
  BY DEF ClockReturns
<1>. PICK tx : tx = Transaction([builder EXCEPT !.isAdjustingEvent = adjusting], entries, now)
  OBVIOUS
<1>. PICK f : f = top
  OBVIOUS
<1>. PICK done : done = [builder EXCEPT !.finalized = TRUE]
  OBVIOUS
<1>1. /\ stack # <<>> /\ f.at = "clock"
      /\ builder' = done /\ successes' = successes + 1 /\ Pop /\ builds' = builds
      /\ outcome' = [kind |-> "transaction", err |-> NoError, tx |-> tx,
                     start |-> f.start, answers |-> f.answers]
  BY DEF ClockReturns, busy, Ended
<1>2. /\ builder \in BuilderSet /\ Made(builder) /\ builds \in Nat /\ successes \in Nat
      /\ stack \in Seq(Held)
  BY DEF IInv
<1>3. f \in Held /\ f \in FrameSet /\ Fits(f, builder)
  BY <1>1, TopHeld
<1>4. /\ f.start \in BuilderSet /\ f.answers \in SUBSET AnswerSet
      /\ f.entries = f.start.entries /\ staticError(f.start) = NoError
      /\ Behind(f) /\ f.next > Len(f.entries) /\ f.next \in Nat
      /\ f.read \in Seq(EntrySet) /\ f.adjusting \in BOOLEAN
      /\ f.entries \in Seq(EntrySet)
  BY <1>1, <1>3, HeldFrame, FrameFields DEF AtAnEntry
<1>5. /\ builder.entries \in Seq(EntrySet) /\ builder.isAdjustingEvent \in BOOLEAN
      /\ builder.finalized \in BOOLEAN
  BY <1>2, BuilderFields
<1>6. entries \in Seq(EntrySet) /\ adjusting \in BOOLEAN /\ now \in TimeSet
  BY <1>4, <1>5, TxBuilderAssumption
<1>7. Extends(f.start.entries, entries)
  BY <1>1, <1>3 DEF Fits, Keeps
<1>8. tx \in TransactionSet /\ tx.entries = entries
  BY <1>2, <1>6, TransactionType
<1>9. RatesAgree(f.start, f.answers)
  <2>1. \A i \in DOMAIN f.entries : i \in 1 .. f.next - 1
    BY <1>4
  <2>. QED
    BY <1>4, <2>1 DEF RatesAgree, RatesHold, Behind, AgreesAt, foreign
<1>10. outcome' \in OutcomeSet
  BY <1>1, <1>4, <1>8, NoErrorType DEF OutcomeSet
<1>11. ASSUME ~Reentrant
       PROVE  tx = Transaction(f.start, f.start.entries, now)
  <2>1. /\ builder = f.start /\ f.read = builder.entries
        /\ f.adjusting = builder.isAdjustingEvent
    BY <1>1, <1>11 DEF IInv, Alone
  <2>2. entries = f.start.entries /\ adjusting = f.start.isAdjustingEvent
    BY <2>1
  <2>3. [builder EXCEPT !.isAdjustingEvent = adjusting] = builder
    BY <1>2, <2>1, <2>2 DEF BuilderSet
  <2>. QED
    BY <2>1, <2>2, <2>3
<1>12. Justified(outcome')
  BY <1>1, <1>4, <1>7, <1>8, <1>9, <1>11 DEF Justified
<1>13. /\ done \in BuilderSet /\ done.finalized /\ done.entries = builder.entries
       /\ Made(done) /\ Keeps(builder, done)
  BY <1>2, KeepsItself DEF BuilderSet, Made, Keeps
<1>. PICK s : s = SubSeq(stack, 1, Len(stack) - 1)
  OBVIOUS
<1>14. /\ s \in Seq(Held) /\ Len(s) = Len(stack) - 1
       /\ \A d \in DOMAIN s : d \in DOMAIN stack /\ s[d] = stack[d]
  BY <1>1, <1>2, Popped
<1>15. stack' = s
  BY <1>1 DEF Pop
<1>16. \A d \in DOMAIN s : Fits(s[d], done)
  <2>1. \A d \in DOMAIN s : Fits(s[d], builder) /\ s[d] \in FrameSet
    BY <1>14, HeldFrame DEF IInv
  <2>. QED
    BY <1>2, <1>13, <2>1, FitsStill
<1>17. ASSUME ~Reentrant
       PROVE  Alone'
  <2>1. Alone
    BY <1>17 DEF IInv
  <2>2. builder = f.start /\ Len(stack) <= 1
    BY <1>1, <2>1 DEF Alone
  <2>3. ~builder.finalized
    BY <1>3, <2>2, HeldFrame
  <2>4. successes = 0
    BY <2>1, <2>3 DEF Alone
  <2>5. successes' = 1
    BY <1>1, <2>4
  <2>6. Len(s) <= 1 /\ s = <<>>
    BY <1>1, <1>2, <1>14, <2>2, PoppedLast
  <2>. QED
    BY <1>1, <1>13, <1>15, <2>5, <2>6 DEF Alone
<1>18. successes' \in Nat
  BY <1>1, <1>2
<1>. QED
  BY <1>1, <1>2, <1>10, <1>12, <1>13, <1>14, <1>15, <1>16, <1>17, <1>18 DEF IInv

(***************************************************************************)
(* The invariant holds of every state.                                     *)
(***************************************************************************)
LEMMA IInit == Init => IInv
<1>. SUFFICES ASSUME Init PROVE IInv
  OBVIOUS
<1>1. builder \in BuilderSet /\ ~builder.finalized /\ builder.entries = <<>>
  BY TxBuilderAssumption DEF Init
<1>2. Made(builder)
  BY <1>1 DEF Made
<1>3. stack = <<>> /\ stack \in Seq(Held) /\ Len(stack) = 0
  BY DEF Init
<1>4. outcome = [kind |-> "none", err |-> NoError, tx |-> NoTransaction,
                 start |-> builder, answers |-> {}]
  BY DEF Init
<1>5. {} \in SUBSET AnswerSet
  OBVIOUS
<1>6. outcome \in OutcomeSet
  BY <1>1, <1>4, <1>5, NoErrorType, NoTransactionType DEF OutcomeSet
<1>7. Justified(outcome)
  BY <1>4 DEF Justified
<1>8. builds \in Nat /\ successes \in Nat /\ successes = 0
  BY DEF Init
<1>9. Alone
  BY <1>1, <1>3, <1>8 DEF Alone
<1>. QED
  BY <1>1, <1>2, <1>3, <1>6, <1>7, <1>8, <1>9 DEF IInv

LEMMA CallKept ==
  ASSUME IInv, AddEntry \/ SetAdjustingEvent \/ WithMetadata
  PROVE  IInv'
<1>1. builder \in BuilderSet /\ Made(builder)
  BY DEF IInv
<1>2. CASE AddEntry
  <2>. PICK e \in Entries : builder' = addEntry(builder, e)
    BY <1>2 DEF AddEntry
  <2>1. e \in EntrySet /\ MadeEntry(e)
    BY TxBuilderAssumption
  <2>. PICK b : b = addEntry(builder, e)
    OBVIOUS
  <2>2. /\ b \in BuilderSet /\ Made(b) /\ Keeps(builder, b)
        /\ b.finalized = builder.finalized
    BY <1>1, <2>1, AccumulatedType
  <2>. QED
    BY <1>2, <2>2, AccumulateKept DEF AddEntry
<1>3. CASE SetAdjustingEvent
  <2>. PICK adjusting \in BOOLEAN : builder' = setAdjustingEvent(builder, adjusting)
    BY <1>3 DEF SetAdjustingEvent
  <2>. PICK b : b = setAdjustingEvent(builder, adjusting)
    OBVIOUS
  <2>1. /\ b \in BuilderSet /\ Made(b) /\ Keeps(builder, b)
        /\ b.finalized = builder.finalized
    BY <1>1, AccumulatedType
  <2>. QED
    BY <1>3, <2>1, AccumulateKept DEF SetAdjustingEvent
<1>4. CASE WithMetadata
  <2>. PICK meta \in Metadata : builder' = withMetadata(builder, meta)
    BY <1>4 DEF WithMetadata
  <2>1. meta \in SUBSET IdSet
    BY TxBuilderAssumption
  <2>. PICK b : b = withMetadata(builder, meta)
    OBVIOUS
  <2>2. /\ b \in BuilderSet /\ Made(b) /\ Keeps(builder, b)
        /\ b.finalized = builder.finalized
    BY <1>1, <2>1, AccumulatedType
  <2>. QED
    BY <1>4, <2>2, AccumulateKept DEF WithMetadata
<1>. QED
  BY <1>2, <1>3, <1>4

LEMMA IStep == IInv /\ [Next]_vars => IInv'
<1>. SUFFICES ASSUME IInv, [Next]_vars PROVE IInv'
  OBVIOUS
<1>1. CASE AddEntry \/ SetAdjustingEvent \/ WithMetadata
  BY <1>1, CallKept
<1>2. CASE Build
  BY <1>2, BuildKept
<1>3. CASE Skip
  BY <1>3, SkipKept
<1>4. CASE RejectEntry
  BY <1>4, RejectEntryKept
<1>5. CASE UseCached
  BY <1>5, UseCachedKept
<1>6. CASE AskProvider
  BY <1>6, AskProviderKept
<1>7. CASE ProviderAnswers
  BY <1>7, ProviderAnswersKept
<1>8. CASE ProviderFails
  BY <1>8, ProviderFailsKept
<1>9. CASE Panic
  BY <1>9, PanicKept
<1>10. CASE ReadClock
  BY <1>10, ReadClockKept
<1>11. CASE ClockReturns
  BY <1>11, ClockReturnsKept
<1>12. CASE UNCHANGED vars
  BY <1>12 DEF vars, IInv, Alone, top
<1>. QED
  BY <1>1, <1>2, <1>3, <1>4, <1>5, <1>6, <1>7, <1>8, <1>9, <1>10, <1>11, <1>12 DEF Next

(* Whatever the callbacks do, the Builds under way and the last outcome    *)
(* are as the invariant says.                                              *)
THEOREM Inductive == Spec => []IInv
<1>1. Init => IInv
  BY IInit
<1>2. IInv /\ [Next]_vars => IInv'
  BY IStep
<1>. QED
  BY <1>1, <1>2, PTL DEF Spec

(* Every variable of a builder's life keeps its type: in particular a loop *)
(* never runs past the entries it ranges over.                             *)
THEOREM TypeCorrect == Spec => []TypeOK
<1>1. IInv => TypeOK
  <2>. SUFFICES ASSUME IInv PROVE TypeOK
    OBVIOUS
  <2>1. DOMAIN stack = 1 .. Len(stack) /\ \A d \in DOMAIN stack : stack[d] \in Held
    BY DEF IInv
  <2>2. ASSUME NEW f \in Held
        PROVE  FrameOK(f)
    <3>1. f.cache \in Caches /\ f.next \in Nat \ {0} /\ f.next <= Len(f.entries) + 1
      BY HeldFrame, FrameFields
    <3>2. Len(f.entries) \in Nat
      BY HeldFrame, FrameFields
    <3>3. f.next \in 1 .. Len(f.entries) + 1
      BY <3>1, <3>2
    <3>4. DOMAIN f.cache \subseteq RequestSet /\ f.cache \in [DOMAIN f.cache -> Decimal!Decimal]
      BY <3>1, CacheType
    <3>. QED
      BY <3>3, <3>4, HeldFrame, FrameFields DEF FrameOK
  <2>. QED
    BY <2>1, <2>2 DEF IInv, TypeOK, OutcomeSet
<1>. QED
  BY <1>1, Inductive, PTL

(* tx.go:93-96: once a Build has succeeded no call changes the builder,    *)
(* not even one made from inside another Build of it.                      *)
THEOREM FinalizedStays == Spec => FinalizedFrozen
<1>1. IInv /\ [Next]_vars => [builder.finalized => builder' = builder]_vars
  <2>. SUFFICES ASSUME IInv, Next, builder.finalized
                PROVE  builder' = builder
    OBVIOUS
  <2>1. builder \in BuilderSet
    BY DEF IInv
  <2>2. [builder EXCEPT !.finalized = TRUE] = builder
    BY <2>1 DEF BuilderSet
  <2>3. CASE AddEntry \/ SetAdjustingEvent \/ WithMetadata
    BY <2>3 DEF AddEntry, SetAdjustingEvent, WithMetadata,
               addEntry, setAdjustingEvent, withMetadata
  <2>4. CASE Build \/ Skip \/ RejectEntry \/ AskProvider \/ ProviderFails \/ Panic \/ ReadClock
    BY <2>4 DEF Build, Skip, RejectEntry, AskProvider, ProviderFails, Panic, ReadClock, Fail
  <2>5. CASE UseCached \/ ProviderAnswers
    BY <2>5 DEF UseCached, ProviderAnswers, Compare, Fail
  <2>6. CASE ClockReturns
    BY <2>2, <2>6 DEF ClockReturns
  <2>. QED
    BY <2>3, <2>4, <2>5, <2>6 DEF Next
<1>. QED
  BY <1>1, Inductive, PTL DEF Spec, FinalizedFrozen

(* The entries a Build found are in its transaction, in front and each of  *)
(* them checked, even when the provider or the clock adds more.            *)
THEOREM FoundChecked == Spec => []FoundEntriesChecked
<1>1. IInv => FoundEntriesChecked
  <2>. SUFFICES ASSUME IInv, Succeeded
                PROVE  /\ IsPrefix(outcome.start.entries, outcome.tx.entries)
                       /\ SoundEntries(outcome.start.entries,
                                       outcome.start.config.functionalCurrency)
                       /\ RatesAgree(outcome.start, outcome.answers)
    BY DEF FoundEntriesChecked, RatesAgree
  <2>1. outcome.start \in BuilderSet /\ outcome.tx \in TransactionSet
    BY DEF IInv, OutcomeSet
  <2>2. /\ staticError(outcome.start) = NoError
        /\ Extends(outcome.start.entries, outcome.tx.entries)
        /\ RatesAgree(outcome.start, outcome.answers)
    BY DEF IInv, Justified, Succeeded
  <2>3. /\ outcome.start.entries \in Seq(EntrySet) /\ outcome.start.effectiveDate \in TimeSet
        /\ outcome.tx.entries \in Seq(EntrySet)
    BY <2>1, BuilderFields DEF TransactionSet
  <2>. QED
    BY <2>2, <2>3, ExtendsPrefix, StaticSound
<1>. QED
  BY <1>1, Inductive, PTL

(* A builder whose contents keep the guarantees is rejected only for its   *)
(* rates, whatever failed before and whatever calls it meanwhile.          *)
THEOREM WorthyNotRejected == Spec => []WorthyBuildersNotRejected
<1>1. IInv => WorthyBuildersNotRejected
  <2>. SUFFICES ASSUME IInv, outcome.kind = "error", Worthy(outcome.start),
                       ~outcome.start.finalized
                PROVE  ~RatesAgree(outcome.start, outcome.answers)
    BY DEF WorthyBuildersNotRejected, RatesAgree
  <2>1. outcome.start \in BuilderSet
    BY DEF IInv, OutcomeSet
  <2>2. \/ staticError(outcome.start) # NoError /\ Made(outcome.start)
        \/ ~RatesAgree(outcome.start, outcome.answers)
    BY DEF IInv, Justified
  <2>3. outcome.start.entries \in Seq(EntrySet) /\ outcome.start.effectiveDate \in TimeSet
    BY <2>1, BuilderFields
  <2>4. Made(outcome.start) => staticError(outcome.start) = NoError
    BY <2>3, StaticComplete DEF Made, Worthy, ValidConfig
  <2>. QED
    BY <2>2, <2>4
<1>. QED
  BY <1>1, Inductive, PTL

(***************************************************************************)
(* Of a builder that the provider and the clock leave alone.               *)
(***************************************************************************)

(* doc.go:5-18: its transaction keeps every guarantee.                     *)
THEOREM TransactionsSound == ~Reentrant => (Spec => []BuiltTransactionsSound)
<1>. SUFFICES ASSUME ~Reentrant PROVE Spec => []BuiltTransactionsSound
  OBVIOUS
<1>1. IInv => BuiltTransactionsSound
  <2>. SUFFICES ASSUME IInv, Succeeded
                PROVE  /\ ValidConfig(outcome.start.config)
                       /\ Sound(outcome.tx, outcome.start.config)
                       /\ RatesHold(outcome.tx.entries, outcome.tx.effectiveDate,
                                    outcome.answers, outcome.start.config.rateTolerance)
    BY DEF BuiltTransactionsSound
  <2>. PICK b : b = outcome.start
    OBVIOUS
  <2>. PICK tx : tx = outcome.tx
    OBVIOUS
  <2>1. b \in BuilderSet
    BY DEF IInv, OutcomeSet
  <2>2. staticError(b) = NoError /\ RatesAgree(b, outcome.answers)
    BY DEF IInv, Justified, Succeeded
  <2>. PICK now \in Times : tx = Transaction(b, b.entries, now)
    BY DEF IInv, Justified, Succeeded
  <2>3. /\ b.entries \in Seq(EntrySet) /\ b.effectiveDate \in TimeSet /\ now \in TimeSet
    BY <2>1, BuilderFields, TxBuilderAssumption
  <2>4. /\ UTC(b.effectiveDate).at = b.effectiveDate.at
        /\ UTC(b.effectiveDate).zone = "UTC" /\ UTC(now).zone = "UTC"
    BY <2>3 DEF UTC, TimeSet
  <2>5. /\ tx.id = b.id /\ tx.effectiveDate = UTC(b.effectiveDate)
        /\ tx.isAdjustingEvent = b.isAdjustingEvent /\ tx.postedAt = UTC(now)
        /\ tx.entries = b.entries /\ tx.metadata = b.metadata
    BY DEF Transaction
  <2>6. /\ ValidConfig(b.config)
        /\ Bounded(b.id, 255) /\ b.effectiveDate.at # 0
        /\ \A key \in b.metadata : Bounded(key, 64)
        /\ SoundEntries(b.entries, b.config.functionalCurrency)
        /\ InOpenPeriod(b.effectiveDate, b.isAdjustingEvent, b.config)
    BY <2>2, <2>3, StaticSound DEF ValidConfig
  <2>7. InOpenPeriod(tx.effectiveDate, tx.isAdjustingEvent, b.config)
    BY <2>4, <2>5, <2>6 DEF InOpenPeriod
  <2>8. Sound(tx, b.config)
    BY <2>4, <2>5, <2>6, <2>7 DEF Sound
  <2>9. RatesHold(tx.entries, tx.effectiveDate, outcome.answers, b.config.rateTolerance)
    BY <2>2, <2>4, <2>5 DEF RatesAgree, RatesHold, Agrees
  <2>. QED
    BY <2>6, <2>8, <2>9
<1>. QED
  BY <1>1, Inductive, PTL

(* tx.go:93-95: it yields one transaction at most.                         *)
THEOREM OneTransaction == ~Reentrant => (Spec => []OneTransactionPerBuilder)
<1>. SUFFICES ASSUME ~Reentrant PROVE Spec => []OneTransactionPerBuilder
  OBVIOUS
<1>1. IInv => OneTransactionPerBuilder
  <2>. SUFFICES ASSUME IInv PROVE successes <= 1
    BY DEF OneTransactionPerBuilder
  <2>1. successes = IF builder.finalized THEN 1 ELSE 0
    BY DEF IInv, Alone
  <2>. QED
    BY <2>1
<1>. QED
  BY <1>1, Inductive, PTL

(* tx.go:210: a Build that fails leaves it as it was.                      *)
THEOREM FailureKeepsBuilder == ~Reentrant => (Spec => FailedBuildKeepsBuilder)
<1>. SUFFICES ASSUME ~Reentrant PROVE Spec => FailedBuildKeepsBuilder
  OBVIOUS
<1>1. IInv /\ [Next]_vars
        => [outcome' # outcome /\ outcome'.kind \in {"error", "panic"}
              => builder' = outcome'.start]_vars
  <2>. SUFFICES ASSUME IInv, Next, outcome' # outcome,
                       outcome'.kind \in {"error", "panic"}
                PROVE  builder' = outcome'.start
    OBVIOUS
  <2>1. stack # <<>> => builder = top.start
    BY DEF IInv, Alone
  <2>2. CASE AddEntry \/ SetAdjustingEvent \/ WithMetadata
             \/ Skip \/ AskProvider \/ ReadClock
    BY <2>2 DEF AddEntry, SetAdjustingEvent, WithMetadata, Skip, AskProvider, ReadClock
  <2>3. CASE Build
    BY <2>3 DEF Build, Ended, newFrame
  <2>4. CASE RejectEntry
    BY <2>1, <2>4 DEF RejectEntry, Fail, Ended, inLoop, busy
  <2>5. CASE UseCached
    BY <2>1, <2>5 DEF UseCached, Compare, Fail, Ended, inLoop, busy
  <2>6. CASE ProviderAnswers
    <3>. PICK rate \in Rates :
           Compare([top EXCEPT !.cache   = store(top.cache, request, rate),
                               !.answers = top.answers \cup
                                             {[request |-> request, rate |-> rate]}],
                   rate)
      BY <2>6 DEF ProviderAnswers
    <3>. PICK h : h = [top EXCEPT !.cache   = store(top.cache, request, rate),
                                  !.answers = top.answers \cup
                                                {[request |-> request, rate |-> rate]}]
      OBVIOUS
    <3>1. stack # <<>> /\ top \in FrameSet
      BY <2>6, TopHeld DEF ProviderAnswers, busy
    <3>2. h.start = top.start
      BY <3>1 DEF FrameSet
    <3>3. Fail(h, compareError(rate))
      BY DEF Compare
    <3>. QED
      BY <2>1, <3>1, <3>2, <3>3 DEF Fail, Ended
  <2>7. CASE ProviderFails
    BY <2>1, <2>7 DEF ProviderFails, Fail, Ended, busy
  <2>8. CASE Panic
    BY <2>1, <2>8 DEF Panic, Ended, busy
  <2>9. CASE ClockReturns
    BY <2>9 DEF ClockReturns, Ended
  <2>. QED
    BY <2>2, <2>3, <2>4, <2>5, <2>6, <2>7, <2>8, <2>9 DEF Next
<1>. QED
  BY <1>1, Inductive, PTL DEF Spec, FailedBuildKeepsBuilder
===============================================================================
