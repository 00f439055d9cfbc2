------------------------------ MODULE LedgerProofs ------------------------------
(***************************************************************************)
(* Theorems about Ledger, for every number of goroutines and every         *)
(* registry, configuration, input, rate and bound its assumptions admit:   *)
(* first what no call ever does to what it shares with others, then what   *)
(* it returned and why, up to the refinement of AtomicLedger.              *)
(***************************************************************************)
EXTENDS LedgerRefinement, ValidationProofs

Asking == {"request", "provider", "resolve"}

(* While a rate is being obtained the loop is at an entry. *)
AtAnEntry == \A g \in Goroutines :
  pc[g] \in Asking => next[g] \in DOMAIN builder[g].entries

(* A goroutine that made a call has the builder of one. *)
Started == \A g \in Goroutines : pc[g] # "idle" => builder[g] \in BuilderSet

TypeInv == TypeOK /\ AtAnEntry /\ Started

(***************************************************************************)
(* Types of the values the actions store.                                  *)
(***************************************************************************)
LEMMA NormalizeResult ==
  ASSUME NEW c \in LedgerConfig, validateConfig(c) = NoError
  PROVE  normalizeConfig(c) \in NormalConfig
<1>. DEFINE code == c.functionalCurrency
            n    == normalizeConfig(c)
<1>1. ratableCurrency(code) = "nil" /\ ~Decimal!IsNegative(c.rateTolerance)
  BY ValidateConfigResult
<1>2. /\ lookup(code) = "nil"
      /\ Code(code) \in DOMAIN Upper \cap DOMAIN Registry
      /\ Code(Code(code)) = Code(code)
      /\ Registry[Code(code)] # NotRatable
  BY <1>1, CanonicalCode DEF ratableCurrency
<1>3. c.closedDate \in TimeSet
  BY DEF LedgerConfig
<1>4. /\ UTC(c.closedDate) \in TimeSet
      /\ UTC(c.closedDate).zone = "UTC"
      /\ UTC(c.closedDate).at = c.closedDate.at
  BY <1>3 DEF UTC, TimeSet
<1>5. Code(code) \in STRING
  BY <1>2, LedgerAssumption
<1>6. (IF IsZeroTime(c.closedDate) THEN c.closedDate ELSE UTC(c.closedDate)) \in TimeSet
  BY <1>3, <1>4
<1>7. n = [c EXCEPT !.functionalCurrency = Code(code),
                    !.closedDate = IF IsZeroTime(c.closedDate) THEN c.closedDate
                                   ELSE UTC(c.closedDate)]
  BY <1>2 DEF normalizeConfig
<1>. HIDE DEF n
<1>8. /\ n \in LedgerConfig
      /\ n.functionalCurrency = Code(code)
      /\ n.rateTolerance = c.rateTolerance
      /\ n.closedDate = IF IsZeroTime(c.closedDate) THEN c.closedDate ELSE UTC(c.closedDate)
  BY <1>5, <1>6, <1>7 DEF LedgerConfig
<1>9. n.closedDate.at # 0 => n.closedDate.zone = "UTC"
  BY <1>4, <1>8 DEF IsZeroTime
<1>. QED
  BY <1>1, <1>2, <1>8, <1>9 DEF NormalConfig, Code, n

LEMMA NormalizeIdempotent ==
  ASSUME NEW c \in NormalConfig
  PROVE  normalizeConfig(c) = c
<1>1. lookup(c.functionalCurrency) = "nil" /\ Code(c.functionalCurrency) = c.functionalCurrency
  BY DEF NormalConfig, lookup, validCode, Code
<1>2. c.closedDate \in TimeSet /\ (~IsZeroTime(c.closedDate) => c.closedDate.zone = "UTC")
  BY DEF NormalConfig, LedgerConfig, IsZeroTime
<1>3. ~IsZeroTime(c.closedDate) => UTC(c.closedDate) = c.closedDate
  BY <1>2 DEF UTC, TimeSet
<1>. QED
  BY <1>1, <1>3 DEF normalizeConfig, NormalConfig, LedgerConfig

LEMMA LedgerType ==
  ASSUME TypeOK, NEW l \in DOMAIN ledgers
  PROVE  ledgers[l].config \in NormalConfig /\ ledgers[l].rateProvider \in STRING
<1>1. ledgers[l] \in LedgerSet
  BY DEF TypeOK
<1>. QED
  BY <1>1 DEF LedgerSet

(* The builder of a call: its configuration is the ledger's.               *)
LEMMA BuilderFor ==
  ASSUME TypeOK, NEW l \in DOMAIN ledgers, NEW in \in TransactionInput
  PROVE  /\ builderFor(l, in) \in BuilderSet
         /\ builderFor(l, in).id = in.id
         /\ builderFor(l, in).effectiveDate = in.effectiveDate
         /\ builderFor(l, in).isAdjustingEvent = in.isAdjustingEvent
         /\ builderFor(l, in).entries = in.entries
         /\ builderFor(l, in).metadata = in.metadata
         /\ builderFor(l, in).config = ledgers[l].config
<1>. DEFINE fresh == NewTxBuilder(in.id, in.effectiveDate, ledgers[l].config,
                                  ledgers[l].rateProvider)
<1>1. /\ ledgers[l].config \in NormalConfig /\ ledgers[l].config \in LedgerConfig
      /\ ledgers[l].rateProvider \in STRING
  BY LedgerType DEF NormalConfig
<1>2. /\ in.id \in IdSet /\ in.effectiveDate \in TimeSet
      /\ in.isAdjustingEvent \in BOOLEAN /\ in.entries \in Seq(EntrySet)
      /\ in.metadata \in SUBSET IdSet
  BY DEF TransactionInput
<1>3. normalizeConfig(ledgers[l].config) = ledgers[l].config
  BY <1>1, NormalizeIdempotent
<1>4. <<>> \in Seq(EntrySet) /\ {} \in SUBSET IdSet
  OBVIOUS
<1>5. /\ fresh \in BuilderSet
      /\ fresh.id = in.id
      /\ fresh.effectiveDate = in.effectiveDate
      /\ fresh.config = ledgers[l].config
  BY <1>1, <1>2, <1>3, <1>4 DEF NewTxBuilder, BuilderSet
<1>6. builderFor(l, in) = [fresh EXCEPT !.isAdjustingEvent = in.isAdjustingEvent,
                                        !.entries = in.entries,
                                        !.metadata = in.metadata]
  BY DEF builderFor
<1>. HIDE DEF fresh
<1>. QED
  BY <1>2, <1>5, <1>6 DEF BuilderSet

(* The fields of a builder the loop reads. *)
LEMMA BuilderFields ==
  ASSUME TypeOK, NEW g \in Goroutines
  PROVE  /\ builder[g].entries \in Seq(EntrySet)
         /\ builder[g].effectiveDate \in TimeSet
         /\ builder[g].id \in IdSet
         /\ builder[g].isAdjustingEvent \in BOOLEAN
         /\ builder[g].metadata \in SUBSET IdSet
<1>1. CASE builder[g] \in BuilderSet
  BY <1>1 DEF BuilderSet
<1>2. CASE builder[g] = ZeroBuilder
  <2>1. <<>> \in Seq(EntrySet) /\ {} \in SUBSET IdSet
    OBVIOUS
  <2>2. Id(0, FALSE) \in IdSet /\ Time(0, "UTC") \in TimeSet
    BY DEF Id, IdSet, Time, TimeSet
  <2>3. ZeroBuilder.entries = <<>> /\ ZeroBuilder.metadata = {}
    BY DEF ZeroBuilder
  <2>4. ZeroBuilder.effectiveDate = Time(0, "UTC") /\ ZeroBuilder.id = Id(0, FALSE)
    BY DEF ZeroBuilder
  <2>5. ZeroBuilder.isAdjustingEvent \in BOOLEAN
    BY DEF ZeroBuilder
  <2>. QED
    BY <1>2, <2>1, <2>2, <2>3, <2>4, <2>5
<1>. QED
  BY <1>1, <1>2 DEF TypeOK

LEMMA RequestType ==
  ASSUME TypeOK, NEW g \in Goroutines, next[g] \in DOMAIN builder[g].entries
  PROVE  current(g) \in EntrySet /\ request(g) \in RequestSet
<1>1. current(g) \in EntrySet
  BY BuilderFields DEF current
<1>2. UTC(builder[g].effectiveDate) \in TimeSet
  BY BuilderFields DEF UTC, TimeSet
<1>. QED
  BY <1>1, <1>2 DEF request, rateRequest, RequestSet, EntrySet

LEMMA TransactionType ==
  ASSUME TypeOK, NEW g \in Goroutines, NEW now \in TimeSet
  PROVE  Transaction(builder[g], builder[g].entries, now) \in TransactionSet
<1>1. UTC(builder[g].effectiveDate) \in TimeSet /\ UTC(now) \in TimeSet
  BY BuilderFields DEF UTC, TimeSet
<1>. QED
  BY <1>1, BuilderFields DEF Transaction, TransactionSet

LEMMA NoTransactionType == NoTransaction \in TransactionSet
BY DEF NoTransaction, TransactionSet, Id, Time, IdSet, TimeSet

PCSet == {"idle", "check", "loop", "request", "provider", "resolve", "returned", "panicked"}
ResultSet == [err : ValidationError, tx : TransactionSet]

(* A call that returns leaves the other calls alone. *)
LEMMA ReturnType ==
  ASSUME TypeOK, NEW g \in Goroutines, NEW err \in ValidationError,
         NEW tx \in TransactionSet, Return(g, err, tx)
  PROVE  /\ pc' \in [Goroutines -> PCSet]
         /\ result' \in [Goroutines -> ResultSet]
         /\ pc'[g] = "returned" /\ result'[g] = [err |-> err, tx |-> tx]
         /\ \A h \in Goroutines \ {g} : pc'[h] = pc[h] /\ result'[h] = result[h]
<1>1. [err |-> err, tx |-> tx] \in ResultSet
  BY DEF ResultSet
<1>. QED
  BY <1>1 DEF Return, TypeOK, PCSet, ResultSet

(* What the checks of a step return. *)
LEMMA StepErrors ==
  ASSUME TypeOK, NEW g \in Goroutines
  PROVE  /\ validationContext(canceled(g)) \in ValidationError
         /\ staticError(builder[g]) \in ValidationError
         /\ firstError[<<validationContext(canceled(g)), staticError(builder[g])>>]
              \in ValidationError
         /\ guardError(g) \in ValidationError
         /\ resolveError(g) \in ValidationError
<1>1. canceled(g) \in BOOLEAN /\ next[g] \in Int /\ answer[g].failed \in BOOLEAN
  BY DEF canceled, TypeOK
<1>2. validationContext(canceled(g)) \in ValidationError
  BY <1>1, ContextResult
<1>3. staticError(builder[g]) \in ValidationError
  BY BuilderFields, StaticResult
<1>4. guardError(g) \in ValidationError
  BY <1>1, GuardResult DEF guardError
<1>5. resolveError(g) \in ValidationError
  BY <1>1, AnswerResult DEF resolveError
<1>. QED
  BY <1>2, <1>3, <1>4, <1>5, FirstOf2

(***************************************************************************)
(* Type correctness.                                                       *)
(***************************************************************************)
LEMMA TypeInit == Init => TypeInv
<1>. SUFFICES ASSUME Init PROVE TypeInv
  OBVIOUS
<1>1. ledgers \in Seq(LedgerSet)
  BY DEF Init
<1>2. /\ pc \in [Goroutines -> {"idle", "check", "loop", "request", "provider",
                                "resolve", "returned", "panicked"}]
      /\ ctx \in [Goroutines -> {"background", "live", "canceled"}]
      /\ next \in [Goroutines -> Nat \ {0}]
      /\ calls \in [Goroutines -> Nat]
      /\ target \in [Goroutines -> Nat]
      /\ budget \in [Goroutines -> Nat]
  BY DEF Init
<1>3. builder \in [Goroutines -> BuilderSet \cup {ZeroBuilder}]
  BY DEF Init
<1>4. \A g \in Goroutines : cache[g] = emptyCache /\ DOMAIN emptyCache = {}
  BY DEF Init, emptyCache
<1>5. DOMAIN cache = Goroutines /\ \A g \in Goroutines :
        /\ DOMAIN cache[g] \subseteq RequestSet
        /\ cache[g] \in [DOMAIN cache[g] -> Decimal!Decimal]
  BY <1>4 DEF emptyCache, Init
<1>6. Decimal!Zero \in Decimal!Decimal
  BY DEF Decimal!Zero, Decimal!Dec, Decimal!Decimal
<1>7. answer \in [Goroutines -> [failed : BOOLEAN, rate : Decimal!Decimal]]
  BY <1>6 DEF Init
<1>9. result \in [Goroutines -> [err : ValidationError, tx : TransactionSet]]
  BY NoTransactionType, NoErrorType DEF Init
<1>10. ZeroInput \in TransactionInput
  BY DEF ZeroInput, TransactionInput, Id, Time, IdSet, TimeSet
<1>11. input \in [Goroutines -> TransactionInput]
  BY <1>10 DEF Init
<1>12. /\ asked \in [Goroutines -> Seq(RequestSet)]
       /\ answers \in [Goroutines -> SUBSET [request : RequestSet, rate : Decimal!Decimal]]
  BY DEF Init
<1>13. AtAnEntry /\ Started
  BY DEF Init, AtAnEntry, Asking, Started
<1>. QED
  BY <1>1, <1>2, <1>3, <1>5, <1>7, <1>9, <1>11, <1>12, <1>13 DEF TypeInv, TypeOK

LEMMA TypeStep == TypeInv /\ [Next]_vars => TypeInv'
<1>. SUFFICES ASSUME TypeInv, [Next]_vars
              PROVE  TypeInv'
  OBVIOUS
<1>. USE DEF TypeInv
<1>1. CASE NewLedger
  <2>. PICK config \in Configs, provider \in Providers :
         /\ validateConfig(config) = NoError
         /\ ledgers' = Append(ledgers, newLedger(config, provider))
         /\ UNCHANGED <<control, history>>
    BY <1>1 DEF NewLedger
  <2>1. newLedger(config, provider) \in LedgerSet
    BY NormalizeResult, LedgerAssumption DEF newLedger, LedgerSet
  <2>2. ledgers' \in Seq(LedgerSet)
    BY <2>1 DEF TypeOK
  <2>. QED
    BY <2>2 DEF TypeOK, AtAnEntry, Started, control, history
<1>2. CASE UpdateConfig
  <2>. PICK l \in DOMAIN ledgers, config \in Configs :
         /\ validateConfig(config) = NoError
         /\ ledgers' = Append(ledgers, newLedger(config, ledgers[l].rateProvider))
         /\ UNCHANGED <<control, history>>
    BY <1>2 DEF UpdateConfig
  <2>1. newLedger(config, ledgers[l].rateProvider) \in LedgerSet
    BY NormalizeResult, LedgerType, LedgerAssumption DEF newLedger, LedgerSet
  <2>2. ledgers' \in Seq(LedgerSet)
    BY <2>1 DEF TypeOK
  <2>. QED
    BY <2>2 DEF TypeOK, AtAnEntry, Started, control, history
<1>3. ASSUME NEW g \in Goroutines, NEW l \in DOMAIN ledgers, NEW in \in TransactionInput,
             NEW context \in {"background", "live", "canceled"}, Begin(g, l, in, context)
      PROVE  TypeInv'
  <2>1. builderFor(l, in) \in BuilderSet
    BY BuilderFor
  <2>2. l \in Nat
    BY DEF TypeOK
  <2>3. TypeOK'
    BY <1>3, <2>1, <2>2 DEF TypeOK, Begin
  <2>4. AtAnEntry' /\ Started'
    BY <1>3, <2>1 DEF AtAnEntry, Started, Begin, Asking, TypeOK
  <2>. QED
    BY <2>3, <2>4
<1>4. ASSUME NEW g \in Goroutines, Cancel(g)
      PROVE  TypeInv'
  <2>1. Len(asked[g]) \in Nat
    BY DEF TypeOK
  <2>. QED
    BY <1>4, <2>1 DEF TypeOK, AtAnEntry, Started, Cancel
<1>5. ASSUME NEW g \in Goroutines, Check(g)
      PROVE  TypeInv'
  <2>1. emptyCache \in [DOMAIN emptyCache -> Decimal!Decimal] /\ DOMAIN emptyCache \subseteq RequestSet
    BY DEF emptyCache
  <2>. DEFINE err == firstError[<<validationContext(canceled(g)), staticError(builder[g])>>]
  <2>2. err \in ValidationError
    BY StepErrors
  <2>3. CASE err # NoError
    <3>1. Return(g, err, NoTransaction) /\ UNCHANGED <<next, cache>>
      BY <1>5, <2>3 DEF Check
    <3>2. /\ pc' \in [Goroutines -> PCSet] /\ result' \in [Goroutines -> ResultSet]
          /\ pc'[g] = "returned"
          /\ \A h \in Goroutines \ {g} : pc'[h] = pc[h]
      BY <2>2, <3>1, ReturnType, NoTransactionType
    <3>. QED
      BY <1>5, <3>1, <3>2
      DEF TypeOK, AtAnEntry, Started, Check, Asking, history, PCSet, ResultSet
  <2>4. CASE err = NoError
    <3>1. /\ pc' = [pc EXCEPT ![g] = "loop"]
          /\ next' = [next EXCEPT ![g] = 1]
          /\ cache' = [cache EXCEPT ![g] = emptyCache]
          /\ UNCHANGED result
      BY <1>5, <2>4 DEF Check, freshCache
    <3>2. TypeOK'
      BY <1>5, <2>1, <3>1 DEF TypeOK, Check, history
    <3>3. AtAnEntry' /\ Started'
      BY <1>5, <3>1 DEF TypeOK, AtAnEntry, Started, Check, Asking
    <3>. QED
      BY <3>2, <3>3
  <2>. QED
    BY <2>3, <2>4
<1>6. ASSUME NEW g \in Goroutines, Skip(g)
      PROVE  TypeInv'
  BY <1>6 DEF TypeOK, AtAnEntry, Started, Skip, inLoop, Asking, history
<1>7. ASSUME NEW g \in Goroutines, RejectEntry(g)
      PROVE  TypeInv'
  <2>1. /\ pc' \in [Goroutines -> PCSet] /\ result' \in [Goroutines -> ResultSet]
        /\ pc'[g] = "returned"
        /\ \A h \in Goroutines \ {g} : pc'[h] = pc[h]
    BY <1>7, ReturnType, NoTransactionType, StepErrors DEF RejectEntry
  <2>2. TypeOK'
    BY <1>7, <2>1 DEF TypeOK, RejectEntry, history, PCSet, ResultSet
  <2>3. AtAnEntry' /\ Started'
    BY <1>7, <2>1 DEF AtAnEntry, Started, RejectEntry, inLoop, Asking
  <2>. QED
    BY <2>2, <2>3
<1>8. ASSUME NEW g \in Goroutines, NEW rate, Compare(g, rate),
             pc[g] # "idle", UNCHANGED builder
      PROVE  /\ pc' \in [Goroutines -> PCSet]
             /\ next' \in [Goroutines -> Nat \ {0}]
             /\ result' \in [Goroutines -> ResultSet]
             /\ AtAnEntry' /\ Started'
  <2>1. next[g] \in Int
    BY DEF TypeOK
  <2>. DEFINE err == compareRate(current(g), next[g], rate, builder[g].config.rateTolerance)
  <2>2. err \in ValidationError
    BY <2>1, CompareResult
  <2>3. CASE err # NoError
    <3>1. Return(g, err, NoTransaction) /\ UNCHANGED next
      BY <1>8, <2>3 DEF Compare
    <3>2. /\ pc' \in [Goroutines -> PCSet] /\ result' \in [Goroutines -> ResultSet]
          /\ pc'[g] = "returned"
          /\ \A h \in Goroutines \ {g} : pc'[h] = pc[h]
      BY <2>2, <3>1, ReturnType, NoTransactionType
    <3>. QED
      BY <1>8, <3>1, <3>2 DEF TypeOK, AtAnEntry, Started, Asking
  <2>4. CASE err = NoError
    <3>1. /\ pc' = [pc EXCEPT ![g] = "loop"]
          /\ next' = [next EXCEPT ![g] = @ + 1]
          /\ UNCHANGED result
      BY <1>8, <2>4 DEF Compare
    <3>2. next' \in [Goroutines -> Nat \ {0}]
      BY <3>1 DEF TypeOK
    <3>3. AtAnEntry' /\ Started'
      BY <1>8, <3>1 DEF TypeOK, AtAnEntry, Started, Asking
    <3>. QED
      BY <3>1, <3>2, <3>3 DEF TypeOK, PCSet, ResultSet
  <2>. QED
    BY <2>3, <2>4
<1>9. ASSUME NEW g \in Goroutines, UseCached(g)
      PROVE  TypeInv'
  BY <1>8, <1>9 DEF UseCached, inLoop, TypeOK, history, PCSet, ResultSet
<1>10. ASSUME NEW g \in Goroutines, Miss(g)
       PROVE  TypeInv'
  <2>1. next[g] \in DOMAIN builder[g].entries
    BY <1>10, BuilderFields DEF Miss, inLoop, TypeOK
  <2>2. TypeOK'
    BY <1>10 DEF TypeOK, Miss, history
  <2>3. AtAnEntry'
    BY <1>10, <2>1 DEF TypeOK, AtAnEntry, Miss, Asking
  <2>4. Started'
    BY <1>10 DEF TypeOK, Started, Miss, inLoop
  <2>. QED
    BY <2>2, <2>3, <2>4
<1>11. ASSUME NEW g \in Goroutines, Request(g)
       PROVE  TypeInv'
  <2>1. request(g) \in RequestSet
    BY <1>11, RequestType DEF Request, AtAnEntry, Asking
  <2>. QED
    BY <1>11, <2>1 DEF TypeOK, AtAnEntry, Started, Request, Asking
<1>12. ASSUME NEW g \in Goroutines, Provider(g)
       PROVE  TypeInv'
  <2>1. CASE ProviderAnswers(g)
    <3>1. request(g) \in RequestSet
      BY <2>1, RequestType DEF ProviderAnswers, AtAnEntry, Asking
    <3>. QED
      BY <2>1, <3>1, LedgerAssumption DEF TypeOK, AtAnEntry, Started, ProviderAnswers, Asking
  <2>2. CASE ProviderFails(g)
    <3>1. Decimal!Zero \in Decimal!Decimal
      BY DEF Decimal!Zero, Decimal!Dec, Decimal!Decimal
    <3>. QED
      BY <2>2, <3>1 DEF TypeOK, AtAnEntry, Started, ProviderFails, Asking, history
  <2>3. CASE ProviderPanics(g)
    BY <2>3 DEF TypeOK, AtAnEntry, Started, ProviderPanics, Asking, history
  <2>. QED
    BY <1>12, <2>1, <2>2, <2>3 DEF Provider
<1>13. ASSUME NEW g \in Goroutines, ResolveFails(g)
       PROVE  TypeInv'
  <2>1. /\ pc' \in [Goroutines -> PCSet] /\ result' \in [Goroutines -> ResultSet]
        /\ pc'[g] = "returned"
        /\ \A h \in Goroutines \ {g} : pc'[h] = pc[h]
    BY <1>13, ReturnType, NoTransactionType, StepErrors DEF ResolveFails
  <2>. QED
    BY <1>13, <2>1 DEF TypeOK, AtAnEntry, Started, ResolveFails, Asking, history, PCSet, ResultSet
<1>14. ASSUME NEW g \in Goroutines, Resolve(g)
       PROVE  TypeInv'
  <2>1. request(g) \in RequestSet /\ answer[g].rate \in Decimal!Decimal
    BY <1>14, RequestType DEF Resolve, AtAnEntry, Asking, TypeOK
  <2>2. /\ DOMAIN store(cache[g], request(g), answer[g].rate) \subseteq RequestSet
        /\ store(cache[g], request(g), answer[g].rate)
             \in [DOMAIN store(cache[g], request(g), answer[g].rate) -> Decimal!Decimal]
    BY <2>1 DEF store, TypeOK
  <2>. QED
    BY <1>8, <1>14, <2>2 DEF Resolve, TypeOK, history, PCSet, ResultSet
<1>15. ASSUME NEW g \in Goroutines, Post(g)
       PROVE  TypeInv'
  <2>1. [builder[g] EXCEPT !.finalized = TRUE] \in BuilderSet
    BY <1>15 DEF Post, Started, BuilderSet
  <2>2. PICK now \in Times :
          Return(g, NoError, Transaction(builder[g], builder[g].entries, now))
    BY <1>15 DEF Post
  <2>3. now \in TimeSet
    BY LedgerAssumption
  <2>4. /\ pc' \in [Goroutines -> PCSet] /\ result' \in [Goroutines -> ResultSet]
        /\ pc'[g] = "returned"
        /\ \A h \in Goroutines \ {g} : pc'[h] = pc[h]
    BY <2>2, <2>3, ReturnType, TransactionType, NoErrorType
  <2>. QED
    BY <1>15, <2>1, <2>4 DEF TypeOK, AtAnEntry, Started, Post, Asking, history, PCSet, ResultSet
<1>16. CASE UNCHANGED vars
  BY <1>16 DEF TypeOK, AtAnEntry, Started, vars, control, history
<1>17. ASSUME NEW g \in Goroutines, Caller(g)
       PROVE  TypeInv'
  <2>1. CASE ValidateTransaction(g)
    BY <1>3, <2>1, LedgerAssumption DEF ValidateTransaction
  <2>2. CASE ValidateTransactionLegacy(g)
    <3>1. PICK l \in DOMAIN ledgers, in \in Inputs :
            Begin(g, l, [in EXCEPT !.metadata = {}], "background")
      BY <2>2 DEF ValidateTransactionLegacy
    <3>2. [in EXCEPT !.metadata = {}] \in TransactionInput
      BY LedgerAssumption DEF TransactionInput
    <3>. QED
      BY <1>3, <3>1, <3>2
  <2>3. CASE Cancel(g)
    BY <1>4, <2>3
  <2>. QED
    BY <1>17, <2>1, <2>2, <2>3 DEF Caller
<1>18. ASSUME NEW g \in Goroutines, Step(g)
       PROVE  TypeInv'
  BY <1>5, <1>6, <1>7, <1>9, <1>10, <1>11, <1>13, <1>14, <1>15, <1>18 DEF Step
<1>. QED
  BY <1>1, <1>2, <1>12, <1>16, <1>17, <1>18 DEF Next

(* The type invariant, and that every ledger ever made has a valid and     *)
(* canonical configuration.                                                *)
THEOREM TypeCorrect == Spec => []TypeOK
<1>1. TypeInv => TypeOK
  BY DEF TypeInv
<1>. QED
  BY <1>1, TypeInit, TypeStep, PTL DEF Spec

(***************************************************************************)
(* Ledgers are immutable.                                                  *)
(***************************************************************************)
LedgersKept == \A l \in DOMAIN ledgers : l \in DOMAIN ledgers' /\ ledgers'[l] = ledgers[l]

LEMMA LedgersKeptStep == TypeInv /\ [Next]_vars => LedgersKept
<1>. SUFFICES ASSUME TypeInv, [Next]_vars PROVE LedgersKept
  OBVIOUS
<1>1. ledgers \in Seq(LedgerSet)
  BY DEF TypeInv, TypeOK
<1>2. \/ UNCHANGED ledgers
      \/ \E x \in LedgerSet : ledgers' = Append(ledgers, x)
  <2>1. CASE NewLedger
    BY <2>1, NormalizeResult, LedgerAssumption DEF NewLedger, newLedger, LedgerSet
  <2>2. CASE UpdateConfig
    BY <2>2, NormalizeResult, LedgerType, LedgerAssumption
    DEF UpdateConfig, newLedger, LedgerSet, TypeInv
  <2>3. ASSUME NEW g \in Goroutines, Caller(g) \/ Step(g) \/ Provider(g)
        PROVE  UNCHANGED ledgers
    BY <2>3
    DEF Caller, ValidateTransaction, ValidateTransactionLegacy, Begin, Cancel,
        Step, Check, Skip, RejectEntry, UseCached, Miss, Request, ResolveFails,
        Resolve, Post, Provider, ProviderAnswers, ProviderFails, ProviderPanics
  <2>4. CASE UNCHANGED vars
    BY <2>4 DEF vars
  <2>. QED
    BY <2>1, <2>2, <2>3, <2>4 DEF Next
<1>. QED
  BY <1>1, <1>2 DEF LedgersKept

(* UpdateConfig and every other operation leave the ledgers that exist as  *)
(* they are, whoever holds them.                                           *)
THEOREM LedgersNeverChange == Spec => LedgersImmutable
<1>1. TypeInv /\ [Next]_vars => [LedgersKept]_vars
  BY LedgersKeptStep
<1>. QED
  BY <1>1, TypeInit, TypeStep, PTL DEF Spec, LedgersImmutable, LedgersKept

(***************************************************************************)
(* The inductive invariant, goroutine by goroutine.                        *)
(***************************************************************************)
Loop == {"loop"} \cup Asking

(* The builder holds the caller's input and the ledger's configuration.    *)
CallOf(g) == pc[g] # "idle" =>
  /\ target[g] \in DOMAIN ledgers
  /\ builder[g].id = input[g].id
  /\ builder[g].effectiveDate = input[g].effectiveDate
  /\ builder[g].isAdjustingEvent = input[g].isAdjustingEvent
  /\ builder[g].entries = input[g].entries
  /\ builder[g].metadata = input[g].metadata
  /\ builder[g].config = configOf(g)

(* The loop runs on a builder that passed every other check. *)
CheckedOf(g) == pc[g] \in Loop => staticError(builder[g]) = NoError

(* The cache holds rates the provider gave to this call. *)
CacheOf(g) == pc[g] \in Loop =>
  \A r \in DOMAIN cache[g] : [request |-> r, rate |-> cache[g][r]] \in answers[g]

AnswerOf(g) == pc[g] = "resolve" /\ ~answer[g].failed =>
  [request |-> request(g), rate |-> answer[g].rate] \in answers[g]

(* The entries behind the loop agree with the provider. *)
BehindOf(g) == pc[g] \in Loop =>
  \A j \in DOMAIN builder[g].entries :
    j < next[g] /\ foreign(builder[g].entries[j]) =>
      Agrees(builder[g].entries[j], builder[g].effectiveDate, answers[g],
             builder[g].config.rateTolerance)

(* A request is for a foreign entry whose pair is not in the cache. *)
AskingOf(g) == pc[g] \in Asking =>
  foreign(current(g)) /\ request(g) \notin DOMAIN cache[g]

(* What was asked is in the cache, but for the request under way. *)
AskedOf(g) ==
  /\ pc[g] \in {"idle", "check"} => asked[g] = <<>>
  /\ pc[g] \in Loop => \A i \in DOMAIN asked[g] :
       \/ asked[g][i] \in DOMAIN cache[g]
       \/ pc[g] \in {"provider", "resolve"} /\ asked[g][i] = request(g)

(* A request under way is counted in the budget of a canceled call. *)
BudgetOf(g) == canceled(g) =>
  /\ Len(asked[g]) <= budget[g]
  /\ pc[g] = "request" => Len(asked[g]) + 1 <= budget[g]

OnceOf(g) ==
  /\ \A i, j \in DOMAIN asked[g] : asked[g][i] = asked[g][j] => i = j
  /\ \A i \in DOMAIN asked[g] : \E k \in DOMAIN input[g].entries :
       /\ input[g].entries[k].txCurrency = asked[g][i].base
       /\ input[g].entries[k].functionalCurrency = asked[g][i].quote
       /\ asked[g][i].base # asked[g][i].quote

StaticOf(g) ==
  /\ Bounded(input[g].id, 255)
  /\ input[g].effectiveDate.at # 0
  /\ \A key \in input[g].metadata : Bounded(key, 64)
  /\ SoundEntries(input[g].entries, configOf(g).functionalCurrency)
  /\ InOpenPeriod(input[g].effectiveDate, input[g].isAdjustingEvent, configOf(g))

LastOf(g) == asked[g] # <<>> => StaticOf(g)

ResultOf(g) == Succeeded(g) =>
  /\ StaticOf(g)
  /\ \E now \in Times : result[g].tx = Transaction(builder[g], builder[g].entries, now)
  /\ RatesHold(input[g].entries, input[g].effectiveDate, answers[g],
               configOf(g).rateTolerance)

InvOf(g) ==
  /\ CallOf(g) /\ CheckedOf(g) /\ CacheOf(g) /\ AnswerOf(g) /\ BehindOf(g)
  /\ AskingOf(g) /\ AskedOf(g) /\ BudgetOf(g) /\ OnceOf(g) /\ LastOf(g) /\ ResultOf(g)

IInv == TypeInv /\ \A g \in Goroutines : InvOf(g)

(***************************************************************************)
(* A step of one goroutine leaves the others alone, and what is said of a  *)
(* goroutine stays true when nothing of it changes.                        *)
(***************************************************************************)
Same(h) ==
  /\ pc'[h] = pc[h]           /\ ctx'[h] = ctx[h]       /\ builder'[h] = builder[h]
  /\ next'[h] = next[h]       /\ cache'[h] = cache[h]   /\ answer'[h] = answer[h]
  /\ result'[h] = result[h]   /\ target'[h] = target[h] /\ input'[h] = input[h]
  /\ asked'[h] = asked[h]     /\ answers'[h] = answers[h] /\ budget'[h] = budget[h]

LEMMA OthersSame ==
  ASSUME TypeInv, NEW g \in Goroutines, Caller(g) \/ Step(g) \/ Provider(g),
         NEW h \in Goroutines \ {g}
  PROVE  Same(h)
<1>. USE DEF TypeInv
<1>1. ASSUME NEW l, NEW in, NEW context, Begin(g, l, in, context) PROVE Same(h)
  BY <1>1 DEF Begin, TypeOK, Same
<1>2. CASE Cancel(g)
  BY <1>2 DEF Cancel, TypeOK, Same
<1>3. CASE Check(g)
  <2>. DEFINE err == firstError[<<validationContext(canceled(g)), staticError(builder[g])>>]
  <2>1. \/ Return(g, err, NoTransaction) /\ UNCHANGED <<next, cache>>
        \/ /\ pc' = [pc EXCEPT ![g] = "loop"]
           /\ next' = [next EXCEPT ![g] = 1]
           /\ cache' = [cache EXCEPT ![g] = freshCache(g)]
           /\ UNCHANGED result
    BY <1>3 DEF Check
  <2>. HIDE DEF err
  <2>2. UNCHANGED <<ctx, builder, answer, history>>
    BY <1>3 DEF Check
  <2>3. /\ ctx'[h] = ctx[h] /\ builder'[h] = builder[h] /\ answer'[h] = answer[h]
        /\ target'[h] = target[h] /\ input'[h] = input[h] /\ asked'[h] = asked[h]
        /\ answers'[h] = answers[h] /\ budget'[h] = budget[h]
    BY <2>2 DEF history
  <2>4. pc'[h] = pc[h] /\ result'[h] = result[h]
    BY <2>1 DEF Return, TypeOK
  <2>5. next'[h] = next[h] /\ cache'[h] = cache[h]
    BY <2>1 DEF TypeOK
  <2>. QED
    BY <2>3, <2>4, <2>5 DEF Same
<1>4. CASE Skip(g)
  BY <1>4 DEF Skip, history, TypeOK, Same
<1>5. CASE RejectEntry(g)
  BY <1>5 DEF RejectEntry, Return, history, TypeOK, Same
<1>6. CASE UseCached(g)
  BY <1>6 DEF UseCached, Compare, Return, history, TypeOK, Same
<1>7. CASE Miss(g)
  BY <1>7 DEF Miss, history, TypeOK, Same
<1>8. CASE Request(g)
  BY <1>8 DEF Request, TypeOK, Same
<1>9. CASE ResolveFails(g)
  BY <1>9 DEF ResolveFails, Return, history, TypeOK, Same
<1>10. CASE Resolve(g)
  BY <1>10 DEF Resolve, Compare, Return, history, TypeOK, Same
<1>11. CASE Post(g)
  BY <1>11 DEF Post, Return, history, TypeOK, Same
<1>12. CASE Provider(g)
  BY <1>12 DEF Provider, ProviderAnswers, ProviderFails, ProviderPanics, history, TypeOK, Same
<1>. QED
  BY <1>1, <1>2, <1>3, <1>4, <1>5, <1>6, <1>7, <1>8, <1>9, <1>10, <1>11, <1>12
  DEF Caller, ValidateTransaction, ValidateTransactionLegacy, Step

LEMMA SameKept ==
  ASSUME NEW h \in Goroutines, InvOf(h), Same(h), LedgersKept
  PROVE  InvOf(h)'
<1>1. pc[h] # "idle" => configOf(h)' = configOf(h)
  BY DEF InvOf, CallOf, configOf, Same, LedgersKept
<1>2. (current(h) = current(h)') /\ (request(h) = request(h)')
  BY DEF current, request, Same
<1>3. CallOf(h)'
  BY <1>1 DEF InvOf, CallOf, Same, LedgersKept
<1>4. CheckedOf(h)' /\ CacheOf(h)' /\ BehindOf(h)'
  BY DEF InvOf, CheckedOf, CacheOf, BehindOf, Same
<1>5. AnswerOf(h)' /\ AskingOf(h)' /\ AskedOf(h)'
  BY <1>2 DEF InvOf, AnswerOf, AskingOf, AskedOf, Same
<1>9. BudgetOf(h)'
  BY DEF InvOf, BudgetOf, Same, canceled
<1>10. OnceOf(h)'
  BY DEF InvOf, OnceOf, Same
<1>6. pc[h] # "idle" => (StaticOf(h) <=> StaticOf(h)')
  BY <1>1 DEF StaticOf, Same
<1>7. LastOf(h)'
  BY <1>6 DEF InvOf, LastOf, AskedOf, Same
<1>8. ResultOf(h)'
  BY <1>1, <1>6 DEF InvOf, ResultOf, Same, Succeeded
<1>. QED
  BY <1>3, <1>4, <1>5, <1>9, <1>10, <1>7, <1>8 DEF InvOf

(***************************************************************************)
(* Facts about the entries of the loop.                                    *)
(***************************************************************************)
(* Past the checks the input keeps every rule that needs no provider. *)
LEMMA LoopStatic ==
  ASSUME TypeInv, NEW g \in Goroutines, InvOf(g), pc[g] \in Loop
  PROVE  StaticOf(g)
<1>1. staticError(builder[g]) = NoError
  BY DEF InvOf, CheckedOf
<1>2. /\ builder[g].entries \in Seq(EntrySet)
      /\ builder[g].effectiveDate \in TimeSet
  BY BuilderFields DEF TypeInv
<1>3. /\ Bounded(builder[g].id, 255)
      /\ builder[g].effectiveDate.at # 0
      /\ \A key \in builder[g].metadata : Bounded(key, 64)
      /\ SoundEntries(builder[g].entries, builder[g].config.functionalCurrency)
      /\ InOpenPeriod(builder[g].effectiveDate, builder[g].isAdjustingEvent, builder[g].config)
  BY <1>1, <1>2, StaticSound
<1>4. pc[g] # "idle"
  BY DEF Loop, Asking
<1>. QED
  BY <1>3, <1>4 DEF InvOf, CallOf, StaticOf

(* A running call keeps its ledger, its input and its builder's contents. *)
LEMMA CallKept ==
  ASSUME TypeInv, NEW g \in Goroutines, InvOf(g), Cancel(g) \/ Step(g) \/ Provider(g)
  PROVE  /\ UNCHANGED <<ledgers, target, input>>
         /\ pc[g] # "idle"
         /\ CallOf(g)'
         /\ StaticOf(g)' <=> StaticOf(g)
         /\ configOf(g)' = configOf(g)
         /\ builder'[g].id = builder[g].id
         /\ builder'[g].effectiveDate = builder[g].effectiveDate
         /\ builder'[g].isAdjustingEvent = builder[g].isAdjustingEvent
         /\ builder'[g].entries = builder[g].entries
         /\ builder'[g].metadata = builder[g].metadata
         /\ builder'[g].config = builder[g].config
         /\ builder'[g].rateProvider = builder[g].rateProvider
<1>1. /\ UNCHANGED <<ledgers, target, input>>
      /\ pc[g] # "idle"
  BY DEF Cancel, Running, Ended, Step, Check, Skip, RejectEntry, UseCached, Miss,
         inLoop, Request, ResolveFails, Resolve, Post, Provider, ProviderAnswers,
         ProviderFails, ProviderPanics, history
<1>2. \/ UNCHANGED builder
      \/ builder' = [builder EXCEPT ![g].finalized = TRUE]
  BY DEF Cancel, Step, Check, Skip, RejectEntry, UseCached, Miss, Request,
         ResolveFails, Resolve, Post, Provider, ProviderAnswers, ProviderFails,
         ProviderPanics
<1>3. builder[g] \in BuilderSet
  BY <1>1 DEF TypeInv, Started
<1>4. /\ builder'[g].id = builder[g].id
      /\ builder'[g].effectiveDate = builder[g].effectiveDate
      /\ builder'[g].isAdjustingEvent = builder[g].isAdjustingEvent
      /\ builder'[g].entries = builder[g].entries
      /\ builder'[g].metadata = builder[g].metadata
      /\ builder'[g].config = builder[g].config
      /\ builder'[g].rateProvider = builder[g].rateProvider
  BY <1>2, <1>3 DEF TypeInv, TypeOK, BuilderSet
<1>5. configOf(g)' = configOf(g)
  BY <1>1 DEF configOf
<1>6. StaticOf(g)' <=> StaticOf(g)
  BY <1>1, <1>5 DEF StaticOf
<1>7. CallOf(g)'
  BY <1>1, <1>4, <1>5 DEF InvOf, CallOf
<1>. QED
  BY <1>1, <1>4, <1>5, <1>6, <1>7

LEMMA AskedKept ==
  ASSUME TypeInv, NEW g \in Goroutines, InvOf(g), Cancel(g) \/ Step(g) \/ Provider(g),
         asked'[g] = asked[g]
  PROVE  OnceOf(g)' /\ LastOf(g)'
<1>1. UNCHANGED input /\ (StaticOf(g)' <=> StaticOf(g))
  BY CallKept
<1>2. OnceOf(g)'
  BY <1>1 DEF InvOf, OnceOf
<1>3. LastOf(g)'
  BY <1>1 DEF InvOf, LastOf
<1>. QED
  BY <1>2, <1>3

(* A call that ends without a transaction. *)
LEMMA EndKept ==
  ASSUME TypeInv, NEW g \in Goroutines, InvOf(g), Step(g) \/ Provider(g),
         pc'[g] \in {"returned", "panicked"},
         pc'[g] = "returned" => result'[g].err # NoError,
         UNCHANGED <<ctx, history>>
  PROVE  InvOf(g)'
<1>1. /\ asked'[g] = asked[g] /\ budget'[g] = budget[g] /\ ctx'[g] = ctx[g]
  BY DEF history
<1>2. CallOf(g)' /\ OnceOf(g)' /\ LastOf(g)'
  BY <1>1, CallKept, AskedKept
<1>3. CheckedOf(g)' /\ CacheOf(g)' /\ AnswerOf(g)' /\ BehindOf(g)' /\ AskingOf(g)'
  BY DEF CheckedOf, CacheOf, AnswerOf, BehindOf, AskingOf, Loop, Asking
<1>4. AskedOf(g)' /\ ResultOf(g)'
  BY DEF AskedOf, ResultOf, Succeeded, Loop, Asking
<1>5. BudgetOf(g)'
  BY <1>1 DEF InvOf, BudgetOf, canceled
<1>. QED
  BY <1>2, <1>3, <1>4, <1>5 DEF InvOf

(* A turn of the loop that ends well: every entry up to this one is behind. *)
LEMMA TurnKept ==
  ASSUME TypeInv, NEW g \in Goroutines, InvOf(g), Step(g), pc[g] \in Loop,
         pc[g] # "request",
         pc' = [pc EXCEPT ![g] = "loop"],
         next' = [next EXCEPT ![g] = @ + 1],
         next[g] \in DOMAIN builder[g].entries,
         UNCHANGED <<ledgers, ctx, builder, result, history>>,
         foreign(current(g)) =>
           Agrees(current(g), builder[g].effectiveDate, answers[g],
                  builder[g].config.rateTolerance),
         \A r \in DOMAIN cache'[g] : [request |-> r, rate |-> cache'[g][r]] \in answers[g],
         \A i \in DOMAIN asked[g] : asked[g][i] \in DOMAIN cache'[g]
  PROVE  InvOf(g)'
<1>1. /\ pc'[g] = "loop" /\ next'[g] = next[g] + 1 /\ next[g] \in Nat
      /\ asked'[g] = asked[g] /\ budget'[g] = budget[g] /\ answers'[g] = answers[g]
      /\ builder'[g] = builder[g] /\ ctx'[g] = ctx[g]
  BY DEF history, TypeInv, TypeOK
<1>2. CallOf(g)' /\ OnceOf(g)' /\ LastOf(g)'
  BY <1>1, CallKept, AskedKept
<1>3. CheckedOf(g)'
  BY <1>1 DEF InvOf, CheckedOf
<1>4. CacheOf(g)'
  BY <1>1 DEF CacheOf
<1>5. BehindOf(g)'
  <2>1. ASSUME NEW j \in DOMAIN builder[g].entries, j < next[g] + 1,
               foreign(builder[g].entries[j])
        PROVE  Agrees(builder[g].entries[j], builder[g].effectiveDate, answers[g],
                      builder[g].config.rateTolerance)
    <3>1. j \in Nat
      BY BuilderFields DEF TypeInv
    <3>2. CASE j = next[g]
      BY <2>1, <3>2 DEF current
    <3>3. CASE j < next[g]
      BY <2>1, <3>3 DEF InvOf, BehindOf
    <3>. QED
      BY <1>1, <2>1, <3>1, <3>2, <3>3
  <2>. QED
    BY <1>1, <2>1 DEF BehindOf
<1>6. AnswerOf(g)' /\ AskingOf(g)' /\ ResultOf(g)' /\ AskedOf(g)'
  BY <1>1 DEF AnswerOf, AskingOf, ResultOf, Succeeded, AskedOf, Asking
<1>7. BudgetOf(g)'
  BY <1>1 DEF InvOf, BudgetOf, canceled
<1>. QED
  BY <1>2, <1>3, <1>4, <1>5, <1>6, <1>7 DEF InvOf

(***************************************************************************)
(* Every action of a goroutine keeps its invariant.                        *)
(***************************************************************************)
LEMMA BeginKept ==
  ASSUME TypeInv, NEW g \in Goroutines, NEW l \in DOMAIN ledgers,
         NEW in \in TransactionInput, NEW context \in {"background", "live", "canceled"},
         Begin(g, l, in, context)
  PROVE  InvOf(g)'
<1>1. /\ pc'[g] = "check" /\ target'[g] = l /\ input'[g] = in
      /\ builder'[g] = builderFor(l, in) /\ ledgers' = ledgers
      /\ asked'[g] = <<>> /\ budget'[g] = 0
  BY DEF Begin, TypeInv, TypeOK
<1>2. CallOf(g)'
  <2>1. configOf(g)' = ledgers[l].config
    BY <1>1 DEF configOf
  <2>. QED
    BY <1>1, <2>1, BuilderFor DEF CallOf, TypeInv
<1>3. CheckedOf(g)' /\ CacheOf(g)' /\ AnswerOf(g)' /\ BehindOf(g)' /\ AskingOf(g)'
  BY <1>1 DEF CheckedOf, CacheOf, AnswerOf, BehindOf, AskingOf, Loop, Asking
<1>4. AskedOf(g)' /\ LastOf(g)' /\ ResultOf(g)'
  BY <1>1 DEF AskedOf, LastOf, ResultOf, Succeeded, Loop, Asking
<1>5. BudgetOf(g)' /\ OnceOf(g)'
  BY <1>1 DEF BudgetOf, OnceOf
<1>. QED
  BY <1>2, <1>3, <1>4, <1>5 DEF InvOf

LEMMA CancelKept ==
  ASSUME TypeInv, NEW g \in Goroutines, InvOf(g), Cancel(g)
  PROVE  InvOf(g)'
<1>1. /\ UNCHANGED <<ledgers, pc, builder, next, cache, answer, result,
                     calls, target, input, asked, answers>>
      /\ budget'[g] = Len(asked[g]) + (IF pc[g] = "request" THEN 1 ELSE 0)
      /\ ~Succeeded(g)
  BY DEF Cancel, Running, Ended, Succeeded, TypeInv, TypeOK
<1>2. CallOf(g)' /\ OnceOf(g)' /\ LastOf(g)'
  BY <1>1, CallKept, AskedKept
<1>3. CheckedOf(g)' /\ CacheOf(g)' /\ BehindOf(g)'
  BY <1>1 DEF InvOf, CheckedOf, CacheOf, BehindOf
<1>4. AnswerOf(g)' /\ AskingOf(g)' /\ AskedOf(g)'
  BY <1>1 DEF InvOf, AnswerOf, AskingOf, AskedOf, request, current
<1>5. ResultOf(g)'
  BY <1>1 DEF ResultOf, Succeeded
<1>6. BudgetOf(g)'
  <2>1. Len(asked[g]) \in Nat
    BY DEF TypeInv, TypeOK
  <2>2. CASE pc[g] = "request"
    BY <1>1, <2>1, <2>2 DEF BudgetOf
  <2>3. CASE pc[g] # "request"
    BY <1>1, <2>1, <2>3 DEF BudgetOf
  <2>. QED
    BY <2>2, <2>3
<1>. QED
  BY <1>2, <1>3, <1>4, <1>5, <1>6 DEF InvOf

LEMMA CheckKept ==
  ASSUME TypeInv, NEW g \in Goroutines, InvOf(g), Check(g)
  PROVE  InvOf(g)'
<1>. DEFINE err == firstError[<<validationContext(canceled(g)), staticError(builder[g])>>]
<1>1. CASE err # NoError
  <2>1. Return(g, err, NoTransaction) /\ UNCHANGED <<ctx, history>>
    BY <1>1 DEF Check
  <2>2. err \in ValidationError
    BY StepErrors DEF TypeInv
  <2>. HIDE DEF err
  <2>3. pc'[g] = "returned" /\ result'[g] = [err |-> err, tx |-> NoTransaction]
    BY <2>1, <2>2, ReturnType, NoTransactionType DEF TypeInv
  <2>4. result'[g].err # NoError
    BY <1>1, <2>3
  <2>. QED
    BY <2>1, <2>3, <2>4, EndKept DEF Step
<1>2. CASE err = NoError
  <2>1. /\ pc' = [pc EXCEPT ![g] = "loop"]
        /\ next' = [next EXCEPT ![g] = 1]
        /\ cache' = [cache EXCEPT ![g] = emptyCache]
        /\ UNCHANGED <<ledgers, ctx, builder, answer, result, history>>
    BY <1>2 DEF Check, freshCache
  <2>2. staticError(builder[g]) = NoError
    BY <1>2, StepErrors, FirstOf2 DEF TypeInv
  <2>3. /\ pc[g] = "check" /\ pc'[g] = "loop" /\ next'[g] = 1 /\ cache'[g] = emptyCache
        /\ asked'[g] = asked[g] /\ budget'[g] = budget[g] /\ builder'[g] = builder[g]
        /\ ctx'[g] = ctx[g]
    BY <2>1 DEF Check, history, TypeInv, TypeOK
  <2>4. CallOf(g)' /\ OnceOf(g)' /\ LastOf(g)'
    BY <2>3, CallKept, AskedKept DEF Step
  <2>5. CheckedOf(g)'
    BY <2>2, <2>3 DEF CheckedOf
  <2>6. CacheOf(g)'
    BY <2>3 DEF CacheOf, emptyCache
  <2>7. BehindOf(g)'
    <3>1. \A j \in DOMAIN builder[g].entries : ~(j < 1)
      BY BuilderFields DEF TypeInv
    <3>. QED
      BY <2>3, <3>1 DEF BehindOf
  <2>8. AskedOf(g)'
    BY <2>3 DEF InvOf, AskedOf
  <2>9. AnswerOf(g)' /\ AskingOf(g)' /\ ResultOf(g)'
    BY <2>3 DEF AnswerOf, AskingOf, ResultOf, Succeeded, Asking
  <2>10. BudgetOf(g)'
    BY <2>3 DEF InvOf, BudgetOf, canceled
  <2>. QED
    BY <2>4, <2>5, <2>6, <2>7, <2>8, <2>9, <2>10 DEF InvOf
<1>. QED
  BY <1>1, <1>2

LEMMA RejectKept ==
  ASSUME TypeInv, NEW g \in Goroutines, InvOf(g), RejectEntry(g) \/ ResolveFails(g)
  PROVE  InvOf(g)'
<1>1. PICK err \in ValidationError :
        Return(g, err, NoTransaction) /\ err # NoError /\ UNCHANGED <<ctx, history>>
  BY StepErrors DEF RejectEntry, ResolveFails, TypeInv
<1>2. pc'[g] = "returned" /\ result'[g] = [err |-> err, tx |-> NoTransaction]
  BY <1>1, ReturnType, NoTransactionType DEF TypeInv
<1>3. result'[g].err # NoError
  BY <1>1, <1>2
<1>. QED
  BY <1>1, <1>2, <1>3, EndKept DEF Step

LEMMA SkipKept ==
  ASSUME TypeInv, NEW g \in Goroutines, InvOf(g), Skip(g)
  PROVE  InvOf(g)'
<1>1. next[g] \in DOMAIN builder[g].entries
  BY BuilderFields DEF Skip, inLoop, TypeInv, TypeOK
<1>2. /\ pc[g] = "loop" /\ pc' = [pc EXCEPT ![g] = "loop"]
      /\ next' = [next EXCEPT ![g] = @ + 1]
      /\ UNCHANGED <<ledgers, ctx, builder, result, history>>
      /\ cache' = cache
      /\ ~foreign(current(g))
  BY DEF Skip, inLoop, TypeInv, TypeOK
<1>3. \A r \in DOMAIN cache'[g] : [request |-> r, rate |-> cache'[g][r]] \in answers[g]
  BY <1>2 DEF InvOf, CacheOf, Loop
<1>4. \A i \in DOMAIN asked[g] : asked[g][i] \in DOMAIN cache'[g]
  BY <1>2 DEF InvOf, AskedOf, Loop
<1>. QED
  BY <1>1, <1>2, <1>3, <1>4, TurnKept DEF Step, Loop

(* The comparison, with a rate the provider gave for the current entry. *)
LEMMA CompareKept ==
  ASSUME TypeInv, NEW g \in Goroutines, InvOf(g), Step(g), pc[g] \in {"loop", "resolve"},
         next[g] \in DOMAIN builder[g].entries, NEW rate, Compare(g, rate),
         [request |-> request(g), rate |-> rate] \in answers[g],
         \A r \in DOMAIN cache'[g] : [request |-> r, rate |-> cache'[g][r]] \in answers[g],
         \A i \in DOMAIN asked[g] : asked[g][i] \in DOMAIN cache'[g],
         UNCHANGED <<ledgers, ctx, builder, history>>
  PROVE  InvOf(g)'
<1>. DEFINE err == compareRate(current(g), next[g], rate, builder[g].config.rateTolerance)
<1>1. next[g] \in Int
  BY DEF TypeInv, TypeOK
<1>2. err \in ValidationError
  BY <1>1, CompareResult
<1>3. CASE err # NoError
  <2>1. Return(g, err, NoTransaction)
    BY <1>3 DEF Compare
  <2>. HIDE DEF err
  <2>2. pc'[g] = "returned" /\ result'[g] = [err |-> err, tx |-> NoTransaction]
    BY <1>2, <2>1, ReturnType, NoTransactionType DEF TypeInv
  <2>3. result'[g].err # NoError
    BY <1>3, <2>2
  <2>. QED
    BY <2>2, <2>3, EndKept
<1>4. CASE err = NoError
  <2>1. /\ pc' = [pc EXCEPT ![g] = "loop"]
        /\ next' = [next EXCEPT ![g] = @ + 1]
        /\ UNCHANGED result
    BY <1>4 DEF Compare
  <2>2. builder[g].effectiveDate \in TimeSet
    BY BuilderFields DEF TypeInv
  <2>3. Agrees(current(g), builder[g].effectiveDate, answers[g],
               builder[g].config.rateTolerance)
    BY <1>1, <1>4, <2>2, AgreesFound DEF request
  <2>4. pc[g] \in Loop /\ pc[g] # "request"
    BY DEF Loop, Asking
  <2>. QED
    BY <2>1, <2>3, <2>4, TurnKept
<1>. QED
  BY <1>3, <1>4

LEMMA UseCachedKept ==
  ASSUME TypeInv, NEW g \in Goroutines, InvOf(g), UseCached(g)
  PROVE  InvOf(g)'
<1>1. /\ pc[g] = "loop" /\ next[g] <= Len(builder[g].entries)
      /\ request(g) \in DOMAIN cache[g] /\ Compare(g, cache[g][request(g)])
      /\ UNCHANGED <<ledgers, ctx, builder, cache, history>>
  BY DEF UseCached, inLoop
<1>2. next[g] \in DOMAIN builder[g].entries
  BY <1>1, BuilderFields DEF TypeInv, TypeOK
<1>3. \A r \in DOMAIN cache[g] : [request |-> r, rate |-> cache[g][r]] \in answers[g]
  BY <1>1 DEF InvOf, CacheOf, Loop
<1>4. \A i \in DOMAIN asked[g] : asked[g][i] \in DOMAIN cache[g]
  BY <1>1 DEF InvOf, AskedOf, Loop
<1>. QED
  BY <1>1, <1>2, <1>3, <1>4, CompareKept DEF Step

LEMMA ResolveKept ==
  ASSUME TypeInv, NEW g \in Goroutines, InvOf(g), Resolve(g)
  PROVE  InvOf(g)'
<1>. DEFINE rate == answer[g].rate
<1>1. /\ pc[g] = "resolve" /\ resolveError(g) = NoError /\ Compare(g, rate)
      /\ cache'[g] = store(cache[g], request(g), rate)
      /\ UNCHANGED <<ledgers, ctx, builder, history>>
  BY DEF Resolve, TypeInv, TypeOK
<1>2. ~answer[g].failed
  <2>1. answer[g].failed \in BOOLEAN /\ next[g] \in Int /\ canceled(g) \in BOOLEAN
    BY DEF TypeInv, TypeOK, canceled
  <2>. QED
    BY <1>1, <2>1, AnswerResult DEF resolveError
<1>3. [request |-> request(g), rate |-> rate] \in answers[g]
  BY <1>1, <1>2 DEF InvOf, AnswerOf
<1>4. next[g] \in DOMAIN builder[g].entries
  BY <1>1 DEF TypeInv, AtAnEntry, Asking
<1>5. \A r \in DOMAIN cache[g] : [request |-> r, rate |-> cache[g][r]] \in answers[g]
  BY <1>1 DEF InvOf, CacheOf, Loop, Asking
<1>6. \A i \in DOMAIN asked[g] : asked[g][i] \in DOMAIN cache[g] \cup {request(g)}
  BY <1>1 DEF InvOf, AskedOf, Loop, Asking
<1>7. /\ DOMAIN cache'[g] = DOMAIN cache[g] \cup {request(g)}
      /\ \A r \in DOMAIN cache'[g] :
           cache'[g][r] = IF r = request(g) THEN rate ELSE cache[g][r]
  BY <1>1 DEF store
<1>8. \A r \in DOMAIN cache'[g] : [request |-> r, rate |-> cache'[g][r]] \in answers[g]
  BY <1>3, <1>5, <1>7
<1>9. \A i \in DOMAIN asked[g] : asked[g][i] \in DOMAIN cache'[g]
  BY <1>6, <1>7
<1>. QED
  BY <1>1, <1>3, <1>4, <1>8, <1>9, CompareKept DEF Step

LEMMA MissKept ==
  ASSUME TypeInv, NEW g \in Goroutines, InvOf(g), Miss(g)
  PROVE  InvOf(g)'
<1>1. /\ pc[g] = "loop" /\ pc'[g] = "request"
      /\ foreign(current(g)) /\ request(g) \notin DOMAIN cache[g]
      /\ guardError(g) = NoError
      /\ UNCHANGED <<ledgers, ctx, builder, next, cache, answer, result, history>>
  BY DEF Miss, inLoop, TypeInv, TypeOK
<1>2. ~canceled(g)
  <2>1. next[g] \in Int /\ canceled(g) \in BOOLEAN
    BY DEF TypeInv, TypeOK, canceled
  <2>. QED
    BY <1>1, <2>1, GuardResult DEF guardError
<1>3. CallOf(g)' /\ OnceOf(g)' /\ LastOf(g)'
  BY <1>1, CallKept, AskedKept DEF Step, history
<1>4. CheckedOf(g)' /\ CacheOf(g)' /\ BehindOf(g)'
  BY <1>1 DEF InvOf, CheckedOf, CacheOf, BehindOf, Loop, history
<1>5. AskingOf(g)'
  BY <1>1 DEF AskingOf, request, current
<1>6. AnswerOf(g)' /\ ResultOf(g)' /\ BudgetOf(g)'
  BY <1>1, <1>2 DEF AnswerOf, ResultOf, Succeeded, BudgetOf, canceled
<1>7. AskedOf(g)'
  BY <1>1 DEF InvOf, AskedOf, Loop, history
<1>. QED
  BY <1>3, <1>4, <1>5, <1>6, <1>7 DEF InvOf

LEMMA RequestKept ==
  ASSUME TypeInv, NEW g \in Goroutines, InvOf(g), Request(g)
  PROVE  InvOf(g)'
<1>1. /\ pc[g] = "request" /\ pc'[g] = "provider"
      /\ asked'[g] = Append(asked[g], request(g))
      /\ UNCHANGED <<ledgers, ctx, builder, next, cache, answer, result,
                     calls, target, input, answers, budget>>
  BY DEF Request, TypeInv, TypeOK
<1>2. /\ asked[g] \in Seq(RequestSet) /\ request(g) \in RequestSet
      /\ next[g] \in DOMAIN builder[g].entries
  BY <1>1, RequestType DEF TypeInv, TypeOK, AtAnEntry, Asking
<1>3. /\ DOMAIN asked'[g] = 1 .. Len(asked[g]) + 1
      /\ Len(asked'[g]) = Len(asked[g]) + 1
      /\ asked'[g][Len(asked[g]) + 1] = request(g)
      /\ \A i \in 1 .. Len(asked[g]) : asked'[g][i] = asked[g][i]
      /\ DOMAIN asked[g] = 1 .. Len(asked[g])
      /\ Len(asked[g]) \in Nat
  BY <1>1, <1>2
<1>4. /\ foreign(current(g)) /\ request(g) \notin DOMAIN cache[g]
      /\ \A i \in DOMAIN asked[g] : asked[g][i] \in DOMAIN cache[g]
  BY <1>1 DEF InvOf, AskingOf, AskedOf, Asking, Loop
<1>5. CallOf(g)' /\ (StaticOf(g)' <=> StaticOf(g))
  BY CallKept DEF Step
<1>6. LastOf(g)'
  BY <1>1, <1>5, LoopStatic DEF LastOf, Loop, Asking
<1>7. CheckedOf(g)' /\ CacheOf(g)' /\ BehindOf(g)'
  BY <1>1 DEF InvOf, CheckedOf, CacheOf, BehindOf, Loop, Asking
<1>8. request(g)' = request(g) /\ current(g)' = current(g)
  BY <1>1 DEF request, current
<1>9. AskingOf(g)' /\ AnswerOf(g)' /\ ResultOf(g)'
  BY <1>1, <1>4, <1>8 DEF AskingOf, AnswerOf, ResultOf, Succeeded
<1>10. AskedOf(g)'
  BY <1>1, <1>3, <1>4, <1>8 DEF AskedOf
<1>11. BudgetOf(g)'
  BY <1>1, <1>3 DEF InvOf, BudgetOf, canceled
<1>12. OnceOf(g)'
  <2>1. \A i, j \in DOMAIN asked'[g] : asked'[g][i] = asked'[g][j] => i = j
    <3>1. \A i, j \in DOMAIN asked[g] : asked[g][i] = asked[g][j] => i = j
      BY DEF InvOf, OnceOf
    <3>2. \A i \in DOMAIN asked[g] : asked'[g][i] # request(g)
      BY <1>3, <1>4
    <3>3. \A i \in DOMAIN asked'[g] : i \in DOMAIN asked[g] \/ i = Len(asked[g]) + 1
      BY <1>3
    <3>. QED
      BY <1>3, <3>1, <3>2, <3>3
  <2>2. /\ current(g).txCurrency = request(g).base
        /\ current(g).functionalCurrency = request(g).quote
        /\ request(g).base # request(g).quote
    BY <1>4 DEF request, rateRequest, foreign
  <2>3. next[g] \in DOMAIN input[g].entries /\ current(g) = input[g].entries[next[g]]
    BY <1>1, <1>2 DEF InvOf, CallOf, current
  <2>4. ASSUME NEW i \in DOMAIN asked'[g]
        PROVE  \E k \in DOMAIN input[g].entries :
                 /\ input[g].entries[k].txCurrency = asked'[g][i].base
                 /\ input[g].entries[k].functionalCurrency = asked'[g][i].quote
                 /\ asked'[g][i].base # asked'[g][i].quote
    <3>1. CASE i = Len(asked[g]) + 1
      BY <1>3, <2>2, <2>3, <3>1
    <3>2. CASE i # Len(asked[g]) + 1
      <4>1. i \in DOMAIN asked[g] /\ asked'[g][i] = asked[g][i]
        BY <1>3, <3>2
      <4>. QED
        BY <4>1 DEF InvOf, OnceOf
    <3>. QED
      BY <3>1, <3>2
  <2>. QED
    BY <1>1, <2>1, <2>4 DEF OnceOf
<1>. QED
  BY <1>5, <1>6, <1>7, <1>9, <1>10, <1>11, <1>12 DEF InvOf

LEMMA ProviderKept ==
  ASSUME TypeInv, NEW g \in Goroutines, InvOf(g), Provider(g)
  PROVE  InvOf(g)'
<1>1. CASE ProviderPanics(g)
  <2>1. pc'[g] = "panicked" /\ UNCHANGED <<ctx, history>>
    BY <1>1 DEF ProviderPanics, TypeInv, TypeOK
  <2>. QED
    BY <2>1, EndKept
<1>2. CASE ProviderAnswers(g) \/ ProviderFails(g)
  <2>1. /\ pc[g] = "provider" /\ pc'[g] = "resolve"
        /\ UNCHANGED <<ledgers, ctx, builder, next, cache, target, input, asked, budget>>
    BY <1>2 DEF ProviderAnswers, ProviderFails, history, TypeInv, TypeOK
  <2>2. /\ answers[g] \subseteq answers'[g]
        /\ ~answer'[g].failed => [request |-> request(g), rate |-> answer'[g].rate] \in answers'[g]
    <3>1. answer \in [Goroutines -> [failed : BOOLEAN, rate : Decimal!Decimal]] /\ g \in DOMAIN answers
      BY DEF TypeInv, TypeOK
    <3>2. CASE ProviderAnswers(g)
      BY <3>1, <3>2 DEF ProviderAnswers
    <3>3. CASE ProviderFails(g)
      BY <3>1, <3>3 DEF ProviderFails, history
    <3>. QED
      BY <1>2, <3>2, <3>3
  <2>3. CallOf(g)' /\ OnceOf(g)' /\ LastOf(g)'
    BY <2>1, CallKept, AskedKept
  <2>4. CheckedOf(g)'
    BY <2>1 DEF InvOf, CheckedOf, Loop, Asking
  <2>5. CacheOf(g)'
    BY <2>1, <2>2 DEF InvOf, CacheOf, Loop, Asking
  <2>6. BehindOf(g)'
    BY <2>1, <2>2, AgreesMore DEF InvOf, BehindOf, Loop, Asking
  <2>7. request(g)' = request(g) /\ current(g)' = current(g)
    BY <2>1 DEF request, current
  <2>8. AskingOf(g)'
    BY <2>1, <2>7 DEF InvOf, AskingOf, Asking
  <2>11. AnswerOf(g)'
    BY <2>1, <2>2, <2>7 DEF AnswerOf
  <2>12. ResultOf(g)'
    BY <2>1 DEF ResultOf, Succeeded
  <2>9. AskedOf(g)'
    BY <2>1, <2>7 DEF InvOf, AskedOf, Loop, Asking
  <2>10. BudgetOf(g)'
    BY <2>1 DEF InvOf, BudgetOf, canceled
  <2>. QED
    BY <2>3, <2>4, <2>5, <2>6, <2>8, <2>9, <2>10, <2>11, <2>12 DEF InvOf
<1>. QED
  BY <1>1, <1>2 DEF Provider

LEMMA PostKept ==
  ASSUME TypeInv, NEW g \in Goroutines, InvOf(g), Post(g)
  PROVE  InvOf(g)'
<1>1. /\ pc[g] = "loop" /\ pc'[g] = "returned"
      /\ next[g] > Len(builder[g].entries)
      /\ builder' = [builder EXCEPT ![g].finalized = TRUE]
      /\ UNCHANGED <<ledgers, ctx, next, cache, answer, history>>
  BY DEF Post, Return, TypeInv, TypeOK
<1>2. CallOf(g)' /\ OnceOf(g)' /\ LastOf(g)' /\ (StaticOf(g)' <=> StaticOf(g))
  BY <1>1, CallKept, AskedKept DEF Step, history
<1>3. CheckedOf(g)' /\ CacheOf(g)' /\ AnswerOf(g)' /\ BehindOf(g)' /\ AskingOf(g)'
  BY <1>1 DEF CheckedOf, CacheOf, AnswerOf, BehindOf, AskingOf, Loop, Asking
<1>4. AskedOf(g)'
  BY <1>1 DEF AskedOf, Loop, Asking
<1>5. BudgetOf(g)'
  BY <1>1 DEF InvOf, BudgetOf, canceled, history
<1>6. StaticOf(g)'
  BY <1>1, <1>2, LoopStatic DEF Loop
<1>7. \E now \in Times :
        result'[g].tx = Transaction(builder'[g], builder'[g].entries, now)
  <2>1. PICK now \in Times :
          Return(g, NoError, Transaction(builder[g], builder[g].entries, now))
    BY DEF Post
  <2>2. result'[g].tx = Transaction(builder[g], builder[g].entries, now)
    BY <2>1 DEF Return, TypeInv, TypeOK
  <2>3. builder[g] \in BuilderSet /\ builder'[g] = [builder[g] EXCEPT !.finalized = TRUE]
    BY <1>1 DEF TypeInv, TypeOK, Started
  <2>4. /\ builder'[g].id = builder[g].id
        /\ builder'[g].effectiveDate = builder[g].effectiveDate
        /\ builder'[g].isAdjustingEvent = builder[g].isAdjustingEvent
        /\ builder'[g].entries = builder[g].entries
        /\ builder'[g].metadata = builder[g].metadata
    BY <2>3 DEF BuilderSet
  <2>. QED
    BY <2>2, <2>4 DEF Transaction
<1>8. RatesHold(input[g].entries, input[g].effectiveDate, answers[g],
                configOf(g).rateTolerance)
  <2>1. /\ builder[g].entries = input[g].entries
        /\ builder[g].effectiveDate = input[g].effectiveDate
        /\ builder[g].config = configOf(g)
    BY <1>1 DEF InvOf, CallOf
  <2>2. \A j \in DOMAIN builder[g].entries : j < next[g]
    BY <1>1, BuilderFields DEF TypeInv, TypeOK
  <2>. QED
    BY <1>1, <2>1, <2>2 DEF InvOf, BehindOf, Loop, RatesHold, foreign
<1>9. ResultOf(g)'
  <2>1. configOf(g)' = configOf(g) /\ UNCHANGED <<input, answers>>
    BY <1>1 DEF configOf, history
  <2>. QED
    BY <1>6, <1>7, <1>8, <2>1 DEF ResultOf
<1>. QED
  BY <1>2, <1>3, <1>4, <1>5, <1>9 DEF InvOf

(***************************************************************************)
(* The inductive invariant holds in every state.                           *)
(***************************************************************************)
LEMMA IInit == Init => IInv
<1>. SUFFICES ASSUME Init PROVE IInv
  OBVIOUS
<1>1. TypeInv
  BY TypeInit
<1>2. ASSUME NEW g \in Goroutines PROVE InvOf(g)
  <2>1. /\ pc[g] = "idle" /\ ctx[g] = "background" /\ asked[g] = <<>>
    BY DEF Init
  <2>2. /\ CallOf(g) /\ CheckedOf(g) /\ CacheOf(g) /\ AnswerOf(g)
        /\ BehindOf(g) /\ AskingOf(g) /\ AskedOf(g)
    BY <2>1
    DEF CallOf, CheckedOf, CacheOf, AnswerOf, BehindOf, AskingOf, AskedOf, Loop, Asking
  <2>3. BudgetOf(g) /\ OnceOf(g) /\ LastOf(g) /\ ResultOf(g)
    BY <2>1 DEF BudgetOf, canceled, OnceOf, LastOf, ResultOf, Succeeded
  <2>. QED
    BY <2>2, <2>3 DEF InvOf
<1>. QED
  BY <1>1, <1>2 DEF IInv

LEMMA IStep == IInv /\ [Next]_vars => IInv'
<1>. SUFFICES ASSUME IInv, [Next]_vars PROVE IInv'
  OBVIOUS
<1>1. TypeInv /\ TypeInv' /\ LedgersKept
  BY TypeStep, LedgersKeptStep DEF IInv
<1>2. \A h \in Goroutines : InvOf(h)
  BY DEF IInv
<1>3. CASE UNCHANGED <<control, history>>
  <2>1. \A h \in Goroutines : Same(h)
    BY <1>3 DEF Same, control, history
  <2>2. \A h \in Goroutines : InvOf(h)'
    BY <1>1, <1>2, <2>1, SameKept
  <2>. QED
    BY <1>1, <2>2 DEF IInv
<1>4. ASSUME NEW g \in Goroutines, Caller(g) \/ Step(g) \/ Provider(g)
      PROVE  IInv'
  <2>1. ASSUME NEW h \in Goroutines \ {g} PROVE InvOf(h)'
    BY <1>1, <1>2, <1>4, OthersSame, SameKept
  <2>2. InvOf(g)'
    <3>1. CASE ValidateTransaction(g)
      BY <1>1, <3>1, LedgerAssumption, BeginKept DEF ValidateTransaction
    <3>2. CASE ValidateTransactionLegacy(g)
      <4>1. PICK l \in DOMAIN ledgers, in \in Inputs :
              Begin(g, l, [in EXCEPT !.metadata = {}], "background")
        BY <3>2 DEF ValidateTransactionLegacy
      <4>2. [in EXCEPT !.metadata = {}] \in TransactionInput
        BY LedgerAssumption DEF TransactionInput
      <4>. QED
        BY <1>1, <4>1, <4>2, BeginKept
    <3>3. CASE Cancel(g)
      BY <1>1, <1>2, <3>3, CancelKept
    <3>4. CASE Step(g)
      BY <1>1, <1>2, <3>4, CheckKept, SkipKept, RejectKept, UseCachedKept, MissKept,
         RequestKept, ResolveKept, PostKept DEF Step
    <3>5. CASE Provider(g)
      BY <1>1, <1>2, <3>5, ProviderKept
    <3>. QED
      BY <1>4, <3>1, <3>2, <3>3, <3>4, <3>5 DEF Caller
  <2>. QED
    BY <1>1, <2>1, <2>2 DEF IInv
<1>. QED
  BY <1>3, <1>4 DEF Next, NewLedger, UpdateConfig, vars

THEOREM Inductive == Spec => []IInv
BY IInit, IStep, PTL DEF Spec

(***************************************************************************)
(* The guarantees.                                                         *)
(***************************************************************************)
LEMMA SoundFromInv == IInv => SoundTransactions
<1>. SUFFICES ASSUME IInv, NEW g \in Goroutines, Succeeded(g)
              PROVE  /\ Sound(result[g].tx, configOf(g))
                     /\ result[g].tx.id = input[g].id
                     /\ result[g].tx.effectiveDate.at = input[g].effectiveDate.at
                     /\ result[g].tx.isAdjustingEvent = input[g].isAdjustingEvent
                     /\ result[g].tx.entries = input[g].entries
                     /\ result[g].tx.metadata = input[g].metadata
  BY DEF SoundTransactions
<1>1. StaticOf(g)
  BY DEF IInv, InvOf, ResultOf
<1>2. PICK now \in Times : result[g].tx = Transaction(builder[g], builder[g].entries, now)
  BY DEF IInv, InvOf, ResultOf
<1>3. /\ builder[g].id = input[g].id
      /\ builder[g].effectiveDate = input[g].effectiveDate
      /\ builder[g].isAdjustingEvent = input[g].isAdjustingEvent
      /\ builder[g].entries = input[g].entries
      /\ builder[g].metadata = input[g].metadata
  BY DEF IInv, InvOf, CallOf, Succeeded
<1>4. now \in TimeSet /\ builder[g].effectiveDate \in TimeSet
  BY BuilderFields, LedgerAssumption DEF IInv, TypeInv
<1>5. /\ UTC(now).zone = "UTC" /\ UTC(builder[g].effectiveDate).zone = "UTC"
      /\ UTC(builder[g].effectiveDate).at = builder[g].effectiveDate.at
  BY <1>4 DEF UTC, TimeSet
<1>6. /\ result[g].tx.id = input[g].id
      /\ result[g].tx.effectiveDate = UTC(builder[g].effectiveDate)
      /\ result[g].tx.isAdjustingEvent = input[g].isAdjustingEvent
      /\ result[g].tx.postedAt = UTC(now)
      /\ result[g].tx.entries = input[g].entries
      /\ result[g].tx.metadata = input[g].metadata
  BY <1>2, <1>3 DEF Transaction
<1>7. Sound(result[g].tx, configOf(g))
  BY <1>1, <1>3, <1>5, <1>6 DEF Sound, StaticOf, InOpenPeriod
<1>. QED
  BY <1>3, <1>5, <1>6, <1>7

(* A returned transaction is the input of its call, dated in UTC, and      *)
(* keeps every rule that needs no provider under the configuration of the  *)
(* ledger it was asked of, however many ledgers UpdateConfig made of it.   *)
THEOREM TransactionsSound == Spec => []SoundTransactions
BY Inductive, SoundFromInv, PTL

LEMMA RatesFromInv == IInv => RatesAsAnswered
<1>. SUFFICES ASSUME IInv, NEW g \in Goroutines, Succeeded(g)
              PROVE  RatesHold(result[g].tx.entries, input[g].effectiveDate, answers[g],
                               configOf(g).rateTolerance)
  BY DEF RatesAsAnswered
<1>1. result[g].tx.entries = input[g].entries
  BY SoundFromInv DEF SoundTransactions
<1>. QED
  BY <1>1 DEF IInv, InvOf, ResultOf

(* Each foreign entry of a returned transaction agrees with what the       *)
(* provider answered to that very call for its pair and date.              *)
THEOREM RatesChecked == Spec => []RatesAsAnswered
BY Inductive, RatesFromInv, PTL

(* The provider is asked once per pair, and for pairs of the input only.   *)
THEOREM AskedOnce == Spec => []AskedOnceAndNeeded
<1>1. IInv => AskedOnceAndNeeded
  BY DEF IInv, InvOf, OnceOf, AskedOnceAndNeeded
<1>. QED
  BY <1>1, Inductive, PTL

(* A canceled call sends no request but the one past its context check.    *)
THEOREM CancellationStops == Spec => []CancellationStopsRequests
<1>1. IInv => CancellationStopsRequests
  BY DEF IInv, InvOf, BudgetOf, CancellationStopsRequests
<1>. QED
  BY <1>1, Inductive, PTL

(* The provider hears only of transactions that keep every other rule.     *)
THEOREM FailFast == Spec => []ProviderAskedLast
<1>1. IInv => ProviderAskedLast
  BY DEF IInv, InvOf, LastOf, StaticOf, ProviderAskedLast
<1>. QED
  BY <1>1, Inductive, PTL
-------------------------------------------------------------------------------
(***************************************************************************)
(* What a call returned, and why: a rejection names the first fault, a     *)
(* refusal stands, two equal calls end alike, and Ledger implements        *)
(* AtomicLedger.                                                           *)
(***************************************************************************)

(***************************************************************************)
(* What a call has sent and got, in terms of the entries its loop is past. *)
(***************************************************************************)
requestAt(g, k) == rateRequest(builder[g].entries[k], builder[g].effectiveDate)
ForeignOnes(g)  == {k \in DOMAIN builder[g].entries : foreign(builder[g].entries[k])}
wanted(g, n)    == {requestAt(g, k) : k \in {m \in ForeignOnes(g) : m < n}}
sent(g)         == {asked[g][i] : i \in DOMAIN asked[g]}

(* The caller's entries are ones the package made, and no ledger is        *)
(* without a provider.                                                     *)
GroundOf(g) ==
  /\ \A i \in DOMAIN input[g].entries : MadeEntry(input[g].entries[i])
  /\ pc[g] # "idle" => builder[g].rateProvider # "nil"

(* The provider gave no rate that the cache has not, or is about to get.   *)
GivenOf(g) ==
  /\ pc[g] \in {"idle", "check"} => answers[g] = {}
  /\ pc[g] \in Loop => \A a \in answers[g] :
       \/ a.request \in DOMAIN cache[g] /\ a.rate = cache[g][a.request]
       \/ /\ pc[g] = "resolve" /\ ~answer[g].failed
          /\ a.request = request(g) /\ a.rate = answer[g].rate

(* So it gave one rate a pair. *)
OneRateOf(g) == \A a, b \in answers[g] : a.request = b.request => a.rate = b.rate

(* The cache is of the foreign entries behind the loop, and what was asked *)
(* is what the cache holds and the request under way.                      *)
SentOf(g) == pc[g] \in Loop =>
  /\ DOMAIN cache[g] = wanted(g, next[g])
  /\ sent(g) = DOMAIN cache[g] \cup
                 (IF pc[g] \in {"provider", "resolve"} THEN {request(g)} ELSE {})

(* Requests were sent in the order their pairs come up in the entries.     *)
Before(g, r, s) ==
  \E k \in DOMAIN builder[g].entries :
    requestAt(g, k) = r /\ \A m \in 1 .. k : requestAt(g, m) # s

OrderOf(g) == \A i, j \in DOMAIN asked[g] : i < j => Before(g, asked[g][i], asked[g][j])

(***************************************************************************)
(* Why a call failed: its context was canceled; a check that needs no      *)
(* provider failed; or, at a foreign entry with all before it in order,    *)
(* the context or the provider, or both, failed, or a rate disagrees.      *)
(***************************************************************************)
ContextFault(g, err) ==
  /\ canceled(g)
  /\ err = NewValidationError("ErrRateProvider", "context", {"context"})

StaticFault(g, err) == err = staticError(builder[g]) /\ err # NoError

Interrupted(g, err) ==
  canceled(g) /\ err = rateError("ErrRateProvider", next[g], "context", {"context"})

ProviderFault(g, err) ==
  /\ answer[g].failed
  /\ err = IF canceled(g)
             THEN rateError("ErrRateProvider", next[g], "context", {"provider", "context"})
             ELSE rateError("ErrRateProvider", next[g], "rate", {"provider"})

RateFault(g, err) ==
  /\ err # NoError
  /\ sent(g) = wanted(g, next[g] + 1)
  /\ \E rate \in Decimal!Decimal :
       /\ [request |-> request(g), rate |-> rate] \in answers[g]
       /\ err = compareRate(current(g), next[g], rate, builder[g].config.rateTolerance)

InOrder(g) ==
  /\ staticError(builder[g]) = NoError
  /\ next[g] \in ForeignOnes(g)
  /\ \A k \in ForeignOnes(g) : k < next[g] =>
       Agrees(builder[g].entries[k], builder[g].effectiveDate, answers[g],
              builder[g].config.rateTolerance)

LoopFault(g, err) ==
  InOrder(g) /\ (Interrupted(g, err) \/ ProviderFault(g, err) \/ RateFault(g, err))

Fault(g, err) ==
  \/ asked[g] = <<>> /\ (ContextFault(g, err) \/ StaticFault(g, err))
  \/ LoopFault(g, err)

EndOf(g) ==
  /\ Succeeded(g) =>
       /\ staticError(builder[g]) = NoError
       /\ sent(g) = wanted(g, Len(builder[g].entries) + 1)
  /\ Failed(g) => result[g].tx = NoTransaction /\ Fault(g, result[g].err)

FateOf(g) ==
  GroundOf(g) /\ GivenOf(g) /\ OneRateOf(g) /\ SentOf(g) /\ OrderOf(g) /\ EndOf(g)

Provided == \A l \in DOMAIN ledgers : ledgers[l].rateProvider # "nil"

FInv == IInv /\ Provided /\ \A g \in Goroutines : FateOf(g)

(***************************************************************************)
(* The static checks read no more of a builder than its contents.          *)
(***************************************************************************)
LEMMA SameStatic ==
  ASSUME NEW b, NEW c,
         b.id = c.id, b.effectiveDate = c.effectiveDate,
         b.isAdjustingEvent = c.isAdjustingEvent, b.entries = c.entries,
         b.metadata = c.metadata, b.config = c.config
  PROVE  staticError(b) = staticError(c)
<1>1. validateTransactionFields(b) = validateTransactionFields(c)
  BY Zenon DEF validateTransactionFields
<1>2. validateEntries(b) = validateEntries(c)
  BY Zenon DEF validateEntries
<1>3. validateCurrencyConsistency(b) = validateCurrencyConsistency(c)
  BY Zenon DEF validateCurrencyConsistency
<1>4. validateZeroSum(b) = validateZeroSum(c)
  BY Zenon DEF validateZeroSum
<1>5. validatePeriod(b) = validatePeriod(c)
  BY Zenon DEF validatePeriod
<1>. QED
  BY <1>1, <1>2, <1>3, <1>4, <1>5, Zenon DEF staticError

(***************************************************************************)
(* The errors of the loop, one by one.                                     *)
(***************************************************************************)
LEMMA RateErrors ==
  ASSUME NEW i \in Int
  PROVE  /\ rateError("ErrRateProvider", i, "context", {"context"}) \in ValidationError
         /\ rateError("ErrRateProvider", i, "rate", {"provider"}) \in ValidationError
         /\ rateError("ErrRateProvider", i, "context", {"provider", "context"}) \in ValidationError
         /\ rateError("ErrInvalidExchangeRate", i, "rate", {}) \in ValidationError
         /\ rateError("ErrRateDeviation", i, "rate", {}) \in ValidationError
<1>1. /\ {} \in SUBSET Causes
      /\ {"context"} \in SUBSET Causes
      /\ {"provider"} \in SUBSET Causes
      /\ {"provider", "context"} \in SUBSET Causes
  BY DEF Causes
<1>. QED
  BY <1>1, RateErrorType DEF Sentinels, Fields

LEMMA GuardInterrupted ==
  ASSUME NEW entry, NEW i \in Int, NEW stopped \in BOOLEAN, NEW provider,
         Decimal!Positive(entry.exchangeRate), provider # "nil",
         rateGuard(entry, i, stopped, provider) # NoError
  PROVE  /\ stopped
         /\ rateGuard(entry, i, stopped, provider)
              = rateError("ErrRateProvider", i, "context", {"context"})
<1>. DEFINE err == rateError("ErrRateProvider", i, "context", {"context"})
            check == failIf(stopped, err)
<1>1. rateGuard(entry, i, stopped, provider) = firstError[<<NoError, check, NoError>>]
  BY DEF rateGuard, failIf
<1>2. check \in ValidationError /\ (check = err \/ check = NoError)
  BY RateErrors, NoErrorType DEF failIf
<1>3. stopped
  BY GuardResult
<1>. HIDE DEF err, check
<1>4. firstError[<<NoError, check, NoError>>] \in {NoError, check}
  BY <1>2, NoErrorType, FirstOf3
<1>. QED
  BY <1>1, <1>2, <1>3, <1>4 DEF err

LEMMA AnswerFault ==
  ASSUME NEW failed \in BOOLEAN, NEW i \in Int, NEW stopped \in BOOLEAN,
         answerError(failed, i, stopped) # NoError
  PROVE  answerError(failed, i, stopped)
           = IF failed /\ stopped
               THEN rateError("ErrRateProvider", i, "context", {"provider", "context"})
             ELSE IF failed
               THEN rateError("ErrRateProvider", i, "rate", {"provider"})
             ELSE rateError("ErrRateProvider", i, "context", {"context"})
<1>. DEFINE err1 == rateError("ErrRateProvider", i, "context", {"provider", "context"})
            err2 == rateError("ErrRateProvider", i, "rate", {"provider"})
            err3 == rateError("ErrRateProvider", i, "context", {"context"})
            check1 == failIf(failed /\ stopped, err1)
            check2 == failIf(failed, err2)
            check3 == failIf(stopped, err3)
<1>1. answerError(failed, i, stopped) = firstError[<<check1, check2, check3>>]
  BY DEF answerError
<1>2. /\ err1 \in ValidationError /\ err1 # NoError
      /\ err2 \in ValidationError /\ err3 \in ValidationError
  <2>1. {"provider", "context"} \in SUBSET Causes
    BY DEF Causes
  <2>. QED
    BY <2>1, RateErrors, RateErrorType DEF Sentinels, Fields
<1>. HIDE DEF err1, err2, err3
<1>3. check1 \in ValidationError /\ check2 \in ValidationError /\ check3 \in ValidationError
  BY <1>2, NoErrorType DEF failIf
<1>4. CASE failed /\ stopped
  <2>1. check1 = err1
    BY <1>4 DEF failIf
  <2>2. <<check1, check2, check3>> \in Seq(ValidationError)
    BY <1>3
  <2>. HIDE DEF check1, check2, check3
  <2>. QED
    BY <1>1, <1>2, <1>4, <2>1, <2>2, FirstFails DEF err1
<1>5. CASE failed /\ ~stopped
  <2>1. check1 = NoError /\ check2 = err2 /\ check3 = NoError
    BY <1>5 DEF failIf
  <2>. HIDE DEF check1, check2, check3
  <2>. QED
    BY <1>1, <1>3, <1>5, <2>1, FirstOf3 DEF err2
<1>6. CASE ~failed
  <2>1. check1 = NoError /\ check2 = NoError /\ check3 \in {NoError, err3}
    BY <1>6 DEF failIf
  <2>. HIDE DEF check1, check2, check3
  <2>. QED
    BY <1>1, <1>3, <1>6, <2>1, FirstOf3 DEF err3
<1>. QED
  BY <1>4, <1>5, <1>6

LEMMA CompareFault ==
  ASSUME NEW entry, NEW i \in Int, NEW rate, NEW tolerance,
         compareRate(entry, i, rate, tolerance) # NoError
  PROVE  compareRate(entry, i, rate, tolerance)
           \in {rateError("ErrInvalidExchangeRate", i, "rate", {}),
                rateError("ErrRateDeviation", i, "rate", {})}
<1>. DEFINE err1 == rateError("ErrInvalidExchangeRate", i, "rate", {})
            err2 == rateError("ErrRateDeviation", i, "rate", {})
            check1 == failIf(~Decimal!Positive(rate), err1)
            check2 == failIf(~withinTolerance(rate, entry.exchangeRate, tolerance), err2)
<1>1. compareRate(entry, i, rate, tolerance) = firstError[<<check1, check2>>]
  BY DEF compareRate
<1>2. /\ check1 \in ValidationError /\ check1 \in {NoError, err1}
      /\ check2 \in ValidationError /\ check2 \in {NoError, err2}
  BY RateErrors, NoErrorType DEF failIf
<1>. HIDE DEF err1, err2, check1, check2
<1>. QED
  BY <1>1, <1>2, FirstOf2 DEF err1, err2

(***************************************************************************)
(* The pairs of the entries behind the loop, as it moves.                  *)
(***************************************************************************)
LEMMA WantedNone ==
  ASSUME TypeInv, NEW g \in Goroutines
  PROVE  wanted(g, 1) = {}
<1>1. \A k \in ForeignOnes(g) : ~(k < 1)
  BY BuilderFields DEF ForeignOnes, TypeInv
<1>. QED
  BY <1>1 DEF wanted

LEMMA WantedNext ==
  ASSUME TypeInv, NEW g \in Goroutines, NEW n \in DOMAIN builder[g].entries
  PROVE  /\ n \in ForeignOnes(g) => wanted(g, n + 1) = wanted(g, n) \cup {requestAt(g, n)}
         /\ n \notin ForeignOnes(g) => wanted(g, n + 1) = wanted(g, n)
<1>. DEFINE F == ForeignOnes(g)
<1>1. F \subseteq Nat /\ n \in Nat
  BY BuilderFields DEF ForeignOnes, TypeInv
<1>. HIDE DEF F
<1>2. \A k \in F : k < n + 1 <=> k < n \/ k = n
  <2>1. \A k, m \in Nat : k < m + 1 <=> k < m \/ k = m
    OBVIOUS
  <2>. QED
    BY <1>1, <2>1
<1>3. n \in F => {m \in F : m < n + 1} = {m \in F : m < n} \cup {n}
  BY <1>1, <1>2
<1>4. n \notin F => {m \in F : m < n + 1} = {m \in F : m < n}
  BY <1>1, <1>2
<1>5. /\ wanted(g, n) = {requestAt(g, k) : k \in {m \in F : m < n}}
      /\ wanted(g, n + 1) = {requestAt(g, k) : k \in {m \in F : m < n + 1}}
  BY DEF wanted, F
<1>6. ASSUME n \in F PROVE wanted(g, n + 1) = wanted(g, n) \cup {requestAt(g, n)}
  <2>1. wanted(g, n + 1) = {requestAt(g, k) : k \in {m \in F : m < n} \cup {n}}
    BY <1>3, <1>5, <1>6
  <2>. QED
    BY <1>5, <2>1
<1>7. ASSUME n \notin F PROVE wanted(g, n + 1) = wanted(g, n)
  BY <1>4, <1>5, <1>7
<1>. QED
  BY <1>6, <1>7 DEF F

(***************************************************************************)
(* A step of one goroutine leaves the fate of the others alone, and keeps  *)
(* the ground and the pairs of its own.                                    *)
(***************************************************************************)
LEMMA SameFate ==
  ASSUME NEW h \in Goroutines, FateOf(h), Same(h)
  PROVE  FateOf(h)'
<1>1. /\ UNCHANGED <<request(h), current(h), ForeignOnes(h), sent(h)>>
      /\ \A k : requestAt(h, k)' = requestAt(h, k)
      /\ \A n : wanted(h, n)' = wanted(h, n)
      /\ canceled(h)' <=> canceled(h)
  BY DEF Same, request, current, ForeignOnes, sent, requestAt, wanted, canceled
<1>2. GroundOf(h)' /\ GivenOf(h)' /\ OneRateOf(h)'
  BY <1>1 DEF FateOf, GroundOf, GivenOf, OneRateOf, Same
<1>3. SentOf(h)'
  BY <1>1 DEF FateOf, SentOf, Same
<1>4. OrderOf(h)'
  BY <1>1 DEF FateOf, OrderOf, Before, Same
<1>5. InOrder(h)' <=> InOrder(h)
  BY <1>1 DEF InOrder, Same
<1>6. \A err : Fault(h, err)' <=> Fault(h, err)
  BY <1>1, <1>5
  DEF Fault, ContextFault, StaticFault, LoopFault, Interrupted, ProviderFault, RateFault, Same
<1>7. EndOf(h)'
  BY <1>1, <1>6 DEF FateOf, EndOf, Succeeded, Failed, Same
<1>. QED
  BY <1>2, <1>3, <1>4, <1>7 DEF FateOf

LEMMA GroundKept ==
  ASSUME TypeInv, NEW g \in Goroutines, InvOf(g), GroundOf(g),
         Cancel(g) \/ Step(g) \/ Provider(g)
  PROVE  /\ GroundOf(g)'
         /\ staticError(builder[g])' = staticError(builder[g])
         /\ ForeignOnes(g)' = ForeignOnes(g)
         /\ \A k : requestAt(g, k)' = requestAt(g, k)
         /\ \A n : wanted(g, n)' = wanted(g, n)
         /\ \A r, s : Before(g, r, s)' <=> Before(g, r, s)
         /\ next'[g] = next[g] => request(g)' = request(g) /\ current(g)' = current(g)
<1>1. /\ input' = input /\ pc[g] # "idle"
      /\ builder'[g].id = builder[g].id
      /\ builder'[g].effectiveDate = builder[g].effectiveDate
      /\ builder'[g].isAdjustingEvent = builder[g].isAdjustingEvent
      /\ builder'[g].entries = builder[g].entries
      /\ builder'[g].metadata = builder[g].metadata
      /\ builder'[g].config = builder[g].config
      /\ builder'[g].rateProvider = builder[g].rateProvider
  BY CallKept
<1>2. GroundOf(g)'
  BY <1>1 DEF GroundOf
<1>3. staticError(builder'[g]) = staticError(builder[g])
  BY <1>1, SameStatic
<1>4. /\ ForeignOnes(g)' = ForeignOnes(g)
      /\ \A k : requestAt(g, k)' = requestAt(g, k)
  BY <1>1 DEF ForeignOnes, requestAt
<1>5. \A n : wanted(g, n)' = wanted(g, n)
  BY <1>4 DEF wanted
<1>6. \A r, s : Before(g, r, s)' <=> Before(g, r, s)
  BY <1>1, <1>4 DEF Before
<1>7. next'[g] = next[g] => request(g)' = request(g) /\ current(g)' = current(g)
  BY <1>1 DEF request, current
<1>. QED
  BY <1>2, <1>3, <1>4, <1>5, <1>6, <1>7

(* A step that neither asks nor hears the provider. *)
LEMMA QuietKept ==
  ASSUME TypeInv, NEW g \in Goroutines, InvOf(g), FateOf(g),
         Cancel(g) \/ Step(g) \/ Provider(g),
         asked'[g] = asked[g], answers'[g] = answers[g]
  PROVE  GroundOf(g)' /\ OneRateOf(g)' /\ OrderOf(g)' /\ sent(g)' = sent(g)
<1>1. GroundOf(g)' /\ \A r, s : Before(g, r, s)' <=> Before(g, r, s)
  BY GroundKept DEF FateOf
<1>2. OneRateOf(g)' /\ sent(g)' = sent(g)
  BY DEF FateOf, OneRateOf, sent
<1>3. OrderOf(g)'
  BY <1>1 DEF FateOf, OrderOf
<1>. QED
  BY <1>1, <1>2, <1>3

(* A call that ends. *)
LEMMA EndFate ==
  ASSUME TypeInv, NEW g \in Goroutines, InvOf(g), FateOf(g), Step(g) \/ Provider(g),
         pc'[g] \in {"returned", "panicked"}, UNCHANGED history, EndOf(g)'
  PROVE  FateOf(g)'
<1>1. GroundOf(g)' /\ OneRateOf(g)' /\ OrderOf(g)'
  BY QuietKept DEF history
<1>2. GivenOf(g)' /\ SentOf(g)'
  BY DEF GivenOf, SentOf, Loop, Asking
<1>. QED
  BY <1>1, <1>2 DEF FateOf

LEMMA RejectedFate ==
  ASSUME TypeInv, NEW g \in Goroutines, InvOf(g), FateOf(g), Step(g),
         NEW err \in ValidationError, err # NoError, Fault(g, err),
         Return(g, err, NoTransaction), UNCHANGED <<ctx, builder, next, answer, history>>
  PROVE  FateOf(g)'
<1>1. pc'[g] = "returned" /\ result'[g] = [err |-> err, tx |-> NoTransaction]
  BY ReturnType, NoTransactionType DEF TypeInv
<1>2. /\ UNCHANGED <<request(g), current(g), ForeignOnes(g), sent(g)>>
      /\ \A n : wanted(g, n)' = wanted(g, n)
      /\ canceled(g)' <=> canceled(g)
  BY DEF request, current, ForeignOnes, sent, wanted, requestAt, canceled, history
<1>3. InOrder(g)' <=> InOrder(g)
  BY <1>2 DEF InOrder, history
<1>4. Fault(g, err)'
  BY <1>2, <1>3
  DEF Fault, ContextFault, StaticFault, LoopFault, Interrupted, ProviderFault, RateFault, history
<1>5. EndOf(g)'
  BY <1>1, <1>4 DEF EndOf, Succeeded, Failed
<1>. QED
  BY <1>1, <1>5, EndFate

(* A turn of the loop that ends well. *)
LEMMA TurnFate ==
  ASSUME TypeInv, NEW g \in Goroutines, InvOf(g), FateOf(g), Step(g), UNCHANGED history,
         pc'[g] = "loop", next'[g] = next[g] + 1,
         DOMAIN cache'[g] = wanted(g, next[g] + 1),
         sent(g) = DOMAIN cache'[g],
         \A a \in answers[g] : a.request \in DOMAIN cache'[g] /\ a.rate = cache'[g][a.request]
  PROVE  FateOf(g)'
<1>1. asked'[g] = asked[g] /\ answers'[g] = answers[g]
  BY DEF history
<1>2. GroundOf(g)' /\ OneRateOf(g)' /\ OrderOf(g)' /\ sent(g)' = sent(g)
  BY <1>1, QuietKept
<1>3. GivenOf(g)'
  BY <1>1 DEF GivenOf
<1>4. \A n : wanted(g, n)' = wanted(g, n)
  BY GroundKept DEF FateOf
<1>5. SentOf(g)'
  BY <1>2, <1>4 DEF SentOf
<1>6. EndOf(g)'
  BY DEF EndOf, Succeeded, Failed
<1>. QED
  BY <1>2, <1>3, <1>5, <1>6 DEF FateOf

(***************************************************************************)
(* Every action of a goroutine keeps its fate.                             *)
(***************************************************************************)
LEMMA BeginFate ==
  ASSUME TypeInv, Provided, NEW g \in Goroutines, NEW l \in DOMAIN ledgers,
         NEW in \in TransactionInput, NEW context \in {"background", "live", "canceled"},
         Begin(g, l, in, context),
         \A i \in DOMAIN in.entries : MadeEntry(in.entries[i])
  PROVE  FateOf(g)'
<1>1. /\ pc'[g] = "check" /\ input'[g] = in /\ builder'[g] = builderFor(l, in)
      /\ asked'[g] = <<>> /\ answers'[g] = {}
  BY DEF Begin, TypeInv, TypeOK
<1>2. builderFor(l, in).rateProvider = ledgers[l].rateProvider
  BY DEF builderFor, NewTxBuilder
<1>3. GroundOf(g)'
  BY <1>1, <1>2 DEF GroundOf, Provided
<1>4. GivenOf(g)' /\ OneRateOf(g)' /\ OrderOf(g)'
  BY <1>1 DEF GivenOf, OneRateOf, OrderOf, Loop, Asking
<1>5. SentOf(g)' /\ EndOf(g)'
  BY <1>1 DEF SentOf, EndOf, Succeeded, Failed, Loop, Asking
<1>. QED
  BY <1>3, <1>4, <1>5 DEF FateOf

LEMMA CancelFate ==
  ASSUME TypeInv, NEW g \in Goroutines, InvOf(g), FateOf(g), Cancel(g)
  PROVE  FateOf(g)'
<1>1. /\ UNCHANGED <<pc, builder, next, cache, answer, asked, answers>>
      /\ pc[g] # "returned"
  BY DEF Cancel, Running, Ended
<1>2. GroundOf(g)' /\ OneRateOf(g)' /\ OrderOf(g)' /\ sent(g)' = sent(g)
  BY <1>1, QuietKept
<1>3. request(g)' = request(g) /\ \A n : wanted(g, n)' = wanted(g, n)
  BY <1>1, GroundKept DEF FateOf
<1>4. GivenOf(g)'
  BY <1>1, <1>3 DEF FateOf, GivenOf
<1>5. SentOf(g)'
  BY <1>1, <1>2, <1>3 DEF FateOf, SentOf
<1>6. EndOf(g)'
  BY <1>1 DEF EndOf, Succeeded, Failed
<1>. QED
  BY <1>2, <1>4, <1>5, <1>6 DEF FateOf

LEMMA CheckFate ==
  ASSUME TypeInv, NEW g \in Goroutines, InvOf(g), FateOf(g), Check(g)
  PROVE  FateOf(g)'
<1>1. pc[g] = "check" /\ asked[g] = <<>> /\ answers[g] = {} /\ UNCHANGED history
  BY DEF Check, InvOf, AskedOf, FateOf, GivenOf
<1>2. PICK err : err = firstError[<<validationContext(canceled(g)), staticError(builder[g])>>]
  OBVIOUS
<1>3. /\ err \in ValidationError
      /\ err \in {NoError, validationContext(canceled(g)), staticError(builder[g])}
      /\ err = NoError <=>
           validationContext(canceled(g)) = NoError /\ staticError(builder[g]) = NoError
  BY <1>2, StepErrors, FirstOf2 DEF TypeInv
<1>4. CASE err # NoError
  <2>1. /\ Return(g, err, NoTransaction)
        /\ UNCHANGED <<ctx, builder, next, answer, history>>
    BY <1>2, <1>4 DEF Check
  <2>2. CASE err = staticError(builder[g])
    <3>1. Fault(g, err)
      BY <1>1, <1>4, <2>2 DEF Fault, StaticFault
    <3>. QED
      BY <1>3, <1>4, <2>1, <3>1, RejectedFate DEF Step
  <2>3. CASE err = validationContext(canceled(g))
    <3>1. Fault(g, err)
      BY <1>1, <1>4, <2>3 DEF Fault, ContextFault, validationContext, failIf
    <3>. QED
      BY <1>3, <1>4, <2>1, <3>1, RejectedFate DEF Step
  <2>. QED
    BY <1>3, <1>4, <2>2, <2>3
<1>5. CASE err = NoError
  <2>1. /\ pc'[g] = "loop" /\ next'[g] = 1 /\ cache'[g] = emptyCache
        /\ asked'[g] = asked[g] /\ answers'[g] = answers[g]
    BY <1>1, <1>2, <1>5 DEF Check, freshCache, history, TypeInv, TypeOK
  <2>2. GroundOf(g)' /\ OneRateOf(g)' /\ OrderOf(g)' /\ sent(g)' = sent(g)
    BY <2>1, QuietKept DEF Step
  <2>3. GivenOf(g)'
    BY <1>1, <2>1 DEF GivenOf
  <2>4. \A n : wanted(g, n)' = wanted(g, n)
    BY GroundKept DEF FateOf, Step
  <2>5. sent(g) = {} /\ DOMAIN emptyCache = {} /\ wanted(g, 1) = {}
    BY <1>1, WantedNone DEF sent, emptyCache
  <2>6. SentOf(g)'
    BY <2>1, <2>2, <2>4, <2>5 DEF SentOf
  <2>7. EndOf(g)'
    BY <2>1 DEF EndOf, Succeeded, Failed
  <2>. QED
    BY <2>2, <2>3, <2>6, <2>7 DEF FateOf
<1>. QED
  BY <1>4, <1>5

LEMMA SkipFate ==
  ASSUME TypeInv, NEW g \in Goroutines, InvOf(g), FateOf(g), Skip(g)
  PROVE  FateOf(g)'
<1>1. /\ pc[g] = "loop" /\ pc'[g] = "loop" /\ next'[g] = next[g] + 1
      /\ cache' = cache /\ UNCHANGED history
      /\ ~foreign(current(g))
  BY DEF Skip, inLoop, TypeInv, TypeOK
<1>2. next[g] \in DOMAIN builder[g].entries
  BY BuilderFields DEF Skip, inLoop, TypeInv, TypeOK
<1>3. wanted(g, next[g] + 1) = wanted(g, next[g])
  BY <1>1, <1>2, WantedNext DEF ForeignOnes, current
<1>4. DOMAIN cache[g] = wanted(g, next[g]) /\ sent(g) = DOMAIN cache[g]
  BY <1>1 DEF FateOf, SentOf, Loop
<1>5. \A a \in answers[g] : a.request \in DOMAIN cache[g] /\ a.rate = cache[g][a.request]
  BY <1>1 DEF FateOf, GivenOf, Loop
<1>. QED
  BY <1>1, <1>3, <1>4, <1>5, TurnFate DEF Step

(* The loop is at a foreign entry, and those behind it are in order. *)
LEMMA LoopInOrder ==
  ASSUME TypeInv, NEW g \in Goroutines, InvOf(g), pc[g] \in Loop, foreign(current(g)),
         next[g] \in DOMAIN builder[g].entries
  PROVE  InOrder(g)
BY DEF InvOf, CheckedOf, BehindOf, InOrder, ForeignOnes, current

(* Past the checks a rate is positive and there is a provider, so that     *)
(* nothing but the context can keep the loop from a rate.                  *)
LEMMA GuardOfLoop ==
  ASSUME TypeInv, NEW g \in Goroutines, InvOf(g), FateOf(g), pc[g] = "loop",
         next[g] \in DOMAIN builder[g].entries, guardError(g) # NoError
  PROVE  /\ canceled(g)
         /\ guardError(g) = rateError("ErrRateProvider", next[g], "context", {"context"})
<1>1. next[g] \in Int /\ canceled(g) \in BOOLEAN
  BY DEF canceled, TypeInv, TypeOK
<1>2. builder[g].rateProvider # "nil" /\ Decimal!Positive(current(g).exchangeRate)
  <2>1. staticError(builder[g]) = NoError
    BY DEF InvOf, CheckedOf, Loop
  <2>2. Decimal!Positive(builder[g].entries[next[g]].exchangeRate)
    BY <2>1, BuilderFields, StaticSound DEF TypeInv
  <2>. QED
    BY <2>2 DEF FateOf, GroundOf, current
<1>. QED
  BY <1>1, <1>2, GuardInterrupted DEF guardError

LEMMA RejectFate ==
  ASSUME TypeInv, NEW g \in Goroutines, InvOf(g), FateOf(g), RejectEntry(g)
  PROVE  FateOf(g)'
<1>1. /\ pc[g] = "loop" /\ foreign(current(g)) /\ guardError(g) # NoError
      /\ Return(g, guardError(g), NoTransaction)
      /\ UNCHANGED <<ctx, builder, next, answer, history>>
  BY DEF RejectEntry, inLoop
<1>2. next[g] \in DOMAIN builder[g].entries /\ next[g] \in Int /\ canceled(g) \in BOOLEAN
  BY BuilderFields DEF RejectEntry, inLoop, canceled, TypeInv, TypeOK
<1>3. InOrder(g)
  BY <1>1, <1>2, LoopInOrder DEF Loop
<1>4. canceled(g) /\ guardError(g) = rateError("ErrRateProvider", next[g], "context", {"context"})
  BY <1>1, <1>2, GuardOfLoop
<1>5. Fault(g, guardError(g))
  BY <1>3, <1>4 DEF Fault, LoopFault, Interrupted
<1>6. guardError(g) \in ValidationError
  BY StepErrors DEF TypeInv
<1>. QED
  BY <1>1, <1>5, <1>6, RejectedFate DEF Step

(* The comparison, once the rate of the current entry is in the cache. *)
LEMMA CompareFate ==
  ASSUME TypeInv, NEW g \in Goroutines, InvOf(g), FateOf(g), Step(g), pc[g] \in Loop,
         next[g] \in DOMAIN builder[g].entries, foreign(current(g)),
         NEW rate \in Decimal!Decimal, Compare(g, rate),
         [request |-> request(g), rate |-> rate] \in answers[g],
         DOMAIN cache'[g] = wanted(g, next[g] + 1),
         sent(g) = DOMAIN cache'[g],
         \A a \in answers[g] : a.request \in DOMAIN cache'[g] /\ a.rate = cache'[g][a.request],
         UNCHANGED <<ctx, builder, answer, history>>
  PROVE  FateOf(g)'
<1>. DEFINE err == compareRate(current(g), next[g], rate, builder[g].config.rateTolerance)
<1>1. next[g] \in Int
  BY DEF TypeInv, TypeOK
<1>2. err \in ValidationError
  BY <1>1, CompareResult
<1>3. CASE err # NoError
  <2>1. Return(g, err, NoTransaction) /\ UNCHANGED next
    BY <1>3 DEF Compare
  <2>2. RateFault(g, err) /\ InOrder(g)
    BY <1>3, LoopInOrder DEF RateFault
  <2>3. Fault(g, err)
    BY <2>2 DEF Fault, LoopFault
  <2>. HIDE DEF err
  <2>. QED
    BY <1>2, <1>3, <2>1, <2>3, RejectedFate
<1>4. CASE err = NoError
  <2>1. pc'[g] = "loop" /\ next'[g] = next[g] + 1
    BY <1>4 DEF Compare, TypeInv, TypeOK
  <2>. QED
    BY <2>1, TurnFate
<1>. QED
  BY <1>3, <1>4

LEMMA UseCachedFate ==
  ASSUME TypeInv, NEW g \in Goroutines, InvOf(g), FateOf(g), UseCached(g)
  PROVE  FateOf(g)'
<1>. DEFINE rate == cache[g][request(g)]
<1>1. /\ pc[g] = "loop" /\ foreign(current(g)) /\ request(g) \in DOMAIN cache[g]
      /\ Compare(g, rate) /\ cache' = cache
      /\ UNCHANGED <<ctx, builder, answer, history>>
  BY DEF UseCached, inLoop
<1>2. next[g] \in DOMAIN builder[g].entries
  BY BuilderFields DEF UseCached, inLoop, TypeInv, TypeOK
<1>3. rate \in Decimal!Decimal
  BY <1>1 DEF TypeInv, TypeOK
<1>4. [request |-> request(g), rate |-> rate] \in answers[g]
  BY <1>1 DEF InvOf, CacheOf, Loop
<1>5. DOMAIN cache[g] = wanted(g, next[g]) /\ sent(g) = DOMAIN cache[g]
  BY <1>1 DEF FateOf, SentOf, Loop
<1>6. wanted(g, next[g] + 1) = wanted(g, next[g])
  <2>1. next[g] \in ForeignOnes(g) /\ requestAt(g, next[g]) = request(g)
    BY <1>1, <1>2 DEF ForeignOnes, requestAt, request, current
  <2>2. wanted(g, next[g] + 1) = wanted(g, next[g]) \cup {request(g)}
    BY <1>2, <2>1, WantedNext
  <2>. QED
    BY <1>1, <1>5, <2>2
<1>7. \A a \in answers[g] : a.request \in DOMAIN cache[g] /\ a.rate = cache[g][a.request]
  BY <1>1 DEF FateOf, GivenOf, Loop
<1>8. pc[g] \in Loop /\ Step(g)
  BY <1>1 DEF Loop, Step
<1>. HIDE DEF rate
<1>. QED
  BY <1>1, <1>2, <1>3, <1>4, <1>5, <1>6, <1>7, <1>8, CompareFate

LEMMA MissFate ==
  ASSUME TypeInv, NEW g \in Goroutines, InvOf(g), FateOf(g), Miss(g)
  PROVE  FateOf(g)'
<1>1. /\ pc[g] = "loop" /\ pc'[g] = "request"
      /\ UNCHANGED <<next, cache, asked, answers>>
  BY DEF Miss, inLoop, history, TypeInv, TypeOK
<1>2. GroundOf(g)' /\ OneRateOf(g)' /\ OrderOf(g)' /\ sent(g)' = sent(g)
  BY <1>1, QuietKept DEF Step
<1>3. \A n : wanted(g, n)' = wanted(g, n)
  BY GroundKept DEF FateOf, Step
<1>4. GivenOf(g)'
  BY <1>1 DEF FateOf, GivenOf, Loop
<1>5. SentOf(g)'
  BY <1>1, <1>2, <1>3 DEF FateOf, SentOf, Loop
<1>6. EndOf(g)'
  BY <1>1 DEF EndOf, Succeeded, Failed
<1>. QED
  BY <1>2, <1>4, <1>5, <1>6 DEF FateOf

(* A new request comes after all that were sent: their pairs have come up  *)
(* behind the loop, and its own has not.                                   *)
LEMMA RequestFate ==
  ASSUME TypeInv, NEW g \in Goroutines, InvOf(g), FateOf(g), Request(g)
  PROVE  FateOf(g)'
<1>1. /\ pc[g] = "request" /\ pc'[g] = "provider"
      /\ asked'[g] = Append(asked[g], request(g))
      /\ UNCHANGED <<builder, next, cache, answer, answers>>
  BY DEF Request, TypeInv, TypeOK
<1>2. /\ asked[g] \in Seq(RequestSet) /\ request(g) \in RequestSet
      /\ next[g] \in DOMAIN builder[g].entries
  BY <1>1, RequestType DEF TypeInv, TypeOK, AtAnEntry, Asking
<1>3. /\ DOMAIN asked'[g] = 1 .. Len(asked[g]) + 1
      /\ asked'[g][Len(asked[g]) + 1] = request(g)
      /\ \A i \in 1 .. Len(asked[g]) : asked'[g][i] = asked[g][i]
      /\ DOMAIN asked[g] = 1 .. Len(asked[g])
      /\ Len(asked[g]) \in Nat
  BY <1>1, <1>2
<1>4. /\ GroundOf(g)' /\ request(g)' = request(g)
      /\ \A n : wanted(g, n)' = wanted(g, n)
      /\ \A r, s : Before(g, r, s)' <=> Before(g, r, s)
  BY <1>1, GroundKept DEF FateOf, Step
<1>5. OneRateOf(g)' /\ GivenOf(g)' /\ EndOf(g)'
  BY <1>1, <1>4 DEF FateOf, OneRateOf, GivenOf, EndOf, Succeeded, Failed, Loop, Asking
<1>6. DOMAIN cache[g] = wanted(g, next[g]) /\ sent(g) = DOMAIN cache[g]
  BY <1>1 DEF FateOf, SentOf, Loop, Asking
<1>7. SentOf(g)'
  <2>1. sent(g)' = sent(g) \cup {request(g)}
    <3>1. \A i \in DOMAIN asked'[g] : i \in DOMAIN asked[g] \/ i = Len(asked[g]) + 1
      BY <1>3
    <3>2. DOMAIN asked[g] \subseteq DOMAIN asked'[g] /\ Len(asked[g]) + 1 \in DOMAIN asked'[g]
      BY <1>3
    <3>. QED
      BY <1>3, <3>1, <3>2 DEF sent
  <2>. QED
    BY <1>1, <1>4, <1>6, <2>1 DEF SentOf
<1>8. ASSUME NEW r \in sent(g) PROVE Before(g, r, request(g))
  <2>1. foreign(current(g)) /\ request(g) \notin DOMAIN cache[g]
    BY <1>1 DEF InvOf, AskingOf, Asking
  <2>2. PICK k \in ForeignOnes(g) : k < next[g] /\ requestAt(g, k) = r
    BY <1>6 DEF wanted
  <2>3. k \in DOMAIN builder[g].entries
    BY DEF ForeignOnes
  <2>4. ASSUME NEW m \in 1 .. k, requestAt(g, m) = request(g) PROVE FALSE
    <3>1. m \in DOMAIN builder[g].entries /\ m < next[g]
      BY <1>2, <2>2, <2>3, BuilderFields DEF TypeInv, TypeOK
    <3>2. foreign(builder[g].entries[m])
      BY <2>1, <2>4 DEF requestAt, request, rateRequest, foreign
    <3>3. request(g) \in wanted(g, next[g])
      BY <2>4, <3>1, <3>2 DEF wanted, ForeignOnes
    <3>. QED
      BY <1>6, <2>1, <3>3
  <2>. QED
    BY <2>2, <2>3, <2>4 DEF Before
<1>9. OrderOf(g)'
  <2>1. ASSUME NEW i \in DOMAIN asked'[g], NEW j \in DOMAIN asked'[g], i < j
        PROVE  Before(g, asked'[g][i], asked'[g][j])
    <3>1. i \in DOMAIN asked[g] /\ (j \in DOMAIN asked[g] \/ j = Len(asked[g]) + 1)
      BY <1>3, <2>1
    <3>2. CASE j \in DOMAIN asked[g]
      BY <1>3, <2>1, <3>1, <3>2 DEF FateOf, OrderOf
    <3>3. CASE j = Len(asked[g]) + 1
      BY <1>3, <1>8, <3>1, <3>3 DEF sent
    <3>. QED
      BY <3>1, <3>2, <3>3
  <2>. QED
    BY <1>4, <2>1 DEF OrderOf
<1>. QED
  BY <1>4, <1>5, <1>7, <1>9 DEF FateOf

LEMMA ResolveFailsFate ==
  ASSUME TypeInv, NEW g \in Goroutines, InvOf(g), FateOf(g), ResolveFails(g)
  PROVE  FateOf(g)'
<1>1. /\ pc[g] = "resolve" /\ resolveError(g) # NoError
      /\ Return(g, resolveError(g), NoTransaction)
      /\ UNCHANGED <<ctx, builder, next, answer, history>>
  BY DEF ResolveFails
<1>2. /\ next[g] \in DOMAIN builder[g].entries /\ next[g] \in Int
      /\ canceled(g) \in BOOLEAN /\ answer[g].failed \in BOOLEAN
  BY <1>1 DEF canceled, TypeInv, TypeOK, AtAnEntry, Asking
<1>3. InOrder(g)
  BY <1>1, <1>2, LoopInOrder DEF InvOf, AskingOf, Loop, Asking
<1>4. resolveError(g)
        = IF answer[g].failed /\ canceled(g)
            THEN rateError("ErrRateProvider", next[g], "context", {"provider", "context"})
          ELSE IF answer[g].failed
            THEN rateError("ErrRateProvider", next[g], "rate", {"provider"})
          ELSE rateError("ErrRateProvider", next[g], "context", {"context"})
  BY <1>1, <1>2, AnswerFault DEF resolveError
<1>5. answer[g].failed \/ canceled(g)
  BY <1>1, <1>2, AnswerResult DEF resolveError
<1>6. Interrupted(g, resolveError(g)) \/ ProviderFault(g, resolveError(g))
  BY <1>4, <1>5 DEF Interrupted, ProviderFault
<1>7. Fault(g, resolveError(g)) /\ resolveError(g) \in ValidationError
  BY <1>3, <1>6, StepErrors DEF Fault, LoopFault, TypeInv
<1>. QED
  BY <1>1, <1>7, RejectedFate DEF Step

LEMMA ResolveFate ==
  ASSUME TypeInv, NEW g \in Goroutines, InvOf(g), FateOf(g), Resolve(g)
  PROVE  FateOf(g)'
<1>. DEFINE rate == answer[g].rate
<1>1. /\ pc[g] = "resolve" /\ resolveError(g) = NoError /\ Compare(g, rate)
      /\ cache'[g] = store(cache[g], request(g), rate)
      /\ UNCHANGED <<ctx, builder, answer, history>>
  BY DEF Resolve, TypeInv, TypeOK
<1>2. ~answer[g].failed
  <2>1. answer[g].failed \in BOOLEAN /\ next[g] \in Int /\ canceled(g) \in BOOLEAN
    BY DEF TypeInv, TypeOK, canceled
  <2>. QED
    BY <1>1, <2>1, AnswerResult DEF resolveError
<1>3. [request |-> request(g), rate |-> rate] \in answers[g]
  BY <1>1, <1>2 DEF InvOf, AnswerOf
<1>4. next[g] \in DOMAIN builder[g].entries /\ rate \in Decimal!Decimal
  BY <1>1 DEF TypeInv, TypeOK, AtAnEntry, Asking
<1>5. foreign(current(g)) /\ request(g) \notin DOMAIN cache[g]
  BY <1>1 DEF InvOf, AskingOf, Asking
<1>6. /\ DOMAIN cache'[g] = DOMAIN cache[g] \cup {request(g)}
      /\ \A r \in DOMAIN cache'[g] :
           cache'[g][r] = IF r = request(g) THEN rate ELSE cache[g][r]
  BY <1>1 DEF store
<1>7. /\ DOMAIN cache[g] = wanted(g, next[g])
      /\ sent(g) = DOMAIN cache[g] \cup {request(g)}
  BY <1>1 DEF FateOf, SentOf, Loop, Asking
<1>8. DOMAIN cache'[g] = wanted(g, next[g] + 1)
  <2>1. next[g] \in ForeignOnes(g) /\ requestAt(g, next[g]) = request(g)
    BY <1>4, <1>5 DEF ForeignOnes, requestAt, request, current
  <2>2. wanted(g, next[g] + 1) = wanted(g, next[g]) \cup {request(g)}
    BY <1>4, <2>1, WantedNext
  <2>. QED
    BY <1>6, <1>7, <2>2
<1>9. \A a \in answers[g] : a.request \in DOMAIN cache'[g] /\ a.rate = cache'[g][a.request]
  <2>1. \A a \in answers[g] :
          \/ a.request \in DOMAIN cache[g] /\ a.rate = cache[g][a.request]
          \/ a.request = request(g) /\ a.rate = rate
    BY <1>1 DEF FateOf, GivenOf, Loop, Asking
  <2>. HIDE DEF rate
  <2>. QED
    BY <1>5, <1>6, <2>1
<1>10. pc[g] \in Loop /\ Step(g) /\ sent(g) = DOMAIN cache'[g]
  BY <1>1, <1>6, <1>7 DEF Loop, Asking, Step
<1>. HIDE DEF rate
<1>. QED
  BY <1>1, <1>3, <1>4, <1>5, <1>8, <1>9, <1>10, CompareFate

LEMMA ProviderFate ==
  ASSUME TypeInv, NEW g \in Goroutines, InvOf(g), FateOf(g), Provider(g)
  PROVE  FateOf(g)'
<1>1. CASE ProviderPanics(g)
  <2>1. pc'[g] = "panicked" /\ UNCHANGED history
    BY <1>1 DEF ProviderPanics, TypeInv, TypeOK
  <2>2. EndOf(g)'
    BY <2>1 DEF EndOf, Succeeded, Failed
  <2>. QED
    BY <2>1, <2>2, EndFate
<1>2. CASE ProviderAnswers(g) \/ ProviderFails(g)
  <2>1. /\ pc[g] = "provider" /\ pc'[g] = "resolve"
        /\ UNCHANGED <<builder, next, cache, asked>>
    BY <1>2 DEF ProviderAnswers, ProviderFails, history, TypeInv, TypeOK
  <2>2. \/ answers'[g] = answers[g]
        \/ /\ ~answer'[g].failed
           /\ answers'[g] = answers[g] \cup {[request |-> request(g), rate |-> answer'[g].rate]}
    <3>1. answer \in [Goroutines -> [failed : BOOLEAN, rate : Decimal!Decimal]] /\ g \in DOMAIN answers
      BY DEF TypeInv, TypeOK
    <3>2. CASE ProviderAnswers(g)
      BY <3>1, <3>2 DEF ProviderAnswers
    <3>3. CASE ProviderFails(g)
      BY <3>1, <3>3 DEF ProviderFails, history
    <3>. QED
      BY <1>2, <3>2, <3>3
  <2>3. /\ GroundOf(g)' /\ request(g)' = request(g)
        /\ \A n : wanted(g, n)' = wanted(g, n)
        /\ \A r, s : Before(g, r, s)' <=> Before(g, r, s)
    BY <2>1, GroundKept DEF FateOf
  <2>4. request(g) \notin DOMAIN cache[g]
    BY <2>1 DEF InvOf, AskingOf, Asking
  <2>5. \A a \in answers[g] : a.request \in DOMAIN cache[g] /\ a.rate = cache[g][a.request]
    BY <2>1 DEF FateOf, GivenOf, Loop, Asking
  <2>6. GivenOf(g)'
    BY <2>1, <2>2, <2>3, <2>5 DEF GivenOf
  <2>7. OneRateOf(g)'
    BY <2>2, <2>4, <2>5 DEF FateOf, OneRateOf
  <2>8. SentOf(g)' /\ OrderOf(g)'
    BY <2>1, <2>3 DEF FateOf, SentOf, OrderOf, sent, Loop, Asking
  <2>9. EndOf(g)'
    BY <2>1 DEF EndOf, Succeeded, Failed
  <2>. QED
    BY <2>3, <2>6, <2>7, <2>8, <2>9 DEF FateOf
<1>. QED
  BY <1>1, <1>2 DEF Provider

LEMMA PostFate ==
  ASSUME TypeInv, NEW g \in Goroutines, InvOf(g), FateOf(g), Post(g)
  PROVE  FateOf(g)'
<1>1. /\ pc[g] = "loop" /\ pc'[g] = "returned" /\ result'[g].err = NoError
      /\ next[g] > Len(builder[g].entries)
      /\ UNCHANGED history
  BY DEF Post, Return, TypeInv, TypeOK
<1>2. /\ staticError(builder[g])' = staticError(builder[g])
      /\ \A n : wanted(g, n)' = wanted(g, n)
  BY GroundKept DEF FateOf, Step
<1>3. builder'[g].entries = builder[g].entries /\ sent(g)' = sent(g)
  BY <1>1, CallKept DEF Step, sent, history
<1>4. staticError(builder[g]) = NoError /\ sent(g) = wanted(g, next[g])
  BY <1>1 DEF InvOf, CheckedOf, FateOf, SentOf, Loop
<1>5. wanted(g, next[g]) = wanted(g, Len(builder[g].entries) + 1)
  <2>1. \A k \in ForeignOnes(g) : k < next[g] /\ k < Len(builder[g].entries) + 1
    BY <1>1, BuilderFields DEF ForeignOnes, TypeInv, TypeOK
  <2>. QED
    BY <2>1 DEF wanted
<1>6. EndOf(g)'
  BY <1>1, <1>2, <1>3, <1>4, <1>5 DEF EndOf, Failed
<1>. QED
  BY <1>1, <1>6, EndFate DEF Step

(***************************************************************************)
(* The second inductive invariant holds in every state.                    *)
(***************************************************************************)
LEMMA FInit == Init => FInv
<1>. SUFFICES ASSUME Init PROVE FInv
  OBVIOUS
<1>1. IInv /\ Provided
  BY IInit DEF Provided, Init
<1>2. ASSUME NEW g \in Goroutines PROVE FateOf(g)
  <2>1. /\ pc[g] = "idle" /\ input[g].entries = <<>> /\ asked[g] = <<>> /\ answers[g] = {}
    BY DEF Init, ZeroInput
  <2>2. GroundOf(g) /\ GivenOf(g) /\ OneRateOf(g) /\ OrderOf(g)
    BY <2>1 DEF GroundOf, GivenOf, OneRateOf, OrderOf, Loop, Asking
  <2>3. SentOf(g) /\ EndOf(g)
    BY <2>1 DEF SentOf, EndOf, Succeeded, Failed, Loop, Asking
  <2>. QED
    BY <2>2, <2>3 DEF FateOf
<1>. QED
  BY <1>1, <1>2 DEF FInv

LEMMA ProvidedStep == TypeInv /\ Provided /\ [Next]_vars => Provided'
<1>. SUFFICES ASSUME TypeInv, Provided, [Next]_vars PROVE Provided'
  OBVIOUS
<1>1. ledgers \in Seq(LedgerSet)
  BY DEF TypeInv, TypeOK
<1>2. \/ UNCHANGED ledgers
      \/ \E x \in LedgerSet : x.rateProvider # "nil" /\ ledgers' = Append(ledgers, x)
  <2>1. CASE NewLedger
    BY <2>1, NormalizeResult, LedgerAssumption DEF NewLedger, newLedger, LedgerSet
  <2>2. CASE UpdateConfig
    BY <2>2, NormalizeResult, LedgerType, LedgerAssumption
    DEF UpdateConfig, newLedger, LedgerSet, TypeInv, Provided
  <2>3. ASSUME NEW g \in Goroutines, Caller(g) \/ Step(g) \/ Provider(g)
        PROVE  UNCHANGED ledgers
    <3>1. CASE Caller(g)
      BY <3>1 DEF Caller, ValidateTransaction, ValidateTransactionLegacy, Begin, Cancel
    <3>2. CASE Step(g) \/ Provider(g)
      BY <3>2 DEF Step, Check, Skip, RejectEntry, UseCached, Miss, Request, ResolveFails,
                  Resolve, Post, Provider, ProviderAnswers, ProviderFails, ProviderPanics
    <3>. QED
      BY <2>3, <3>1, <3>2
  <2>4. CASE UNCHANGED vars
    BY <2>4 DEF vars
  <2>. QED
    BY <2>1, <2>2, <2>3, <2>4 DEF Next
<1>3. CASE UNCHANGED ledgers
  BY <1>3 DEF Provided
<1>4. ASSUME NEW x \in LedgerSet, x.rateProvider # "nil", ledgers' = Append(ledgers, x)
      PROVE  Provided'
  <2>1. \A l \in DOMAIN ledgers' :
          (l \in DOMAIN ledgers /\ ledgers'[l] = ledgers[l]) \/ ledgers'[l] = x
    BY <1>1, <1>4
  <2>. QED
    BY <1>4, <2>1 DEF Provided
<1>. QED
  BY <1>2, <1>3, <1>4

LEMMA FStep == FInv /\ [Next]_vars => FInv'
<1>. SUFFICES ASSUME FInv, [Next]_vars PROVE FInv'
  OBVIOUS
<1>1. IInv' /\ Provided' /\ TypeInv /\ TypeInv' /\ Provided
  BY IStep, ProvidedStep DEF FInv, IInv
<1>2. \A h \in Goroutines : InvOf(h) /\ FateOf(h)
  BY DEF FInv, IInv
<1>3. CASE UNCHANGED <<control, history>>
  <2>1. \A h \in Goroutines : Same(h)
    BY <1>3 DEF Same, control, history
  <2>2. \A h \in Goroutines : FateOf(h)'
    BY <1>2, <2>1, SameFate
  <2>. QED
    BY <1>1, <2>2 DEF FInv
<1>4. ASSUME NEW g \in Goroutines, Caller(g) \/ Step(g) \/ Provider(g)
      PROVE  FInv'
  <2>1. ASSUME NEW h \in Goroutines \ {g} PROVE FateOf(h)'
    BY <1>1, <1>2, <1>4, OthersSame, SameFate
  <2>2. FateOf(g)'
    <3>1. CASE ValidateTransaction(g)
      BY <1>1, <3>1, LedgerAssumption, BeginFate DEF ValidateTransaction
    <3>2. CASE ValidateTransactionLegacy(g)
      <4>1. PICK l \in DOMAIN ledgers, in \in Inputs :
              Begin(g, l, [in EXCEPT !.metadata = {}], "background")
        BY <3>2 DEF ValidateTransactionLegacy
      <4>2. /\ [in EXCEPT !.metadata = {}] \in TransactionInput
            /\ [in EXCEPT !.metadata = {}].entries = in.entries
        BY LedgerAssumption DEF TransactionInput
      <4>. QED
        BY <1>1, <4>1, <4>2, LedgerAssumption, BeginFate
    <3>3. CASE Cancel(g)
      BY <1>1, <1>2, <3>3, CancelFate
    <3>4. CASE Step(g)
      BY <1>1, <1>2, <3>4, CheckFate, SkipFate, RejectFate, UseCachedFate, MissFate,
         RequestFate, ResolveFailsFate, ResolveFate, PostFate DEF Step
    <3>5. CASE Provider(g)
      BY <1>1, <1>2, <3>5, ProviderFate
    <3>. QED
      BY <1>4, <3>1, <3>2, <3>3, <3>4, <3>5 DEF Caller
  <2>. QED
    BY <1>1, <2>1, <2>2 DEF FInv
<1>. QED
  BY <1>3, <1>4 DEF Next, NewLedger, UpdateConfig, vars

(* Every call that ended has the fate its faults gave it. *)
THEOREM FatesInductive == Spec => []FInv
BY FInit, FStep, PTL DEF Spec

(***************************************************************************)
(* What an error tells of the fault.                                       *)
(***************************************************************************)
LEMMA LoopFaultTells ==
  ASSUME TypeInv, NEW g \in Goroutines, NEW err, LoopFault(g, err)
  PROVE  /\ ofRates(err)
         /\ err.entryIndex = next[g]
         /\ next[g] \in DOMAIN builder[g].entries
         /\ err.code = "ErrRateProvider" => canceled(g) \/ answer[g].failed
         /\ err.code # "ErrRateProvider" => RateFault(g, err)
<1>1. next[g] \in Int /\ next[g] \in DOMAIN builder[g].entries
  BY DEF LoopFault, InOrder, ForeignOnes, TypeInv, TypeOK
<1>2. CASE Interrupted(g, err) \/ ProviderFault(g, err)
  BY <1>1, <1>2 DEF Interrupted, ProviderFault, rateError, NewEntryValidationError, ofRates
<1>3. CASE RateFault(g, err)
  <2>1. \/ err = rateError("ErrInvalidExchangeRate", next[g], "rate", {})
        \/ err = rateError("ErrRateDeviation", next[g], "rate", {})
    BY <1>1, <1>3, CompareFault DEF RateFault
  <2>. QED
    BY <1>1, <1>3, <2>1 DEF rateError, NewEntryValidationError, ofRates
<1>. QED
  BY <1>2, <1>3 DEF LoopFault

LEMMA ContextFaultTells ==
  ASSUME NEW g, NEW err, ContextFault(g, err)
  PROVE  ofRates(err) /\ err.entryIndex = -1 /\ err.cause = {"context"} /\ canceled(g)
BY DEF ContextFault, NewValidationError, ofRates

LEMMA StaticFaultTells ==
  ASSUME TypeInv, NEW g \in Goroutines, NEW err, StaticFault(g, err)
  PROVE  ~ofRates(err) /\ staticError(builder[g]) # NoError
<1>1. Plain(staticError(builder[g]))
  BY BuilderFields, StaticPlain DEF TypeInv
<1>. QED
  BY <1>1 DEF StaticFault, Plain, RateCodes, ofRates

(* A rate that disagrees is the only one there is for its pair. *)
LEMMA RateFaultTells ==
  ASSUME TypeInv, NEW g \in Goroutines, OneRateOf(g), NEW err, RateFault(g, err)
  PROVE  ~Agrees(current(g), builder[g].effectiveDate, answers[g],
                 builder[g].config.rateTolerance)
<1>1. PICK rate \in Decimal!Decimal :
        /\ [request |-> request(g), rate |-> rate] \in answers[g]
        /\ compareRate(current(g), next[g], rate, builder[g].config.rateTolerance) # NoError
  BY DEF RateFault
<1>2. \A a \in answers[g] : a.request = rateRequest(current(g), builder[g].effectiveDate)
                              => a.rate = rate
  BY <1>1 DEF OneRateOf, request
<1>3. next[g] \in Int /\ builder[g].effectiveDate \in TimeSet
  BY BuilderFields DEF TypeInv, TypeOK
<1>. QED
  BY <1>1, <1>2, <1>3, AgreesNot

(* The entries before the one at fault are in order, and it is not. *)
LEMMA BeforeHolds ==
  ASSUME TypeInv, NEW g \in Goroutines, InvOf(g), pc[g] # "idle", InOrder(g)
  PROVE  RatesHold(SubSeq(input[g].entries, 1, next[g] - 1), input[g].effectiveDate,
                   answers[g], configOf(g).rateTolerance)
<1>1. /\ builder[g].entries = input[g].entries
      /\ builder[g].effectiveDate = input[g].effectiveDate
      /\ builder[g].config = configOf(g)
  BY DEF InvOf, CallOf
<1>2. PICK n : n = next[g] - 1
  OBVIOUS
<1>3. PICK before : before = SubSeq(input[g].entries, 1, n)
  OBVIOUS
<1>4. /\ input[g].entries \in Seq(EntrySet) /\ next[g] \in Nat \ {0}
      /\ next[g] \in DOMAIN builder[g].entries
  BY <1>1, BuilderFields DEF TypeInv, TypeOK, InOrder, ForeignOnes
<1>5. n \in Nat /\ n <= Len(input[g].entries)
  BY <1>1, <1>2, <1>4
<1>6. \A i \in DOMAIN before : i \in DOMAIN input[g].entries /\ i < next[g]
                                 /\ before[i] = input[g].entries[i]
  BY <1>2, <1>3, <1>4, <1>5
<1>7. ASSUME NEW i \in DOMAIN before, foreign(before[i])
      PROVE  Agrees(before[i], input[g].effectiveDate, answers[g], configOf(g).rateTolerance)
  BY <1>1, <1>6, <1>7 DEF InOrder, ForeignOnes
<1>8. RatesHold(before, input[g].effectiveDate, answers[g], configOf(g).rateTolerance)
  BY <1>7 DEF RatesHold, foreign
<1>. QED
  BY <1>2, <1>3, <1>8

LEMMA FaultyDisagrees ==
  ASSUME TypeInv, NEW g \in Goroutines, InvOf(g), OneRateOf(g), pc[g] # "idle", InOrder(g),
         NEW err, RateFault(g, err)
  PROVE  ~RatesHold(<<input[g].entries[next[g]]>>, input[g].effectiveDate,
                    answers[g], configOf(g).rateTolerance)
<1>1. /\ builder[g].entries = input[g].entries
      /\ builder[g].effectiveDate = input[g].effectiveDate
      /\ builder[g].config = configOf(g)
  BY DEF InvOf, CallOf
<1>2. PICK e : e = input[g].entries[next[g]]
  OBVIOUS
<1>3. ~Agrees(e, input[g].effectiveDate, answers[g], configOf(g).rateTolerance)
  BY <1>1, <1>2, RateFaultTells DEF current
<1>4. foreign(e)
  BY <1>1, <1>2 DEF InOrder, ForeignOnes
<1>5. ~RatesHold(<<e>>, input[g].effectiveDate, answers[g], configOf(g).rateTolerance)
  BY <1>3, <1>4 DEF RatesHold, foreign
<1>. QED
  BY <1>2, <1>5

LEMMA FirstFaultFromInv == FInv => RejectionNamesFirstFault
<1>. SUFFICES ASSUME FInv PROVE RejectionNamesFirstFault
  OBVIOUS
<1>. DEFINE holds(g, es) == RatesHold(es, input[g].effectiveDate, answers[g],
                                      configOf(g).rateTolerance)
<1>1. ASSUME NEW g \in Goroutines, Failed(g), asked[g] # <<>>
      PROVE  LET err == result[g].err
             IN  /\ err.entryIndex \in DOMAIN input[g].entries
                 /\ holds(g, SubSeq(input[g].entries, 1, err.entryIndex - 1))
                 /\ err.code \in {"ErrRateDeviation", "ErrInvalidExchangeRate"}
                      => ~holds(g, <<input[g].entries[err.entryIndex]>>)
                 /\ err.code = "ErrRateProvider" => canceled(g) \/ answer[g].failed
  <2>. PICK err : err = result[g].err
    OBVIOUS
  <2>1. TypeInv /\ InvOf(g) /\ FateOf(g) /\ pc[g] # "idle"
    BY <1>1 DEF FInv, IInv, Failed
  <2>2. /\ builder[g].entries = input[g].entries
        /\ builder[g].effectiveDate = input[g].effectiveDate
        /\ builder[g].config = configOf(g)
    BY <2>1 DEF InvOf, CallOf
  <2>3. LoopFault(g, err) /\ InOrder(g)
    BY <1>1, <2>1 DEF FateOf, EndOf, Fault, LoopFault
  <2>4. /\ err.entryIndex = next[g]
        /\ next[g] \in DOMAIN input[g].entries
        /\ err.code = "ErrRateProvider" => canceled(g) \/ answer[g].failed
        /\ err.code # "ErrRateProvider" => RateFault(g, err)
    BY <2>1, <2>2, <2>3, LoopFaultTells
  <2>5. holds(g, SubSeq(input[g].entries, 1, next[g] - 1))
    BY <2>1, <2>3, BeforeHolds
  <2>6. ASSUME RateFault(g, err) PROVE ~holds(g, <<input[g].entries[next[g]]>>)
    BY <2>1, <2>3, <2>6, FaultyDisagrees DEF FateOf
  <2>. HIDE DEF holds
  <2>. QED
    BY <2>4, <2>5, <2>6
<1>. QED
  BY <1>1 DEF RejectionNamesFirstFault

(* A rejection over rates is for the first foreign entry at fault: those   *)
(* before it agree with the provider, and it does not, or its request      *)
(* failed or was canceled.                                                 *)
THEOREM FirstFaultNamed == Spec => []RejectionNamesFirstFault
BY FatesInductive, FirstFaultFromInv, PTL

(***************************************************************************)
(* Two calls of one input under one configuration.                         *)
(***************************************************************************)
LEMMA SameCall ==
  ASSUME FInv, NEW g \in Goroutines, NEW h \in Goroutines,
         pc[g] # "idle", pc[h] # "idle", input[g] = input[h], configOf(g) = configOf(h)
  PROVE  /\ builder[g].id = builder[h].id
         /\ builder[g].effectiveDate = builder[h].effectiveDate
         /\ builder[g].isAdjustingEvent = builder[h].isAdjustingEvent
         /\ builder[g].entries = builder[h].entries
         /\ builder[g].metadata = builder[h].metadata
         /\ builder[g].config = builder[h].config
         /\ staticError(builder[g]) = staticError(builder[h])
<1>1. /\ builder[g].id = builder[h].id
      /\ builder[g].effectiveDate = builder[h].effectiveDate
      /\ builder[g].isAdjustingEvent = builder[h].isAdjustingEvent
      /\ builder[g].entries = builder[h].entries
      /\ builder[g].metadata = builder[h].metadata
      /\ builder[g].config = builder[h].config
  BY DEF FInv, IInv, InvOf, CallOf
<1>. QED
  BY <1>1, SameStatic

LEMMA RefusalsFromInv == FInv => RefusalsStand
<1>. SUFFICES ASSUME FInv, NEW g \in Goroutines, NEW h \in Goroutines, Again(g, h), Failed(g)
              PROVE  /\ ~ofRates(result[g].err) =>
                          result[h].err = result[g].err \/ result[h].err.cause = {"context"}
                     /\ ofRates(result[g].err) /\ result[g].err.entryIndex # -1 =>
                          result[h].err = NoError \/ ofRates(result[h].err)
  BY DEF RefusalsStand
<1>1. /\ TypeInv /\ FateOf(g) /\ FateOf(h)
      /\ pc[g] = "returned" /\ pc[h] = "returned"
  BY DEF FInv, IInv, Again
<1>2. staticError(builder[g]) = staticError(builder[h])
  BY <1>1, SameCall DEF Again, configOf
<1>3. Fault(g, result[g].err)
  BY DEF FInv, FateOf, EndOf
<1>4. \/ result[h].err = NoError /\ staticError(builder[h]) = NoError
      \/ Fault(h, result[h].err)
  BY <1>1 DEF FateOf, EndOf, Succeeded, Failed
<1>5. ASSUME ~ofRates(result[g].err)
      PROVE  result[h].err = result[g].err \/ result[h].err.cause = {"context"}
  <2>1. StaticFault(g, result[g].err)
    BY <1>1, <1>3, <1>5, ContextFaultTells, LoopFaultTells DEF Fault
  <2>2. ContextFault(h, result[h].err) \/ StaticFault(h, result[h].err)
    BY <1>2, <1>4, <2>1 DEF StaticFault, Fault, LoopFault, InOrder
  <2>. QED
    BY <1>2, <2>1, <2>2, ContextFaultTells DEF StaticFault
<1>6. ASSUME ofRates(result[g].err), result[g].err.entryIndex # -1
      PROVE  result[h].err = NoError \/ ofRates(result[h].err)
  <2>1. LoopFault(g, result[g].err)
    BY <1>1, <1>3, <1>6, ContextFaultTells, StaticFaultTells DEF Fault
  <2>2. ~StaticFault(h, result[h].err)
    BY <1>2, <2>1 DEF StaticFault, LoopFault, InOrder
  <2>. QED
    BY <1>1, <1>4, <2>2, ContextFaultTells, LoopFaultTells DEF Fault
<1>. QED
  BY <1>5, <1>6

(* A refusal that no provider had a part in is what the same input gets    *)
(* from the same ledger again, unless the context ends the call first; and *)
(* an input that got as far as its rates is refused for nothing else.      *)
THEOREM RefusalsRepeat == Spec => []RefusalsStand
BY FatesInductive, RefusalsFromInv, PTL

(* Two sequences without repetition over the same elements, in an order    *)
(* that only one of two elements can come first in, are equal.             *)
LEMMA SameOrder ==
  ASSUME NEW S, NEW s \in Seq(S), NEW t \in Seq(S), NEW R,
         \A i, j \in DOMAIN s : s[i] = s[j] => i = j,
         \A i, j \in DOMAIN t : t[i] = t[j] => i = j,
         {s[i] : i \in DOMAIN s} = {t[i] : i \in DOMAIN t},
         \A i, j \in DOMAIN s : i < j => <<s[i], s[j]>> \in R,
         \A i, j \in DOMAIN t : i < j => <<t[i], t[j]>> \in R,
         \A x, y \in S : ~(<<x, y>> \in R /\ <<y, x>> \in R)
  PROVE  s = t
<1>. DEFINE differ == {i \in DOMAIN s : i \notin DOMAIN t \/ s[i] # t[i]}
<1>1. /\ \A i \in DOMAIN s : \E k \in DOMAIN t : t[k] = s[i]
      /\ \A i \in DOMAIN t : \E k \in DOMAIN s : s[k] = t[i]
  <2>1. ASSUME NEW i \in DOMAIN s PROVE \E k \in DOMAIN t : t[k] = s[i]
    <3>1. s[i] \in {t[k] : k \in DOMAIN t}
      OBVIOUS
    <3>. QED
      BY <3>1
  <2>2. ASSUME NEW i \in DOMAIN t PROVE \E k \in DOMAIN s : s[k] = t[i]
    <3>1. t[i] \in {s[k] : k \in DOMAIN s}
      OBVIOUS
    <3>. QED
      BY <3>1
  <2>. QED
    BY <2>1, <2>2
<1>2. CASE differ = {}
  <2>1. \A i \in DOMAIN s : i \in DOMAIN t /\ s[i] = t[i]
    BY <1>2
  <2>2. DOMAIN t \subseteq DOMAIN s
    BY <1>1, <2>1
  <2>. QED
    BY <2>1, <2>2
<1>3. CASE differ # {}
  <2>1. differ \subseteq Nat
    OBVIOUS
  <2>2. PICK i \in differ : \A j \in differ : <<j, i>> \notin OpToRel(<, Nat)
    BY <1>3, <2>1, WFMin, NatLessThanWellFounded, Zenon
  <2>3. \A j \in DOMAIN s : j < i => j \in DOMAIN t /\ s[j] = t[j]
    BY <2>1, <2>2 DEF OpToRel
  <2>4. PICK k \in DOMAIN t : t[k] = s[i]
    BY <1>1
  <2>5. k > i
    <3>1. i \in DOMAIN s /\ i \in Nat /\ k \in Nat /\ (i \in DOMAIN t => s[i] # t[i])
      OBVIOUS
    <3>2. k # i
      BY <2>4, <3>1
    <3>3. ~(k < i)
      <4>1. SUFFICES ASSUME k < i PROVE FALSE
        OBVIOUS
      <4>2. k \in DOMAIN s
        BY <3>1, <4>1
      <4>3. s[k] = s[i]
        BY <2>3, <2>4, <4>1, <4>2
      <4>. QED
        BY <3>1, <4>1, <4>2, <4>3
    <3>. QED
      BY <3>1, <3>2, <3>3
  <2>6. i \in DOMAIN t /\ t[i] # s[i] /\ i \in DOMAIN s
    BY <2>1, <2>4, <2>5
  <2>7. PICK m \in DOMAIN s : s[m] = t[i]
    BY <1>1, <2>6
  <2>8. m > i
    <3>1. m # i /\ m \in Nat /\ i \in Nat
      BY <2>6, <2>7
    <3>2. ~(m < i)
      BY <2>3, <2>6, <2>7, <3>1
    <3>. QED
      BY <3>1, <3>2
  <2>9. <<t[i], s[i]>> \in R /\ <<s[i], t[i]>> \in R
    BY <2>4, <2>5, <2>6, <2>7, <2>8
  <2>. QED
    BY <2>6, <2>9
<1>. QED
  BY <1>2, <1>3

LEMMA SameRequests ==
  ASSUME FInv, NEW g \in Goroutines, NEW h \in Goroutines,
         builder[g].entries = builder[h].entries,
         builder[g].effectiveDate = builder[h].effectiveDate,
         sent(g) = sent(h)
  PROVE  asked[g] = asked[h]
<1>. DEFINE R == {p \in RequestSet \X RequestSet : Before(g, p[1], p[2])}
<1>1. TypeInv /\ asked[g] \in Seq(RequestSet) /\ asked[h] \in Seq(RequestSet)
  BY DEF FInv, IInv, TypeInv, TypeOK
<1>2. /\ \A i, j \in DOMAIN asked[g] : asked[g][i] = asked[g][j] => i = j
      /\ \A i, j \in DOMAIN asked[h] : asked[h][i] = asked[h][j] => i = j
  BY DEF FInv, IInv, InvOf, OnceOf
<1>3. \A r, s : Before(g, r, s) <=> Before(h, r, s)
  BY DEF Before, requestAt
<1>4. /\ \A i, j \in DOMAIN asked[g] : i < j => Before(g, asked[g][i], asked[g][j])
      /\ \A i, j \in DOMAIN asked[h] : i < j => Before(g, asked[h][i], asked[h][j])
  BY <1>3 DEF FInv, FateOf, OrderOf
<1>5. \A x, y \in RequestSet : Before(g, x, y) <=> <<x, y>> \in R
  OBVIOUS
<1>6. ASSUME NEW x \in RequestSet, NEW y \in RequestSet, Before(g, x, y), Before(g, y, x)
      PROVE  FALSE
  <2>1. PICK k \in DOMAIN builder[g].entries :
          requestAt(g, k) = x /\ \A m \in 1 .. k : requestAt(g, m) # y
    BY <1>6 DEF Before
  <2>2. PICK n \in DOMAIN builder[g].entries :
          requestAt(g, n) = y /\ \A m \in 1 .. n : requestAt(g, m) # x
    BY <1>6 DEF Before
  <2>3. k \in 1 .. n \/ n \in 1 .. k
    BY <1>1, BuilderFields DEF TypeInv
  <2>. QED
    BY <2>1, <2>2, <2>3
<1>7. /\ \A i, j \in DOMAIN asked[g] : i < j => <<asked[g][i], asked[g][j]>> \in R
      /\ \A i, j \in DOMAIN asked[h] : i < j => <<asked[h][i], asked[h][j]>> \in R
  BY <1>1, <1>4, <1>5
<1>8. \A x, y \in RequestSet : ~(<<x, y>> \in R /\ <<y, x>> \in R)
  BY <1>5, <1>6
<1>. HIDE DEF R
<1>. QED
  BY <1>1, <1>2, <1>7, <1>8, SameOrder DEF sent

(* The entry one call rejected for its rate is one the other could not     *)
(* have got past.                                                          *)
LEMMA NoneGetsPast ==
  ASSUME FInv, NEW g \in Goroutines, NEW h \in Goroutines,
         builder[g].entries = builder[h].entries,
         builder[g].effectiveDate = builder[h].effectiveDate,
         builder[g].config = builder[h].config,
         \A a \in answers[g], b \in answers[h] : a.request = b.request => a.rate = b.rate,
         InOrder(g), NEW err, RateFault(g, err)
  PROVE  ~Succeeded(h) /\ (InOrder(h) => next[h] <= next[g])
<1>1. PICK rate \in Decimal!Decimal :
        /\ [request |-> request(g), rate |-> rate] \in answers[g]
        /\ compareRate(current(g), next[g], rate, builder[g].config.rateTolerance) # NoError
  BY DEF RateFault
<1>2. \A b \in answers[h] : b.request = rateRequest(current(g), builder[g].effectiveDate)
                              => b.rate = rate
  <2>1. PICK a : a = [request |-> request(g), rate |-> rate]
    OBVIOUS
  <2>2. a \in answers[g] /\ a.request = request(g) /\ a.rate = rate
    BY <1>1, <2>1
  <2>. QED
    BY <2>2 DEF request
<1>3. next[g] \in Int /\ builder[g].effectiveDate \in TimeSet
  BY BuilderFields DEF FInv, IInv, TypeInv, TypeOK
<1>4. ~Agrees(current(g), builder[g].effectiveDate, answers[h], builder[g].config.rateTolerance)
  BY <1>1, <1>2, <1>3, AgreesNot
<1>5. ~Agrees(builder[h].entries[next[g]], builder[h].effectiveDate, answers[h],
              builder[h].config.rateTolerance)
  BY <1>4 DEF current
<1>6. foreign(builder[h].entries[next[g]]) /\ next[g] \in DOMAIN builder[h].entries
      /\ next[g] \in ForeignOnes(h)
  BY DEF InOrder, ForeignOnes
<1>7. ~Succeeded(h)
  <2>1. SUFFICES ASSUME Succeeded(h) PROVE FALSE
    OBVIOUS
  <2>2. RatesHold(input[h].entries, input[h].effectiveDate, answers[h], configOf(h).rateTolerance)
    BY <2>1 DEF FInv, IInv, InvOf, ResultOf
  <2>3. /\ builder[h].entries = input[h].entries
        /\ builder[h].effectiveDate = input[h].effectiveDate
        /\ builder[h].config = configOf(h)
    BY <2>1 DEF FInv, IInv, InvOf, CallOf, Succeeded
  <2>. QED
    BY <1>5, <1>6, <2>2, <2>3 DEF RatesHold, foreign
<1>8. ASSUME InOrder(h) PROVE next[h] <= next[g]
  <2>1. ~(next[g] < next[h])
    BY <1>5, <1>6, <1>8 DEF InOrder
  <2>. QED
    BY <2>1 DEF FInv, IInv, TypeInv, TypeOK
<1>. QED
  BY <1>7, <1>8

LEMMA DeterministicFromInv == FInv => Deterministic
<1>. SUFFICES ASSUME FInv, NEW g \in Goroutines, NEW h \in Goroutines,
                     Undisturbed(g), Undisturbed(h),
                     input[g] = input[h], configOf(g) = configOf(h),
                     \A a \in answers[g], b \in answers[h] : a.request = b.request => a.rate = b.rate
              PROVE  /\ result[g].err = result[h].err
                     /\ [result[g].tx EXCEPT !.postedAt = 0] = [result[h].tx EXCEPT !.postedAt = 0]
                     /\ asked[g] = asked[h]
  BY DEF Deterministic
<1>1. /\ pc[g] = "returned" /\ ~canceled(g) /\ ~answer[g].failed
      /\ pc[h] = "returned" /\ ~canceled(h) /\ ~answer[h].failed
      /\ TypeInv /\ FateOf(g) /\ FateOf(h)
  BY DEF Undisturbed, FInv, IInv
<1>2. /\ builder[g].id = builder[h].id
      /\ builder[g].effectiveDate = builder[h].effectiveDate
      /\ builder[g].isAdjustingEvent = builder[h].isAdjustingEvent
      /\ builder[g].entries = builder[h].entries
      /\ builder[g].metadata = builder[h].metadata
      /\ builder[g].config = builder[h].config
      /\ staticError(builder[g]) = staticError(builder[h])
  BY <1>1, SameCall
<1>3. \A b \in answers[h], a \in answers[g] : b.request = a.request => b.rate = a.rate
  BY Zenon
<1>4. \A x \in {g, h} :
        \/ Succeeded(x) /\ staticError(builder[x]) = NoError
        \/ /\ Failed(x) /\ result[x].tx = NoTransaction
           /\ \/ asked[x] = <<>> /\ StaticFault(x, result[x].err)
              \/ InOrder(x) /\ RateFault(x, result[x].err)
  BY <1>1
  DEF FateOf, EndOf, Succeeded, Failed, Fault, LoopFault, ContextFault, Interrupted, ProviderFault
<1>5. CASE staticError(builder[g]) # NoError
  BY <1>2, <1>4, <1>5 DEF StaticFault, InOrder
<1>6. CASE staticError(builder[g]) = NoError
  <2>1. \A x \in {g, h} :
          \/ Succeeded(x)
          \/ result[x].tx = NoTransaction /\ InOrder(x) /\ RateFault(x, result[x].err)
    BY <1>2, <1>4, <1>6 DEF StaticFault
  <2>2. CASE Succeeded(g) /\ Succeeded(h)
    <3>1. /\ result[g].err = NoError /\ result[h].err = NoError
          /\ sent(g) = wanted(g, Len(builder[g].entries) + 1)
          /\ sent(h) = wanted(h, Len(builder[h].entries) + 1)
      BY <1>1, <2>2 DEF FateOf, EndOf, Succeeded
    <3>2. sent(g) = sent(h)
      BY <1>2, <3>1 DEF wanted, ForeignOnes, requestAt
    <3>3. asked[g] = asked[h]
      BY <1>2, <3>2, SameRequests
    <3>4. PICK at_g \in Times : result[g].tx = Transaction(builder[g], builder[g].entries, at_g)
      BY <2>2 DEF FInv, IInv, InvOf, ResultOf
    <3>5. PICK at_h \in Times : result[h].tx = Transaction(builder[h], builder[h].entries, at_h)
      BY <2>2 DEF FInv, IInv, InvOf, ResultOf
    <3>6. [result[g].tx EXCEPT !.postedAt = 0] = [result[h].tx EXCEPT !.postedAt = 0]
      BY <1>2, <3>4, <3>5 DEF Transaction
    <3>. QED
      BY <3>1, <3>3, <3>6
  <2>3. ASSUME Succeeded(g) PROVE ~(InOrder(h) /\ RateFault(h, result[h].err))
    BY <1>2, <1>3, <2>3, NoneGetsPast
  <2>4. ASSUME Succeeded(h) PROVE ~(InOrder(g) /\ RateFault(g, result[g].err))
    BY <1>2, <2>4, NoneGetsPast
  <2>5. CASE /\ InOrder(g) /\ RateFault(g, result[g].err)
             /\ InOrder(h) /\ RateFault(h, result[h].err)
             /\ result[g].tx = NoTransaction /\ result[h].tx = NoTransaction
    <3>1. next[g] \in Nat /\ next[h] \in Nat
      BY <1>1 DEF TypeInv, TypeOK
    <3>2. next[h] <= next[g] /\ next[g] <= next[h]
      BY <1>2, <1>3, <2>5, NoneGetsPast
    <3>3. next[g] = next[h]
      BY <3>1, <3>2
    <3>4. sent(g) = sent(h)
      BY <1>2, <2>5, <3>3 DEF RateFault, wanted, ForeignOnes, requestAt
    <3>5. asked[g] = asked[h]
      BY <1>2, <3>4, SameRequests
    <3>6. current(g) = current(h) /\ request(g) = request(h)
      BY <1>2, <3>3 DEF current, request
    <3>7. result[g].err = result[h].err
      <4>1. PICK rate_g \in Decimal!Decimal :
              /\ [request |-> request(g), rate |-> rate_g] \in answers[g]
              /\ result[g].err
                   = compareRate(current(g), next[g], rate_g, builder[g].config.rateTolerance)
        BY <2>5 DEF RateFault
      <4>2. PICK rate_h \in Decimal!Decimal :
              /\ [request |-> request(h), rate |-> rate_h] \in answers[h]
              /\ result[h].err
                   = compareRate(current(h), next[h], rate_h, builder[h].config.rateTolerance)
        BY <2>5 DEF RateFault
      <4>3. rate_g = rate_h
        <5>1. PICK a : a = [request |-> request(g), rate |-> rate_g]
          OBVIOUS
        <5>2. PICK b : b = [request |-> request(h), rate |-> rate_h]
          OBVIOUS
        <5>3. /\ a \in answers[g] /\ b \in answers[h] /\ a.request = b.request
              /\ a.rate = rate_g /\ b.rate = rate_h
          BY <3>6, <4>1, <4>2, <5>1, <5>2
        <5>. QED
          BY <5>3
      <4>. QED
        BY <1>2, <3>3, <3>6, <4>1, <4>2, <4>3
    <3>. QED
      BY <2>5, <3>5, <3>7
  <2>. QED
    BY <2>1, <2>2, <2>3, <2>4, <2>5
<1>. QED
  BY <1>5, <1>6

(* Calls that are given the same are returned the same, but for the        *)
(* posting time, and ask the provider the same in the same order.          *)
THEOREM CallsDeterministic == Spec => []Deterministic
BY FatesInductive, DeterministicFromInv, PTL

(***************************************************************************)
(* Ledger implements AtomicLedger: an initial state maps to an initial     *)
(* state, and every step to a step or to a stutter, from the invariant     *)
(* above.                                                                  *)
(*                                                                         *)
(* AtomicLedger states its requirements with the operators of Guarantees,  *)
(* of which its instance has a copy of its own.                            *)
(***************************************************************************)
LEMMA SameSum == \A es : Atomic!functionalSum(es) = functionalSum(es)
BY Zenon
DEF functionalSum, Atomic!functionalSum, FoldLeft, Atomic!FoldLeft,
    MapThenFoldSet, Atomic!MapThenFoldSet, Max, Atomic!Max,
    Decimal!Add, Atomic!Decimal!Add, Decimal!Zero, Atomic!Decimal!Zero,
    Decimal!Dec, Atomic!Decimal!Dec, Decimal!At, Atomic!Decimal!At,
    Decimal!Pow10, Atomic!Decimal!Pow10,
    Decimal!Common, Atomic!Decimal!Common

LEMMA SameRound == \A d, n : Atomic!Decimal!RoundBank(d, n) = Decimal!RoundBank(d, n)
BY Zenon
DEF Decimal!RoundBank, Atomic!Decimal!RoundBank, Decimal!Rescale, Atomic!Decimal!Rescale,
    Decimal!HalfEven, Atomic!Decimal!HalfEven, Decimal!HalfAway, Atomic!Decimal!HalfAway,
    Decimal!Floor, Atomic!Decimal!Floor,
    Decimal!Dec, Atomic!Decimal!Dec, Decimal!At, Atomic!Decimal!At,
    Decimal!Pow10, Atomic!Decimal!Pow10

LEMMA SameDecimals ==
  /\ \A a, b : Atomic!Decimal!Mul(a, b) = Decimal!Mul(a, b)
  /\ \A a, b : Atomic!Decimal!Sub(a, b) = Decimal!Sub(a, b)
  /\ \A a : Atomic!Decimal!Abs(a) = Decimal!Abs(a)
  /\ \A a : Atomic!Decimal!IsZero(a) <=> Decimal!IsZero(a)
  /\ \A a : Atomic!Decimal!Positive(a) <=> Decimal!Positive(a)
  /\ \A a, b : Atomic!Decimal!Equal(a, b) <=> Decimal!Equal(a, b)
  /\ \A a, b : Atomic!Decimal!GreaterThan(a, b) <=> Decimal!GreaterThan(a, b)
  /\ Atomic!Decimal!One = Decimal!One
BY Zenon
DEF Decimal!Mul, Atomic!Decimal!Mul, Decimal!Sub, Atomic!Decimal!Sub,
    Decimal!Abs, Atomic!Decimal!Abs, Decimal!IsZero, Atomic!Decimal!IsZero,
    Decimal!Positive, Atomic!Decimal!Positive, Decimal!Equal, Atomic!Decimal!Equal,
    Decimal!GreaterThan, Atomic!Decimal!GreaterThan, Decimal!One, Atomic!Decimal!One,
    Decimal!Dec, Atomic!Decimal!Dec, Decimal!At, Atomic!Decimal!At,
    Decimal!Pow10, Atomic!Decimal!Pow10,
    Decimal!Common, Atomic!Decimal!Common

LEMMA SameValues ==
  /\ Atomic!NoError = NoError
  /\ Atomic!NoTransaction = NoTransaction
  /\ \A t : Atomic!UTC(t) = UTC(t)
  /\ \A at, zone : Atomic!Time(at, zone) = Time(at, zone)
  /\ \A s : Atomic!Last(s) = Last(s)
BY Zenon
DEF NoError, Atomic!NoError, NoTransaction, Atomic!NoTransaction, UTC, Atomic!UTC,
    Time, Atomic!Time, Id, Atomic!Id, Last, Atomic!Last

LEMMA SameSound == \A tx, config : Atomic!Sound(tx, config) <=> Sound(tx, config)
<1>1. \A e, c : Atomic!SoundEntry(e, c) <=> SoundEntry(e, c)
  BY SameDecimals, SameRound, Zenon DEF SoundEntry, Atomic!SoundEntry
<1>2. \A es, c : Atomic!SoundEntries(es, c) <=> SoundEntries(es, c)
  BY <1>1, SameDecimals, SameSum, Zenon DEF SoundEntries, Atomic!SoundEntries
<1>3. \A id, n : Atomic!Bounded(id, n) <=> Bounded(id, n)
  BY Zenon DEF Bounded, Atomic!Bounded
<1>4. \A d, adj, c : Atomic!InOpenPeriod(d, adj, c) <=> InOpenPeriod(d, adj, c)
  BY Zenon DEF InOpenPeriod, Atomic!InOpenPeriod
<1>. QED
  BY <1>2, <1>3, <1>4, Zenon DEF Sound, Atomic!Sound

LEMMA SameRates ==
  \A es, date, as, tolerance :
    Atomic!RatesHold(es, date, as, tolerance) <=> RatesHold(es, date, as, tolerance)
<1>1. \A e, date, as, tolerance : Atomic!Agrees(e, date, as, tolerance) <=> Agrees(e, date, as, tolerance)
  BY SameDecimals, Zenon DEF Agrees, Atomic!Agrees
<1>. QED
  BY <1>1, Zenon DEF RatesHold, Atomic!RatesHold

LEMMA SameConfig == \A config : Atomic!validateConfig(config) = validateConfig(config)
<1>1. Atomic!firstError = firstError
  BY Zenon DEF firstError, Atomic!firstError, ValidationError, Atomic!ValidationError,
     Sentinels, Atomic!Sentinels, Fields, Atomic!Fields, Causes, Atomic!Causes, NoError, Atomic!NoError
<1>. QED
  BY <1>1, Zenon DEF validateConfig, Atomic!validateConfig, failIf, Atomic!failIf,
     NoError, Atomic!NoError, ratableCurrency, Atomic!ratableCurrency, lookup, Atomic!lookup,
     validCode, Atomic!validCode, Ratable, Atomic!Ratable, Code, Atomic!Code,
     NewValidationError, Atomic!NewValidationError, Decimal!IsNegative, Atomic!Decimal!IsNegative

(***************************************************************************)
(* The state of the abstract ledger.                                       *)
(***************************************************************************)
StatusFunction == [g \in Goroutines |-> Status(g)]

LEMMA StatusStep ==
  ASSUME TypeInv, NEW g \in Goroutines, Caller(g) \/ Step(g) \/ Provider(g)
  PROVE  StatusFunction' = [StatusFunction EXCEPT ![g] = Status(g)']
<1>1. ASSUME NEW h \in Goroutines \ {g} PROVE Status(h)' = Status(h)
  BY OthersSame DEF Status, Same
<1>. QED
  BY <1>1 DEF StatusFunction

(* A step the abstract ledger does not see. *)
LEMMA Unseen ==
  ASSUME TypeInv, NEW g \in Goroutines, Step(g), Status(g)' = Status(g),
         UNCHANGED <<ledgers, ctx, target, input, asked, answers, result>>
  PROVE  UNCHANGED Atomic!vars
<1>1. StatusFunction' = StatusFunction
  BY StatusStep DEF StatusFunction
<1>. QED
  BY <1>1 DEF Atomic!vars, Atomic!call, StatusFunction

LEMMA Holds ==
  ASSUME NEW g, NEW es
  PROVE  Atomic!holds(g, es) <=>
           RatesHold(es, input[g].effectiveDate, answers[g], configOf(g).rateTolerance)
BY SameRates DEF Atomic!holds, Atomic!config, configOf

(* What needs no rates is what the static checks hold a call to. *)
LEMMA Worthy ==
  ASSUME FInv, NEW g \in Goroutines, pc[g] # "idle"
  PROVE  Atomic!worthy(g) <=> staticError(builder[g]) = NoError
<1>1. /\ builder[g].id = input[g].id
      /\ builder[g].effectiveDate = input[g].effectiveDate
      /\ builder[g].isAdjustingEvent = input[g].isAdjustingEvent
      /\ builder[g].entries = input[g].entries
      /\ builder[g].metadata = input[g].metadata
      /\ builder[g].config = configOf(g)
      /\ target[g] \in DOMAIN ledgers
      /\ TypeInv
      /\ \A i \in DOMAIN input[g].entries : MadeEntry(input[g].entries[i])
  BY DEF FInv, IInv, InvOf, CallOf, FateOf, GroundOf
<1>2. configOf(g) \in NormalConfig
  BY <1>1, LedgerType DEF TypeInv, configOf
<1>3. /\ builder[g].entries \in Seq(EntrySet)
      /\ builder[g].effectiveDate \in TimeSet
  BY <1>1, BuilderFields DEF TypeInv
<1>4. staticError(builder[g]) = NoError <=> StaticOf(g)
  <2>1. ASSUME staticError(builder[g]) = NoError PROVE StaticOf(g)
    BY <1>1, <1>3, <2>1, StaticSound DEF StaticOf
  <2>2. ASSUME StaticOf(g) PROVE staticError(builder[g]) = NoError
    BY <1>1, <1>2, <1>3, <2>2, StaticComplete DEF StaticOf, NormalConfig
  <2>. QED
    BY <2>1, <2>2
<1>5. /\ UTC(input[g].effectiveDate).at = input[g].effectiveDate.at
      /\ UTC(input[g].effectiveDate).zone = "UTC"
      /\ Time(0, "UTC").zone = "UTC"
  BY <1>1, <1>3 DEF UTC, Time, TimeSet
<1>6. PICK tx :
        tx = [id |-> input[g].id, effectiveDate |-> UTC(input[g].effectiveDate),
              isAdjustingEvent |-> input[g].isAdjustingEvent, entries |-> input[g].entries,
              metadata |-> input[g].metadata, postedAt |-> Time(0, "UTC")]
  OBVIOUS
<1>7. Atomic!worthy(g) <=> Sound(tx, configOf(g))
  BY <1>6, SameSound, SameValues
  DEF Atomic!worthy, Atomic!entries, Atomic!config, configOf
<1>8. Sound(tx, configOf(g)) <=> StaticOf(g)
  BY <1>5, <1>6 DEF Sound, StaticOf, InOpenPeriod
<1>. QED
  BY <1>4, <1>7, <1>8

(***************************************************************************)
(* The steps that make ledgers and start calls.                            *)
(***************************************************************************)
LEMMA InitRefines == Init => Atomic!Init
BY DEF Init, Atomic!Init, Status

LEMMA LedgersRefine ==
  ASSUME FInv, NewLedger \/ UpdateConfig
  PROVE  Atomic!Publish
<1>1. TypeInv /\ Provided /\ ledgers \in Seq(LedgerSet)
  BY DEF FInv, IInv, TypeInv, TypeOK
<1>2. PICK config \in Configs, provider \in STRING :
        /\ validateConfig(config) = NoError /\ provider # "nil"
        /\ ledgers' = Append(ledgers, newLedger(config, provider))
        /\ UNCHANGED <<control, history>>
  <2>1. CASE NewLedger
    BY <2>1, LedgerAssumption DEF NewLedger
  <2>2. CASE UpdateConfig
    BY <1>1, <2>2, LedgerType DEF UpdateConfig, Provided, TypeInv
  <2>. QED
    BY <2>1, <2>2
<1>3. PICK x : x = newLedger(config, provider)
  OBVIOUS
<1>4. /\ x \in LedgerSet /\ x.config \in NormalConfig /\ x.rateProvider # "nil"
  BY <1>2, <1>3, NormalizeResult, LedgerAssumption DEF newLedger, LedgerSet
<1>5. /\ Len(ledgers') = Len(ledgers) + 1
      /\ \A l \in DOMAIN ledgers : ledgers'[l] = ledgers[l]
      /\ Last(ledgers') = x
  BY <1>1, <1>2, <1>3, <1>4 DEF Last
<1>6. validateConfig(x.config) = NoError
  <2>1. PICK c : c = x.config
    OBVIOUS
  <2>2. /\ c.functionalCurrency \in DOMAIN Upper \cap DOMAIN Registry
        /\ Upper[c.functionalCurrency] = c.functionalCurrency
        /\ Registry[c.functionalCurrency] # NotRatable
        /\ ~Decimal!IsNegative(c.rateTolerance)
    BY <1>4, <2>1 DEF NormalConfig
  <2>3. ratableCurrency(c.functionalCurrency) = "nil"
    BY <2>2 DEF ratableCurrency, lookup, validCode, Ratable, Code
  <2>. QED
    BY <2>1, <2>2, <2>3, ValidateConfigResult
<1>7. UNCHANGED Atomic!call
  BY <1>2 DEF control, history, Atomic!call, Status
<1>. QED
  BY <1>4, <1>5, <1>6, <1>7, SameConfig, SameValues DEF Atomic!Publish

LEMMA CallRefines ==
  ASSUME FInv, NEW g \in Goroutines, ValidateTransaction(g) \/ ValidateTransactionLegacy(g)
  PROVE  Atomic!Call(g)
<1>1. TypeInv /\ TypeOK
  BY DEF FInv, IInv, TypeInv
<1>2. PICK l, in, keys, context :
        /\ l \in DOMAIN ledgers /\ in \in Inputs /\ keys \in {in.metadata, {}}
        /\ context \in {"background", "live", "canceled"}
        /\ Begin(g, l, [in EXCEPT !.metadata = keys], context)
  <2>1. CASE ValidateTransaction(g)
    <3>1. PICK l \in DOMAIN ledgers, in \in Inputs,
               context \in {"background", "live", "canceled"} : Begin(g, l, in, context)
      BY <2>1 DEF ValidateTransaction
    <3>2. PICK keys : keys = in.metadata
      OBVIOUS
    <3>3. [in EXCEPT !.metadata = keys] = in
      BY <3>2, LedgerAssumption DEF TransactionInput
    <3>4. Begin(g, l, [in EXCEPT !.metadata = keys], context)
      BY <3>1, <3>3
    <3>. QED
      BY <3>2, <3>4, Zenon
  <2>2. CASE ValidateTransactionLegacy(g)
    BY <2>2 DEF ValidateTransactionLegacy
  <2>. QED
    BY <2>1, <2>2
<1>3. /\ pc[g] \in {"idle", "returned", "panicked"}
      /\ pc'[g] = "check"
      /\ target' = [target EXCEPT ![g] = l]
      /\ input' = [input EXCEPT ![g] = [in EXCEPT !.metadata = keys]]
      /\ ctx' = [ctx EXCEPT ![g] = context]
      /\ asked' = [asked EXCEPT ![g] = <<>>]
      /\ answers' = [answers EXCEPT ![g] = {}]
      /\ UNCHANGED <<ledgers, result>>
  BY <1>1, <1>2 DEF Begin, Ended, TypeOK
<1>4. /\ StatusFunction' = [StatusFunction EXCEPT ![g] = "deciding"]
      /\ StatusFunction[g] \in {"idle", "returned", "panicked"}
  BY <1>1, <1>3, StatusStep DEF Caller, StatusFunction, Status
<1>5. \E k \in DOMAIN ledgers, x \in Inputs : \E y \in {x.metadata, {}} :
        /\ target' = [target EXCEPT ![g] = k]
        /\ input' = [input EXCEPT ![g] = [x EXCEPT !.metadata = y]]
  BY <1>2, <1>3, Zenon
<1>. QED
  BY <1>2, <1>3, <1>4, <1>5 DEF Atomic!Call, StatusFunction

LEMMA CancelRefines ==
  ASSUME FInv, NEW g \in Goroutines, Cancel(g)
  PROVE  Atomic!Cancel(g)
<1>1. TypeInv
  BY DEF FInv, IInv
<1>2. UNCHANGED <<pc, answer>> 
  BY DEF Cancel
<1>3. StatusFunction' = StatusFunction
  BY <1>2 DEF StatusFunction, Status
<1>. QED
  BY <1>3 DEF Cancel, Atomic!Cancel, StatusFunction
(***************************************************************************)
(* The steps of the provider's traffic.                                    *)
(***************************************************************************)
(* What a call at an entry knows of it. *)
LEMMA AtEntry ==
  ASSUME FInv, NEW g \in Goroutines, pc[g] \in Loop, foreign(current(g)),
         next[g] \in DOMAIN builder[g].entries
  PROVE  /\ next[g] \in DOMAIN Atomic!entries(g)
         /\ Atomic!entries(g)[next[g]] = current(g)
         /\ Atomic!requestOf(g, next[g]) = request(g)
         /\ Atomic!isForeign(g, next[g])
         /\ Atomic!holds(g, SubSeq(Atomic!entries(g), 1, next[g] - 1))
<1>1. /\ builder[g].entries = input[g].entries
      /\ builder[g].effectiveDate = input[g].effectiveDate
      /\ TypeInv /\ InvOf(g) /\ pc[g] # "idle"
  BY DEF FInv, IInv, InvOf, CallOf, Loop, Asking
<1>2. Atomic!requestOf(g, next[g]) = request(g)
  BY <1>1, SameValues
  DEF Atomic!requestOf, Atomic!entries, request, rateRequest, current
<1>3. InOrder(g)
  BY <1>1, LoopInOrder
<1>. QED
  BY <1>1, <1>2, <1>3, BeforeHolds, Holds
  DEF Atomic!entries, Atomic!isForeign, Atomic!requestOf, foreign, current

LEMMA RequestRefines ==
  ASSUME FInv, NEW g \in Goroutines, Request(g)
  PROVE  Atomic!Ask(g)
<1>1. /\ TypeInv /\ InvOf(g)
      /\ pc[g] = "request" /\ pc[g] \in Loop /\ pc[g] # "idle" /\ pc'[g] = "provider"
      /\ asked' = [asked EXCEPT ![g] = Append(@, request(g))]
      /\ UNCHANGED <<ledgers, ctx, target, input, answers, result>>
  BY DEF Request, FInv, IInv, TypeInv, TypeOK, Loop, Asking
<1>2. next[g] \in DOMAIN builder[g].entries /\ foreign(current(g))
  BY <1>1 DEF TypeInv, AtAnEntry, InvOf, AskingOf, Asking
<1>3. PICK i : i = next[g]
  OBVIOUS
<1>4. /\ i \in DOMAIN Atomic!entries(g)
      /\ Atomic!requestOf(g, i) = request(g)
      /\ Atomic!isForeign(g, i)
      /\ Atomic!holds(g, SubSeq(Atomic!entries(g), 1, i - 1))
  BY <1>1, <1>2, <1>3, AtEntry
<1>5. Atomic!worthy(g)
  BY <1>1, Worthy DEF InvOf, CheckedOf
<1>6. \A k \in DOMAIN asked[g] : asked[g][k] # Atomic!requestOf(g, i)
  BY <1>1, <1>4 DEF InvOf, AskedOf, AskingOf, Asking
<1>7. /\ StatusFunction' = [StatusFunction EXCEPT ![g] = "asking"]
      /\ StatusFunction[g] = "deciding"
  BY <1>1, StatusStep DEF Step, StatusFunction, Status
<1>8. \E j \in DOMAIN Atomic!entries(g) :
        /\ Atomic!isForeign(g, j)
        /\ Atomic!holds(g, SubSeq(Atomic!entries(g), 1, j - 1))
        /\ \A k \in DOMAIN asked[g] : asked[g][k] # Atomic!requestOf(g, j)
        /\ asked' = [asked EXCEPT ![g] = Append(@, Atomic!requestOf(g, j))]
  BY <1>1, <1>4, <1>6, Zenon
<1>. QED
  BY <1>1, <1>5, <1>7, <1>8, Zenon DEF Atomic!Ask, StatusFunction

(* The request under way is the last one: an earlier one's pair came up    *)
(* behind the loop, where this one's did not.                              *)
LEMMA LastAsked ==
  ASSUME TypeInv, NEW g \in Goroutines, InvOf(g), FateOf(g), pc[g] = "provider"
  PROVE  Last(asked[g]) = request(g)
<1>1. /\ asked[g] \in Seq(RequestSet) /\ next[g] \in DOMAIN builder[g].entries
      /\ DOMAIN builder[g].entries \subseteq Nat
      /\ \A m, k \in DOMAIN builder[g].entries : m <= k => m \in 1 .. k
  BY BuilderFields DEF TypeInv, TypeOK, AtAnEntry, Asking
<1>2. /\ foreign(current(g)) /\ request(g) \notin wanted(g, next[g])
      /\ sent(g) = wanted(g, next[g]) \cup {request(g)}
  BY DEF InvOf, AskingOf, FateOf, SentOf, Asking, Loop
<1>3. PICK i \in DOMAIN asked[g] : asked[g][i] = request(g)
  <2>1. request(g) \in sent(g)
    BY <1>2
  <2>. QED
    BY <2>1 DEF sent
<1>4. PICK n : n = Len(asked[g])
  OBVIOUS
<1>5. n \in DOMAIN asked[g] /\ (i = n \/ i < n) /\ Last(asked[g]) = asked[g][n]
  BY <1>1, <1>3, <1>4 DEF Last
<1>6. SUFFICES ASSUME i < n, asked[g][n] # request(g) PROVE FALSE
  BY <1>3, <1>5
<1>7. asked[g][n] \in wanted(g, next[g])
  <2>1. asked[g][n] \in sent(g)
    BY <1>5 DEF sent
  <2>. QED
    BY <1>2, <1>6, <2>1
<1>8. PICK m \in ForeignOnes(g) : m < next[g] /\ requestAt(g, m) = asked[g][n]
  BY <1>7 DEF wanted
<1>9. PICK k \in DOMAIN builder[g].entries :
        requestAt(g, k) = request(g) /\ \A j \in 1 .. k : requestAt(g, j) # asked[g][n]
  <2>1. Before(g, asked[g][i], asked[g][n])
    BY <1>5, <1>6 DEF FateOf, OrderOf
  <2>. QED
    BY <1>3, <2>1 DEF Before
<1>10. k < next[g]
  <2>1. m \in DOMAIN builder[g].entries
    BY DEF ForeignOnes
  <2>2. ~(m <= k)
    BY <1>1, <1>8, <1>9, <2>1
  <2>. QED
    BY <1>1, <1>8, <2>1, <2>2
<1>11. k \in ForeignOnes(g)
  BY <1>2, <1>9 DEF ForeignOnes, requestAt, request, rateRequest, foreign
<1>12. request(g) \in wanted(g, next[g])
  BY <1>9, <1>10, <1>11 DEF wanted
<1>. QED
  BY <1>2, <1>12

LEMMA ProviderRefines ==
  ASSUME FInv, NEW g \in Goroutines, Provider(g)
  PROVE  Atomic!Answer(g)
<1>1. /\ TypeInv /\ FateOf(g) /\ InvOf(g) /\ pc[g] = "provider"
      /\ UNCHANGED <<ledgers, ctx, target, input, asked, result>>
  BY DEF Provider, ProviderAnswers, ProviderFails, ProviderPanics, history, FInv, IInv
<1>2. StatusFunction' = [StatusFunction EXCEPT ![g] = Status(g)'] /\ StatusFunction[g] = "asking"
  BY <1>1, StatusStep DEF StatusFunction, Status
<1>3. CASE ProviderAnswers(g)
  <2>1. Status(g)' = "deciding"
    BY <1>1, <1>3 DEF ProviderAnswers, Status, TypeInv, TypeOK
  <2>2. Last(asked[g]) = request(g)
    BY <1>1, LastAsked
  <2>. QED
    BY <1>1, <1>2, <1>3, <2>1, <2>2, SameValues DEF ProviderAnswers, Atomic!Answer, StatusFunction
<1>4. CASE ProviderFails(g)
  <2>1. Status(g)' = "refused" /\ UNCHANGED answers
    BY <1>1, <1>4 DEF ProviderFails, Status, TypeInv, TypeOK, history
  <2>. QED
    BY <1>1, <1>2, <2>1 DEF Atomic!Answer, StatusFunction
<1>5. CASE ProviderPanics(g)
  <2>1. Status(g)' = "panicked" /\ UNCHANGED answers
    BY <1>1, <1>5 DEF ProviderPanics, Status, TypeInv, TypeOK, history
  <2>. QED
    BY <1>1, <1>2, <2>1 DEF Atomic!Answer, StatusFunction
<1>. QED
  BY <1>3, <1>4, <1>5 DEF Provider
(***************************************************************************)
(* The decision.                                                           *)
(***************************************************************************)
LEMMA RejectionDecides ==
  ASSUME FInv, NEW g \in Goroutines, Step(g), NEW err, Return(g, err, NoTransaction),
         UNCHANGED <<ledgers, ctx, answer, history>>,
         Status(g) \in {"deciding", "refused"}, Atomic!mayReject(g, err)
  PROVE  Atomic!Decide(g)
<1>1. /\ TypeInv /\ pc'[g] = "returned"
      /\ result'[g] = [err |-> err, tx |-> NoTransaction]
      /\ result' = [result EXCEPT ![g] = result'[g]]
  BY DEF Return, FInv, IInv, TypeInv, TypeOK
<1>2. StatusFunction' = [StatusFunction EXCEPT ![g] = "returned"]
  BY <1>1, StatusStep DEF Status
<1>3. StatusFunction[g] \in {"deciding", "refused"}
  BY DEF StatusFunction
<1>4. PICK r : r = result'[g]
  OBVIOUS
<1>5. /\ r.tx = Atomic!NoTransaction /\ Atomic!mayReject(g, r.err)
      /\ result' = [result EXCEPT ![g] = r]
  BY <1>1, <1>4, SameValues
<1>. QED
  BY <1>2, <1>3, <1>4, <1>5, Zenon DEF Atomic!Decide, StatusFunction, history

(* The context, and the rules that need no provider. *)
LEMMA CheckRefines ==
  ASSUME FInv, NEW g \in Goroutines, Check(g)
  PROVE  Atomic!Decide(g) \/ UNCHANGED Atomic!vars
<1>. DEFINE error == firstError[<<validationContext(canceled(g)), staticError(builder[g])>>]
<1>1. /\ TypeInv /\ InvOf(g) /\ pc[g] = "check"
      /\ UNCHANGED <<ledgers, ctx, answer, history>>
      /\ \/ error # NoError /\ Return(g, error, NoTransaction)
         \/ pc' = [pc EXCEPT ![g] = "loop"] /\ UNCHANGED result
  BY DEF Check, FInv, IInv
<1>2. PICK err : err = error
  OBVIOUS
<1>. HIDE DEF error
<1>3. CASE UNCHANGED result /\ pc' = [pc EXCEPT ![g] = "loop"]
  <2>1. Status(g)' = Status(g)
    BY <1>1, <1>3 DEF Status, TypeInv, TypeOK
  <2>. QED
    BY <1>1, <1>3, <2>1, Unseen DEF Step, history
<1>4. CASE err # NoError /\ Return(g, err, NoTransaction)
  <2>1. /\ canceled(g) \in BOOLEAN
        /\ validationContext(canceled(g)) \in ValidationError
        /\ staticError(builder[g]) \in ValidationError
    BY <1>1, StepErrors DEF TypeInv, canceled
  <2>2. err = validationContext(canceled(g)) \/ err = staticError(builder[g])
    BY <1>2, <1>4, <2>1, FirstOf2 DEF error
  <2>3. asked[g] = <<>> /\ Status(g) = "deciding"
    BY <1>1 DEF InvOf, AskedOf, Status
  <2>4. CASE err = validationContext(canceled(g))
    <3>1. canceled(g) /\ err = NewValidationError("ErrRateProvider", "context", {"context"})
      BY <1>4, <2>4 DEF validationContext, failIf
    <3>2. Atomic!mayReject(g, err)
      BY <2>3, <3>1 DEF Atomic!mayReject, NewValidationError, canceled
    <3>. QED
      BY <1>1, <1>4, <2>3, <3>2, RejectionDecides DEF Step
  <2>5. CASE err = staticError(builder[g])
    <3>1. ~Atomic!worthy(g)
      BY <1>1, <1>4, <2>5, Worthy
    <3>2. err.code \notin {"ErrRateProvider", "ErrRateDeviation", "ErrNilRateProvider"}
      BY <1>1, <2>5, BuilderFields, StaticPlain DEF Plain, RateCodes, TypeInv
    <3>3. Atomic!mayReject(g, err)
      BY <1>4, <2>3, <3>1, <3>2, SameValues DEF Atomic!mayReject
    <3>. QED
      BY <1>1, <1>4, <2>3, <3>3, RejectionDecides DEF Step
  <2>. QED
    BY <2>2, <2>4, <2>5
<1>. QED
  BY <1>1, <1>2, <1>3, <1>4

(* A context that ended before a request. *)
LEMMA RejectRefines ==
  ASSUME FInv, NEW g \in Goroutines, RejectEntry(g)
  PROVE  Atomic!Decide(g)
<1>1. /\ TypeInv /\ InvOf(g) /\ FateOf(g) /\ pc[g] = "loop"
      /\ foreign(current(g)) /\ guardError(g) # NoError
      /\ Return(g, guardError(g), NoTransaction)
      /\ UNCHANGED <<ledgers, ctx, answer, history>>
  BY DEF RejectEntry, inLoop, FInv, IInv
<1>2. next[g] \in DOMAIN builder[g].entries /\ next[g] \in Int /\ canceled(g) \in BOOLEAN
  BY <1>1, BuilderFields DEF RejectEntry, inLoop, canceled, TypeInv, TypeOK
<1>3. canceled(g) /\ guardError(g) = rateError("ErrRateProvider", next[g], "context", {"context"})
  BY <1>1, <1>2, GuardOfLoop
<1>4. Status(g) = "deciding"
  BY <1>1 DEF Status
<1>5. Atomic!mayReject(g, guardError(g))
  BY <1>3, <1>4 DEF Atomic!mayReject, rateError, NewEntryValidationError, canceled
<1>. QED
  BY <1>1, <1>4, <1>5, RejectionDecides DEF Step
(* A turn that finds a rate: the entry disagrees with it, or is behind.    *)
LEMMA CompareRefines ==
  ASSUME FInv, NEW g \in Goroutines, Step(g), NEW rate \in Decimal!Decimal, Compare(g, rate),
         pc[g] \in Loop, Status(g) = "deciding",
         next[g] \in DOMAIN builder[g].entries, foreign(current(g)),
         [request |-> request(g), rate |-> rate] \in answers[g],
         UNCHANGED <<ledgers, ctx, answer, history>>
  PROVE  Atomic!Decide(g) \/ UNCHANGED Atomic!vars
<1>1. TypeInv /\ InvOf(g) /\ FateOf(g) /\ pc[g] # "idle" /\ next[g] \in Int
  BY DEF FInv, IInv, TypeInv, TypeOK, Loop, Asking
<1>2. PICK err : err = compareRate(current(g), next[g], rate, builder[g].config.rateTolerance)
  OBVIOUS
<1>3. \/ err # NoError /\ Return(g, err, NoTransaction)
      \/ pc' = [pc EXCEPT ![g] = "loop"] /\ UNCHANGED result
  BY <1>2 DEF Compare
<1>4. CASE pc' = [pc EXCEPT ![g] = "loop"] /\ UNCHANGED result
  <2>1. Status(g)' = Status(g)
    BY <1>1, <1>4 DEF Status, TypeInv, TypeOK
  <2>. QED
    BY <1>1, <1>4, <2>1, Unseen DEF history
<1>5. CASE err # NoError /\ Return(g, err, NoTransaction)
  <2>1. /\ err.code \in {"ErrRateDeviation", "ErrInvalidExchangeRate"}
        /\ err.entryIndex = next[g]
    <3>1. \/ err = rateError("ErrInvalidExchangeRate", next[g], "rate", {})
          \/ err = rateError("ErrRateDeviation", next[g], "rate", {})
      BY <1>1, <1>2, <1>5, CompareFault
    <3>. QED
      BY <3>1 DEF rateError, NewEntryValidationError
  <2>2. ~Agrees(current(g), builder[g].effectiveDate, answers[g], builder[g].config.rateTolerance)
    <3>1. \A a \in answers[g] : a.request = rateRequest(current(g), builder[g].effectiveDate)
                                   => a.rate = rate
      <4>1. PICK b : b = [request |-> request(g), rate |-> rate]
        OBVIOUS
      <4>2. b \in answers[g] /\ b.request = request(g) /\ b.rate = rate
        BY <4>1
      <4>. QED
        BY <1>1, <4>2 DEF FateOf, OneRateOf, request
    <3>2. builder[g].effectiveDate \in TimeSet
      BY <1>1, BuilderFields DEF TypeInv
    <3>. QED
      BY <1>1, <1>2, <1>5, <3>1, <3>2, AgreesNot
  <2>3. PICK i : i = next[g]
    OBVIOUS
  <2>4. PICK e : e = current(g)
    OBVIOUS
  <2>5. /\ i \in DOMAIN Atomic!entries(g) /\ Atomic!entries(g)[i] = e
        /\ Atomic!requestOf(g, i) = request(g)
        /\ Atomic!holds(g, SubSeq(Atomic!entries(g), 1, i - 1))
    BY <2>3, <2>4, AtEntry
  <2>6. ~Atomic!holds(g, <<e>>)
    <3>1. ~RatesHold(<<e>>, input[g].effectiveDate, answers[g], configOf(g).rateTolerance)
      BY <1>1, <2>2, <2>4 DEF RatesHold, foreign, InvOf, CallOf
    <3>. QED
      BY <3>1, Holds
  <2>7. \E a \in answers[g] : a.request = Atomic!requestOf(g, i)
    BY <2>5
  <2>8. Atomic!mayReject(g, err)
    BY <2>1, <2>3, <2>5, <2>6, <2>7, Zenon DEF Atomic!mayReject
  <2>. QED
    BY <1>5, <2>8, RejectionDecides
<1>. QED
  BY <1>3, <1>4, <1>5

LEMMA UseCachedRefines ==
  ASSUME FInv, NEW g \in Goroutines, UseCached(g)
  PROVE  Atomic!Decide(g) \/ UNCHANGED Atomic!vars
<1>1. /\ TypeInv /\ InvOf(g) /\ pc[g] = "loop" /\ foreign(current(g))
      /\ request(g) \in DOMAIN cache[g]
      /\ UNCHANGED <<ledgers, ctx, answer, history>>
  BY DEF UseCached, inLoop, FInv, IInv
<1>2. next[g] \in DOMAIN builder[g].entries
  BY <1>1, BuilderFields DEF UseCached, inLoop, TypeInv, TypeOK
<1>3. PICK rate \in Decimal!Decimal : rate = cache[g][request(g)]
  BY <1>1 DEF TypeInv, TypeOK
<1>4. [request |-> request(g), rate |-> rate] \in answers[g]
  BY <1>1, <1>3 DEF InvOf, CacheOf, Loop
<1>5. Compare(g, rate) /\ Status(g) = "deciding"
  BY <1>1, <1>3 DEF UseCached, Status
<1>. QED
  BY <1>1, <1>2, <1>4, <1>5, CompareRefines DEF Step, Loop

LEMMA ResolveRefines ==
  ASSUME FInv, NEW g \in Goroutines, Resolve(g)
  PROVE  Atomic!Decide(g) \/ UNCHANGED Atomic!vars
<1>1. /\ TypeInv /\ InvOf(g) /\ pc[g] = "resolve" /\ resolveError(g) = NoError
      /\ Compare(g, answer[g].rate)
      /\ UNCHANGED <<ledgers, ctx, answer, history>>
  BY DEF Resolve, FInv, IInv
<1>2. ~answer[g].failed /\ Status(g) = "deciding"
  <2>1. answer[g].failed \in BOOLEAN /\ next[g] \in Int /\ canceled(g) \in BOOLEAN
    BY <1>1 DEF TypeInv, TypeOK, canceled
  <2>2. ~answer[g].failed
    BY <1>1, <2>1, AnswerResult DEF resolveError
  <2>. QED
    BY <1>1, <2>2 DEF Status
<1>3. [request |-> request(g), rate |-> answer[g].rate] \in answers[g]
  BY <1>1, <1>2 DEF InvOf, AnswerOf
<1>4. /\ next[g] \in DOMAIN builder[g].entries /\ foreign(current(g))
      /\ answer[g].rate \in Decimal!Decimal
  BY <1>1 DEF TypeInv, TypeOK, AtAnEntry, InvOf, AskingOf, Asking
<1>. QED
  BY <1>1, <1>2, <1>3, <1>4, CompareRefines DEF Step, Loop, Asking

(* An error of the provider, of the context, or of both. *)
LEMMA ResolveFailsRefines ==
  ASSUME FInv, NEW g \in Goroutines, ResolveFails(g)
  PROVE  Atomic!Decide(g)
<1>1. /\ TypeInv /\ pc[g] = "resolve" /\ resolveError(g) # NoError
      /\ Return(g, resolveError(g), NoTransaction)
      /\ UNCHANGED <<ledgers, ctx, answer, history>>
      /\ next[g] \in Int /\ canceled(g) \in BOOLEAN /\ answer[g].failed \in BOOLEAN
  BY DEF ResolveFails, FInv, IInv, TypeInv, TypeOK, canceled
<1>2. resolveError(g)
        = IF answer[g].failed /\ canceled(g)
            THEN rateError("ErrRateProvider", next[g], "context", {"provider", "context"})
          ELSE IF answer[g].failed
            THEN rateError("ErrRateProvider", next[g], "rate", {"provider"})
          ELSE rateError("ErrRateProvider", next[g], "context", {"context"})
  BY <1>1, AnswerFault DEF resolveError
<1>3. answer[g].failed \/ canceled(g)
  BY <1>1, AnswerResult DEF resolveError
<1>4. PICK err : err = resolveError(g)
  OBVIOUS
<1>5. /\ err.code = "ErrRateProvider" /\ err.cause # {}
      /\ err.cause \subseteq {"context", "provider"}
      /\ "context" \in err.cause <=> canceled(g)
      /\ "provider" \in err.cause <=> answer[g].failed
  BY <1>2, <1>3, <1>4 DEF rateError, NewEntryValidationError
<1>6. Status(g) = IF answer[g].failed THEN "refused" ELSE "deciding"
  BY <1>1 DEF Status
<1>7. Atomic!mayReject(g, err)
  BY <1>5, <1>6 DEF Atomic!mayReject, canceled
<1>. QED
  BY <1>1, <1>4, <1>6, <1>7, RejectionDecides DEF Step

LEMMA SoundAfter == IInv' => SoundTransactions'
BY SoundFromInv, PTL

LEMMA PostRefines ==
  ASSUME FInv, FInv', NEW g \in Goroutines, Post(g)
  PROVE  Atomic!Decide(g)
<1>1. PICK now \in Times :
        /\ pc[g] = "loop"
        /\ Return(g, NoError, Transaction(builder[g], builder[g].entries, now))
        /\ UNCHANGED <<ledgers, ctx, answer, history>>
  BY DEF Post
<1>2. PICK r : r = result'[g]
  OBVIOUS
<1>3. /\ TypeInv /\ InvOf(g) /\ pc[g] # "idle" /\ pc'[g] = "returned"
      /\ r = [err |-> NoError, tx |-> Transaction(builder[g], builder[g].entries, now)]
      /\ result' = [result EXCEPT ![g] = r]
      /\ configOf(g)' = configOf(g)
  BY <1>1, <1>2 DEF Return, FInv, IInv, TypeInv, TypeOK, history, configOf
<1>4. /\ StatusFunction' = [StatusFunction EXCEPT ![g] = "returned"]
      /\ StatusFunction[g] = "deciding"
  BY <1>1, <1>3, StatusStep DEF Step, Status, StatusFunction
<1>5. Succeeded(g)'
  BY <1>2, <1>3 DEF Succeeded
<1>6. Sound(r.tx, configOf(g))
  <2>1. Sound(result'[g].tx, configOf(g)')
    BY <1>5, SoundAfter DEF FInv, SoundTransactions
  <2>. QED
    BY <1>2, <1>3, <2>1
<1>7. RatesHold(input[g].entries, input[g].effectiveDate, answers[g], configOf(g).rateTolerance)
  BY <1>1, <1>3, <1>5 DEF FInv, IInv, InvOf, ResultOf, history
<1>8. /\ Atomic!holds(g, Atomic!entries(g))
      /\ Atomic!Sound(r.tx, Atomic!config(g))
  BY <1>6, <1>7, Holds, SameSound DEF Atomic!entries, Atomic!config, configOf
<1>9. r.tx = [id |-> input[g].id, effectiveDate |-> Atomic!UTC(input[g].effectiveDate),
              isAdjustingEvent |-> input[g].isAdjustingEvent, postedAt |-> r.tx.postedAt,
              entries |-> Atomic!entries(g), metadata |-> input[g].metadata]
  BY <1>3, SameValues DEF InvOf, CallOf, Transaction, Atomic!entries
<1>10. Atomic!mayReturn(g, r.tx)
  BY <1>4, <1>8, <1>9 DEF Atomic!mayReturn, StatusFunction
<1>11. r.err = Atomic!NoError
  BY <1>3, SameValues
<1>. QED
  BY <1>1, <1>2, <1>3, <1>4, <1>10, <1>11 DEF Atomic!Decide, StatusFunction, history

(***************************************************************************)
(* The refinement.                                                         *)
(***************************************************************************)
LEMMA StepRefines == FInv /\ FInv' /\ [Next]_vars => [Atomic!Next]_Atomic!vars
<1>. SUFFICES ASSUME FInv, FInv', [Next]_vars PROVE Atomic!Next \/ UNCHANGED Atomic!vars
  OBVIOUS
<1>1. CASE NewLedger \/ UpdateConfig
  BY <1>1, LedgersRefine DEF Atomic!Next
<1>2. ASSUME NEW g \in Goroutines, Caller(g)
      PROVE  Atomic!Call(g) \/ Atomic!Cancel(g)
  BY <1>2, CallRefines, CancelRefines DEF Caller
<1>3. ASSUME NEW g \in Goroutines, Provider(g)
      PROVE  Atomic!Answer(g)
  BY <1>3, ProviderRefines
<1>4. ASSUME NEW g \in Goroutines, Step(g)
      PROVE  Atomic!Ask(g) \/ Atomic!Decide(g) \/ UNCHANGED Atomic!vars
  <2>1. TypeInv
    BY DEF FInv, IInv
  <2>2. CASE Skip(g) \/ Miss(g)
    <3>1. Status(g)' = Status(g)
      BY <2>1, <2>2 DEF Skip, Miss, inLoop, Status, TypeInv, TypeOK
    <3>. QED
      BY <1>4, <2>1, <2>2, <3>1, Unseen DEF Skip, Miss, history
  <2>. QED
    BY <1>4, <2>2, CheckRefines, RejectRefines, UseCachedRefines, RequestRefines,
       ResolveFailsRefines, ResolveRefines, PostRefines DEF Step
<1>5. CASE UNCHANGED vars
  BY <1>5 DEF vars, control, history, Atomic!vars, Atomic!call, Status
<1>. QED
  BY <1>1, <1>2, <1>3, <1>4, <1>5 DEF Next, Atomic!Next

(* A call is one decision, taken from its input, its ledger, the answers   *)
(* it got and its context: whatever the pipeline, the rate loop and its    *)
(* cache do, they do what AtomicLedger does in one step.                   *)
THEOREM Refinement == Spec => ImplementsAtomicLedger
<1>1. Init => Atomic!Init
  BY InitRefines
<1>2. FInv /\ FInv' /\ [Next]_vars => [Atomic!Next]_Atomic!vars
  BY StepRefines
<1>. QED
  BY <1>1, <1>2, FatesInductive, PTL DEF Spec, Atomic!Spec, ImplementsAtomicLedger
===============================================================================
