-------------------------------- MODULE Ledger --------------------------------
(***************************************************************************)
(* pkg/core/ledger.go with the pipeline of tx.go and rates.go: goroutines  *)
(* that share Ledgers, replace them with UpdateConfig and validate         *)
(* transactions against them, while the rate provider answers, fails,      *)
(* hangs or panics and contexts are canceled.                              *)
(*                                                                         *)
(* A Ledger is immutable and every validation runs on a builder of its     *)
(* own, so the steps of a call are cut where something outside it can be   *)
(* observed: each reading of its context, the start and the end of each    *)
(* call of the provider, and the reading of the clock.  A provider call    *)
(* may take any time and may never end.                                    *)
(***************************************************************************)
EXTENDS Guarantees

CONSTANTS
  Goroutines,
  Configs,     \* the LedgerConfigs given to NewLedger and UpdateConfig
  Providers,   \* the rate providers given to NewLedger, "nil" among them
  Inputs,      \* the TransactionInputs
  Rates,       \* the rates the providers may answer
  Times,       \* the readings of the clocks
  MaxLedgers,  \* bound: ledgers created
  MaxCalls     \* bound: calls made by one goroutine

TransactionInput ==
  [id : IdSet, effectiveDate : TimeSet, isAdjustingEvent : BOOLEAN,
   entries : Seq(EntrySet), metadata : SUBSET IdSet]

ASSUME LedgerAssumption ==
  /\ Configs \subseteq LedgerConfig
  /\ Inputs \subseteq TransactionInput
  /\ \A in \in Inputs : \A i \in DOMAIN in.entries : MadeEntry(in.entries[i])
  /\ Rates \subseteq Decimal!Decimal
  /\ Times \subseteq TimeSet
  /\ Providers \subseteq STRING
  /\ DOMAIN Upper \subseteq STRING

VARIABLES
  ledgers,   \* the ledgers created so far; a handle is a position
  pc,        \* where each goroutine is
  ctx,       \* its context: "background", "live" or "canceled"
  builder,   \* the builder of its validation
  next,      \* the entry the rate loop is at
  cache,     \* the rates its validation has resolved
  answer,    \* what the provider returned: [failed, rate]
  result,    \* what the call returned: [err, tx]
  \* History: no action reads it, but for the bound on calls.
  calls,     \* the number of calls it has made
  target,    \* the handle of the ledger it calls
  input,     \* the input it gave
  asked,     \* the requests its call sent to the provider, in order
  answers,   \* the rates the provider gave it: a set of [request, rate]
  budget     \* how many requests it may have sent in all, once canceled

control == <<pc, ctx, builder, next, cache, answer, result>>
history == <<calls, target, input, asked, answers, budget>>
vars    == <<ledgers, control, history>>

(***************************************************************************)
(* Construction of ledgers.  A rejected configuration or provider returns  *)
(* an error and creates nothing.                                           *)
(***************************************************************************)
newLedger(config, provider) ==
  [config |-> normalizeConfig(config), rateProvider |-> provider]

NewLedger ==
  \E config \in Configs, provider \in Providers :
    /\ Len(ledgers) < MaxLedgers
    /\ validateConfig(config) = NoError
    /\ provider # "nil"
    /\ ledgers' = Append(ledgers, newLedger(config, provider))
    /\ UNCHANGED <<control, history>>

(* Mutant: the receiver is updated in place. *)
UpdateConfigInPlace ==
  \E l \in DOMAIN ledgers, config \in Configs :
    /\ validateConfig(config) = NoError
    /\ ledgers' = [ledgers EXCEPT ![l].config = normalizeConfig(config)]
    /\ UNCHANGED <<control, history>>

UpdateConfig ==
  \E l \in DOMAIN ledgers, config \in Configs :
    /\ Len(ledgers) < MaxLedgers
    /\ validateConfig(config) = NoError
    /\ ledgers' = Append(ledgers, newLedger(config, ledgers[l].rateProvider))
    /\ UNCHANGED <<control, history>>

(***************************************************************************)
(* ValidateTransaction and ValidateTransactionLegacy: a fresh builder      *)
(* takes the ledger's configuration and copies of the input.  The context  *)
(* may be canceled already, and a nil one is the background context.       *)
(***************************************************************************)
builderFor(l, in) ==
  [NewTxBuilder(in.id, in.effectiveDate, ledgers[l].config, ledgers[l].rateProvider)
     EXCEPT !.isAdjustingEvent = in.isAdjustingEvent,
            !.entries          = in.entries,
            !.metadata         = in.metadata]

Ended(g)   == pc[g] \in {"idle", "returned", "panicked"}
Running(g) == ~Ended(g)

Begin(g, l, in, context) ==
  /\ Ended(g)
  /\ calls[g] < MaxCalls
  /\ pc'        = [pc EXCEPT ![g] = "check"]
  /\ ctx'       = [ctx EXCEPT ![g] = context]
  /\ builder'   = [builder EXCEPT ![g] = builderFor(l, in)]
  /\ calls'     = [calls EXCEPT ![g] = @ + 1]
  /\ target'    = [target EXCEPT ![g] = l]
  /\ input'     = [input EXCEPT ![g] = in]
  /\ asked'     = [asked EXCEPT ![g] = <<>>]
  /\ answers'   = [answers EXCEPT ![g] = {}]
  /\ budget'    = [budget EXCEPT ![g] = 0]
  /\ UNCHANGED <<ledgers, next, cache, answer, result>>

ValidateTransaction(g) ==
  \E l \in DOMAIN ledgers, in \in Inputs, context \in {"background", "live", "canceled"} :
    Begin(g, l, in, context)

ValidateTransactionLegacy(g) ==
  \E l \in DOMAIN ledgers, in \in Inputs :
    Begin(g, l, [in EXCEPT !.metadata = {}], "background")

Cancel(g) ==
  /\ Running(g)
  /\ ctx[g] = "live"
  /\ ctx'    = [ctx EXCEPT ![g] = "canceled"]
  /\ budget' = [budget EXCEPT ![g] =
                  Len(asked[g]) + (IF pc[g] = "request" THEN 1 ELSE 0)]
  /\ UNCHANGED <<ledgers, pc, builder, next, cache, answer, result,
                 calls, target, input, asked, answers>>

(***************************************************************************)
(* The steps of build.                                                     *)
(***************************************************************************)
canceled(g) == ctx[g] = "canceled"
current(g)  == builder[g].entries[next[g]]
request(g)  == rateRequest(current(g), builder[g].effectiveDate)
inLoop(g)   == pc[g] = "loop" /\ next[g] <= Len(builder[g].entries)

Return(g, err, tx) ==
  /\ pc'     = [pc EXCEPT ![g] = "returned"]
  /\ result' = [result EXCEPT ![g] = [err |-> err, tx |-> tx]]

(* Mutant: the cache is hoisted out of the validation and shared.          *)
freshCacheShared(g) ==
  [r \in UNION {DOMAIN cache[h] : h \in Goroutines} |->
     cache[CHOOSE h \in Goroutines : r \in DOMAIN cache[h]][r]]

freshCache(g) == emptyCache

(* The context, and every check that needs no rate. *)
Check(g) ==
  LET err == firstError[<<validationContext(canceled(g)), staticError(builder[g])>>]
  IN  /\ pc[g] = "check"
      /\ \/ /\ err # NoError
            /\ Return(g, err, NoTransaction)
            /\ UNCHANGED <<next, cache>>
         \/ /\ err = NoError
            /\ pc'    = [pc EXCEPT ![g] = "loop"]
            /\ next'  = [next EXCEPT ![g] = 1]
            /\ cache' = [cache EXCEPT ![g] = freshCache(g)]
            /\ UNCHANGED result
      /\ UNCHANGED <<ledgers, ctx, builder, answer, history>>

Skip(g) ==
  /\ inLoop(g)
  /\ ~foreign(current(g))
  /\ next' = [next EXCEPT ![g] = @ + 1]
  /\ UNCHANGED <<ledgers, pc, ctx, builder, cache, answer, result, history>>

guardError(g) ==
  rateGuard(current(g), next[g], canceled(g), builder[g].rateProvider)

RejectEntry(g) ==
  /\ inLoop(g)
  /\ foreign(current(g))
  /\ guardError(g) # NoError
  /\ Return(g, guardError(g), NoTransaction)
  /\ UNCHANGED <<ledgers, ctx, builder, next, cache, answer, history>>

(* The comparison with a resolved rate ends the call or the turn. *)
Compare(g, rate) ==
  LET err == compareRate(current(g), next[g], rate, builder[g].config.rateTolerance)
  IN  \/ /\ err # NoError
         /\ Return(g, err, NoTransaction)
         /\ UNCHANGED next
      \/ /\ err = NoError
         /\ pc'   = [pc EXCEPT ![g] = "loop"]
         /\ next' = [next EXCEPT ![g] = @ + 1]
         /\ UNCHANGED result

UseCached(g) ==
  /\ inLoop(g)
  /\ foreign(current(g))
  /\ guardError(g) = NoError
  /\ request(g) \in DOMAIN cache[g]
  /\ Compare(g, cache[g][request(g)])
  /\ UNCHANGED <<ledgers, ctx, builder, cache, answer, history>>

Miss(g) ==
  /\ inLoop(g)
  /\ foreign(current(g))
  /\ guardError(g) = NoError
  /\ request(g) \notin DOMAIN cache[g]
  /\ pc' = [pc EXCEPT ![g] = "request"]
  /\ UNCHANGED <<ledgers, ctx, builder, next, cache, answer, result, history>>

(* The call reaches the provider; the context may have ended since Miss.   *)
Request(g) ==
  /\ pc[g] = "request"
  /\ pc'    = [pc EXCEPT ![g] = "provider"]
  /\ asked' = [asked EXCEPT ![g] = Append(@, request(g))]
  /\ UNCHANGED <<ledgers, ctx, builder, next, cache, answer, result,
                 calls, target, input, answers, budget>>

(***************************************************************************)
(* The provider: it returns a rate or an error, panics, or does nothing.   *)
(***************************************************************************)
ProviderAnswers(g) ==
  /\ pc[g] = "provider"
  /\ \E rate \in Rates :
       /\ answer'  = [answer EXCEPT ![g] = [failed |-> FALSE, rate |-> rate]]
       /\ answers' = [answers EXCEPT ![g] = @ \cup {[request |-> request(g), rate |-> rate]}]
  /\ pc' = [pc EXCEPT ![g] = "resolve"]
  /\ UNCHANGED <<ledgers, ctx, builder, next, cache, result,
                 calls, target, input, asked, budget>>

ProviderFails(g) ==
  /\ pc[g] = "provider"
  /\ answer' = [answer EXCEPT ![g] = [failed |-> TRUE, rate |-> Decimal!Zero]]
  /\ pc'     = [pc EXCEPT ![g] = "resolve"]
  /\ UNCHANGED <<ledgers, ctx, builder, next, cache, result, history>>

(* A panic of the provider leaves ValidateTransaction through every frame. *)
ProviderPanics(g) ==
  /\ pc[g] = "provider"
  /\ pc' = [pc EXCEPT ![g] = "panicked"]
  /\ UNCHANGED <<ledgers, ctx, builder, next, cache, answer, result, history>>

(***************************************************************************)
(* The context is read again after the provider returned; then the rate is *)
(* stored and compared, in one step that nothing can observe in between.   *)
(***************************************************************************)
resolveError(g) == answerError(answer[g].failed, next[g], canceled(g))

(* Mutant: a failed call of the provider is repeated. *)
ResolveRetries(g) ==
  /\ pc[g] = "resolve"
  /\ resolveError(g) # NoError
  /\ pc' = [pc EXCEPT ![g] = "provider"]
  /\ UNCHANGED <<ledgers, ctx, builder, next, cache, answer, result, history>>

ResolveFails(g) ==
  /\ pc[g] = "resolve"
  /\ resolveError(g) # NoError
  /\ Return(g, resolveError(g), NoTransaction)
  /\ UNCHANGED <<ledgers, ctx, builder, next, cache, answer, history>>

Resolve(g) ==
  /\ pc[g] = "resolve"
  /\ resolveError(g) = NoError
  /\ cache' = [cache EXCEPT ![g] = store(@, request(g), answer[g].rate)]
  /\ Compare(g, answer[g].rate)
  /\ UNCHANGED <<ledgers, ctx, builder, answer, history>>

(* After the last entry the clock is read, once, and the call succeeds.    *)
Post(g) ==
  /\ pc[g] = "loop"
  /\ next[g] > Len(builder[g].entries)
  /\ \E now \in Times :
       Return(g, NoError, Transaction(builder[g], builder[g].entries, now))
  /\ builder' = [builder EXCEPT ![g].finalized = TRUE]
  /\ UNCHANGED <<ledgers, ctx, next, cache, answer, history>>

(***************************************************************************)
(* The specification.                                                      *)
(***************************************************************************)
ZeroInput ==
  [id |-> Id(0, FALSE), effectiveDate |-> Time(0, "UTC"), isAdjustingEvent |-> FALSE,
   entries |-> <<>>, metadata |-> {}]

Init ==
  /\ ledgers = <<>>
  /\ pc      = [g \in Goroutines |-> "idle"]
  /\ ctx     = [g \in Goroutines |-> "background"]
  /\ builder = [g \in Goroutines |-> ZeroBuilder]
  /\ next    = [g \in Goroutines |-> 1]
  /\ cache   = [g \in Goroutines |-> emptyCache]
  /\ answer  = [g \in Goroutines |-> [failed |-> FALSE, rate |-> Decimal!Zero]]
  /\ result  = [g \in Goroutines |-> [err |-> NoError, tx |-> NoTransaction]]
  /\ calls   = [g \in Goroutines |-> 0]
  /\ target  = [g \in Goroutines |-> 0]
  /\ input   = [g \in Goroutines |-> ZeroInput]
  /\ asked   = [g \in Goroutines |-> <<>>]
  /\ answers = [g \in Goroutines |-> {}]
  /\ budget  = [g \in Goroutines |-> 0]

(* The steps the goroutine of a call makes by itself. *)
Step(g) ==
  \/ Check(g) \/ Skip(g) \/ RejectEntry(g) \/ UseCached(g) \/ Miss(g)
  \/ Request(g) \/ ResolveFails(g) \/ Resolve(g) \/ Post(g)

Provider(g) == ProviderAnswers(g) \/ ProviderFails(g) \/ ProviderPanics(g)

Caller(g) == ValidateTransaction(g) \/ ValidateTransactionLegacy(g) \/ Cancel(g)

Next ==
  \/ NewLedger
  \/ UpdateConfig
  \/ \E g \in Goroutines : Caller(g) \/ Step(g) \/ Provider(g)

Spec == Init /\ [][Next]_vars

(***************************************************************************)
(* Fairness.  The Go scheduler runs every goroutine that can run.  A       *)
(* provider need not answer, but one that honors its context (what         *)
(* interfaces.go asks of it) returns once the context is canceled.         *)
(***************************************************************************)
ProviderHonorsContext(g) == canceled(g) /\ Provider(g)

FairSpec ==
  /\ Spec
  /\ \A g \in Goroutines : WF_vars(Step(g)) /\ WF_vars(ProviderHonorsContext(g))

-------------------------------------------------------------------------------
(***************************************************************************)
(* Types.                                                                  *)
(***************************************************************************)
(* What NewLedger and UpdateConfig let into a ledger. *)
NormalConfig ==
  {c \in LedgerConfig :
     /\ c.functionalCurrency \in DOMAIN Upper \cap DOMAIN Registry
     /\ Upper[c.functionalCurrency] = c.functionalCurrency
     /\ Registry[c.functionalCurrency] # NotRatable
     /\ c.closedDate.at # 0 => c.closedDate.zone = "UTC"
     /\ ~Decimal!IsNegative(c.rateTolerance)}

LedgerSet == [config : NormalConfig, rateProvider : STRING]

(* Every variable keeps its type, and the configuration of every ledger is *)
(* valid and in canonical form.                                            *)
TypeOK ==
  /\ ledgers \in Seq(LedgerSet)
  /\ pc \in [Goroutines -> {"idle", "check", "loop", "request", "provider",
                            "resolve", "returned", "panicked"}]
  /\ ctx \in [Goroutines -> {"background", "live", "canceled"}]
  /\ builder \in [Goroutines -> BuilderSet \cup {ZeroBuilder}]
  /\ next \in [Goroutines -> Nat \ {0}]
  /\ DOMAIN cache = Goroutines
  /\ \A g \in Goroutines :
       /\ DOMAIN cache[g] \subseteq RequestSet
       /\ cache[g] \in [DOMAIN cache[g] -> Decimal!Decimal]
  /\ answer \in [Goroutines -> [failed : BOOLEAN, rate : Decimal!Decimal]]
  /\ result \in [Goroutines -> [err : ValidationError, tx : TransactionSet]]
  /\ calls \in [Goroutines -> Nat]
  /\ target \in [Goroutines -> Nat]
  /\ input \in [Goroutines -> TransactionInput]
  /\ asked \in [Goroutines -> Seq(RequestSet)]
  /\ answers \in [Goroutines -> SUBSET [request : RequestSet, rate : Decimal!Decimal]]
  /\ budget \in [Goroutines -> Nat]

(***************************************************************************)
(* The guarantees of README.md and doc.go, of a call that returned.        *)
(***************************************************************************)
Succeeded(g) == pc[g] = "returned" /\ result[g].err = NoError
Failed(g)    == pc[g] = "returned" /\ result[g].err # NoError
configOf(g)  == ledgers[target[g]].config

(* A returned transaction is the caller's input, dated in UTC, and keeps   *)
(* every rule that needs no provider under the configuration of the ledger *)
(* it was asked of, whatever UpdateConfig made of that ledger meanwhile:   *)
(* balanced, in the functional currency, and in an open period unless it   *)
(* is an adjusting event.  ValidateTransaction, TxBuilder.build.           *)
SoundTransactions ==
  \A g \in Goroutines : Succeeded(g) =>
    LET tx == result[g].tx
        in == input[g]
    IN  /\ Sound(tx, configOf(g))
        /\ tx.id = in.id
        /\ tx.effectiveDate.at = in.effectiveDate.at
        /\ tx.isAdjustingEvent = in.isAdjustingEvent
        /\ tx.entries = in.entries
        /\ tx.metadata = in.metadata

(* Every foreign entry of a returned transaction was compared with what    *)
(* the provider answered to this very call for its own pair and date, and  *)
(* agreed within the tolerance: no rate of another pair, another date or   *)
(* an earlier call stands in for it.  validateRates, resolveRate.          *)
RatesAsAnswered ==
  \A g \in Goroutines : Succeeded(g) =>
    RatesHold(result[g].tx.entries, input[g].effectiveDate, answers[g],
              configOf(g).rateTolerance)

(* The provider is asked at most once per pair in a call, and only for the *)
(* pair of some foreign entry of the input.  rates.go:26.                  *)
AskedOnceAndNeeded ==
  \A g \in Goroutines :
    /\ \A i, j \in DOMAIN asked[g] : asked[g][i] = asked[g][j] => i = j
    /\ \A i \in DOMAIN asked[g] : \E k \in DOMAIN input[g].entries :
         /\ input[g].entries[k].txCurrency = asked[g][i].base
         /\ input[g].entries[k].functionalCurrency = asked[g][i].quote
         /\ asked[g][i].base # asked[g][i].quote

(* Cancellation stops the provider traffic of a call: none at all when it  *)
(* came before the call; afterwards only the request that had passed its   *)
(* context check when it came.  rates.go:69, tx.go:317.                    *)
CancellationStopsRequests ==
  \A g \in Goroutines : canceled(g) => Len(asked[g]) <= budget[g]

(* Fail fast: the provider hears only of transactions that keep every rule *)
(* it has no part in.  tx.go:201-205.                                      *)
ProviderAskedLast ==
  \A g \in Goroutines : asked[g] # <<>> =>
    /\ Bounded(input[g].id, 255)
    /\ \A key \in input[g].metadata : Bounded(key, 64)
    /\ SoundEntries(input[g].entries, configOf(g).functionalCurrency)
    /\ InOpenPeriod(input[g].effectiveDate, input[g].isAdjustingEvent, configOf(g))

(* A rejection over rates names the first foreign entry at fault: the ones *)
(* before it agree with the provider, and it does not, or its request      *)
(* failed or was canceled.                                                 *)
RejectionNamesFirstFault ==
  \A g \in Goroutines : Failed(g) /\ asked[g] # <<>> =>
    LET err     == result[g].err
        entries == input[g].entries
        before  == SubSeq(entries, 1, err.entryIndex - 1)
        holds(es) == RatesHold(es, input[g].effectiveDate, answers[g],
                               configOf(g).rateTolerance)
    IN  /\ err.entryIndex \in DOMAIN entries
        /\ holds(before)
        /\ err.code \in {"ErrRateDeviation", "ErrInvalidExchangeRate"}
             => ~holds(<<entries[err.entryIndex]>>)
        /\ err.code = "ErrRateProvider" => canceled(g) \/ answer[g].failed

(* A zero ClosedDate disables the period check: no transaction of a ledger *)
(* without a closed date is refused for its period.  period.go:22-24.      *)
ZeroClosedDateDisablesCheck ==
  \A g \in Goroutines : Failed(g) /\ result[g].err.code = "ErrPeriodClosed" =>
    configOf(g).closedDate.at # 0

(* Two calls that give equal ledgers the same input, and whose providers   *)
(* agree, return the same, but for the posting time: nothing leaks from    *)
(* one call into another, and map order decides nothing.                   *)
Undisturbed(g) == pc[g] = "returned" /\ ~canceled(g) /\ ~answer[g].failed

Deterministic ==
  \A g, h \in Goroutines :
    /\ Undisturbed(g) /\ Undisturbed(h)
    /\ input[g] = input[h] /\ configOf(g) = configOf(h)
    /\ \A a \in answers[g], b \in answers[h] : a.request = b.request => a.rate = b.rate
    => /\ result[g].err = result[h].err
       /\ [result[g].tx EXCEPT !.postedAt = 0] = [result[h].tx EXCEPT !.postedAt = 0]
       /\ asked[g] = asked[h]

(* The two calls of a caller that tries again. *)
Again(g, h) ==
  pc[g] = "returned" /\ pc[h] = "returned" /\ input[g] = input[h] /\ target[g] = target[h]

(* A refusal that no provider had a part in stands: the same input gets    *)
(* the same error from the same ledger, unless its context ends the call   *)
(* first; and an input that got as far as its rates is never refused for   *)
(* anything else.  errors/doc.go:32-34.                                    *)
ofRates(err) ==
  \/ err.code \in {"ErrRateProvider", "ErrRateDeviation"}
  \/ err.code = "ErrInvalidExchangeRate" /\ err.field = "rate"

RefusalsStand ==
  \A g, h \in Goroutines : Again(g, h) /\ Failed(g) =>
    LET first == result[g].err
        again == result[h].err
    IN  /\ ~ofRates(first) => again = first \/ again.cause = {"context"}
        /\ ofRates(first) /\ first.entryIndex # -1 => again = NoError \/ ofRates(again)

(* Of all errors, only ErrRateProvider is gone when the caller tries again *)
(* and changes nothing (errors/doc.go:32-34, and the table below it).      *)
OnlyProviderErrorsRetryable ==
  \A g, h \in Goroutines : Again(g, h) /\ Failed(g) /\ Succeeded(h) =>
    result[g].err.code = "ErrRateProvider"

(* A ledger once created never changes, under its holders or in flight:    *)
(* UpdateConfig makes another one.                                         *)
LedgersImmutable ==
  [][\A l \in DOMAIN ledgers : l \in DOMAIN ledgers' /\ ledgers'[l] = ledgers[l]]_vars

(* A call whose context is canceled returns, even when its provider would  *)
(* not have answered.                                                      *)
CanceledCallsReturn ==
  \A g \in Goroutines : (Running(g) /\ canceled(g)) ~> Ended(g)

(* A call without foreign entries returns, neither stuck nor panicking,    *)
(* whatever its provider does when it is asked: hang, or panic, as a typed *)
(* nil does that NewLedger took for a provider (ledger.go:50).             *)
DomesticCallsReturn ==
  \A g \in Goroutines :
    (/\ Running(g)
     /\ \A i \in DOMAIN input[g].entries :
          input[g].entries[i].txCurrency = input[g].entries[i].functionalCurrency)
    ~> pc[g] = "returned"
===============================================================================
