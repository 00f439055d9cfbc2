------------------------------- MODULE TxBuilder -------------------------------
(***************************************************************************)
(* The life of one TxBuilder (pkg/core/tx.go) in the goroutine that owns   *)
(* it: entries and metadata accumulate, Build may fail and be tried again, *)
(* and a successful Build finalizes it.                                    *)
(*                                                                         *)
(* Build hands control to foreign code twice: to the rate provider and to  *)
(* the clock.  When Reentrant is TRUE that code, on the same goroutine,    *)
(* may call the builder again, Build included; `stack` then holds the      *)
(* frames of the Builds under way, the innermost last.  Build has no       *)
(* context, so nothing is ever canceled.                                   *)
(***************************************************************************)
EXTENDS Guarantees

CONSTANTS
  Builders,   \* the builders the caller may start with
  Entries,    \* the entries it may add
  Metadata,   \* the metadata maps it may give, as sets of keys
  Rates,      \* the rates the provider may answer
  Times,      \* the readings of the clock
  Reentrant,  \* whether the provider and the clock call the builder
  MaxEntries, \* bound: entries in the builder
  MaxBuilds,  \* bound: calls of Build
  MaxDepth    \* bound: Builds under way at once

ASSUME TxBuilderAssumption ==
  /\ Builders \subseteq BuilderSet
  /\ \A b \in Builders : ~b.finalized /\ b.entries = <<>>
  /\ Entries \subseteq EntrySet
  /\ \A e \in Entries : MadeEntry(e)
  /\ Metadata \subseteq SUBSET IdSet
  /\ Rates \subseteq Decimal!Decimal
  /\ Times \subseteq TimeSet
  /\ Reentrant \in BOOLEAN

VARIABLES
  builder,   \* the TxBuilder
  stack,     \* the frames of the Builds under way
  \* History: no action reads it, but for the bound on builds.
  outcome,   \* how the last Build to end ended
  builds,    \* the calls of Build
  successes  \* the Builds that returned a transaction

vars == <<builder, stack, outcome, builds, successes>>

(***************************************************************************)
(* A frame: where Build is, the entry its rate loop is at, the entries it  *)
(* ranges over, its cache, what it read of the builder before the clock,   *)
(* and, for the properties, the builder at its start and its answers.      *)
(***************************************************************************)
(* Mutant: the loop starts before the first entry. *)
newFrameEarly(b) ==
  [at |-> "loop", next |-> 0, entries |-> b.entries, cache |-> emptyCache,
   adjusting |-> b.isAdjustingEvent, read |-> <<>>, start |-> b, answers |-> {}]

newFrame(b) ==
  [at |-> "loop", next |-> 1, entries |-> b.entries, cache |-> emptyCache,
   adjusting |-> b.isAdjustingEvent, read |-> <<>>, start |-> b, answers |-> {}]

top     == stack[Len(stack)]
current == top.entries[top.next]
request == rateRequest(current, builder.effectiveDate)
busy(where) == stack # <<>> /\ top.at = where

(* Who runs the caller's code: the owner between Builds, or a callback. *)
MayCall ==
  \/ stack = <<>>
  \/ Reentrant /\ (busy("provider") \/ busy("clock"))

SetTop(frame) == stack' = [stack EXCEPT ![Len(stack)] = frame]
Pop           == stack' = SubSeq(stack, 1, Len(stack) - 1)

(***************************************************************************)
(* The accumulating calls, which a finalized builder ignores.              *)
(***************************************************************************)
(* Mutant: a finalized builder takes more entries. *)
addEntryAlways(b, e) == [b EXCEPT !.entries = Append(@, e)]

addEntry(b, e) == IF b.finalized THEN b ELSE [b EXCEPT !.entries = Append(@, e)]

setAdjustingEvent(b, isAdjusting) ==
  IF b.finalized THEN b ELSE [b EXCEPT !.isAdjustingEvent = isAdjusting]

withMetadata(b, meta) ==
  IF b.finalized THEN b ELSE [b EXCEPT !.metadata = @ \cup meta]

AddEntry ==
  /\ MayCall
  /\ Len(builder.entries) < MaxEntries
  /\ \E e \in Entries : builder' = addEntry(builder, e)
  /\ UNCHANGED <<stack, outcome, builds, successes>>

SetAdjustingEvent ==
  /\ MayCall
  /\ \E isAdjusting \in BOOLEAN : builder' = setAdjustingEvent(builder, isAdjusting)
  /\ UNCHANGED <<stack, outcome, builds, successes>>

WithMetadata ==
  /\ MayCall
  /\ \E meta \in Metadata : builder' = withMetadata(builder, meta)
  /\ UNCHANGED <<stack, outcome, builds, successes>>

(***************************************************************************)
(* Build, up to the rate loop.                                             *)
(***************************************************************************)
Ended(kind, err, tx, frame) ==
  outcome' = [kind |-> kind, err |-> err, tx |-> tx,
              start |-> frame.start, answers |-> frame.answers]

(* Mutant: a finalized builder builds again. *)
buildErrorForgets(b) == staticError(b)

(* Mutant: a provider is demanded even when no rate is needed. *)
buildErrorEager(b) ==
  IF b.rateProvider = "nil"
    THEN NewValidationError("ErrNilRateProvider", "rate", {})
    ELSE staticError(b)

buildError(b) ==
  IF b.finalized
    THEN NewValidationError("ErrBuilderFinalized", "builder", {})
    ELSE staticError(b)

Build ==
  /\ MayCall
  /\ builds < MaxBuilds
  /\ Len(stack) < MaxDepth
  /\ builds' = builds + 1
  /\ \/ /\ buildError(builder) # NoError
        /\ Ended("error", buildError(builder), NoTransaction, newFrame(builder))
        /\ UNCHANGED stack
     \/ /\ buildError(builder) = NoError
        /\ stack' = Append(stack, newFrame(builder))
        /\ UNCHANGED outcome
  /\ UNCHANGED <<builder, successes>>

(***************************************************************************)
(* The rate loop of the innermost Build.                                   *)
(***************************************************************************)
(* Mutant: a failure finalizes the builder like a success. *)
FailFinalized(frame, err) ==
  /\ Ended("error", err, NoTransaction, frame)
  /\ Pop
  /\ builder' = [builder EXCEPT !.finalized = TRUE]

Fail(frame, err) ==
  /\ Ended("error", err, NoTransaction, frame)
  /\ Pop
  /\ UNCHANGED builder

inLoop == busy("loop") /\ top.next <= Len(top.entries)

guardError == rateGuard(current, top.next, FALSE, builder.rateProvider)

compareError(rate) == compareRate(current, top.next, rate, builder.config.rateTolerance)

Skip ==
  /\ inLoop
  /\ ~foreign(current)
  /\ SetTop([top EXCEPT !.next = @ + 1])
  /\ UNCHANGED <<builder, outcome, builds, successes>>

RejectEntry ==
  /\ inLoop
  /\ foreign(current)
  /\ guardError # NoError
  /\ Fail(top, guardError)
  /\ UNCHANGED <<builds, successes>>

(* A rate of the cache, or one just resolved, decides the turn. *)
Compare(frame, rate) ==
  \/ /\ compareError(rate) # NoError
     /\ Fail(frame, compareError(rate))
  \/ /\ compareError(rate) = NoError
     /\ SetTop([frame EXCEPT !.at = "loop", !.next = @ + 1])
     /\ UNCHANGED <<builder, outcome>>

UseCached ==
  /\ inLoop
  /\ foreign(current)
  /\ guardError = NoError
  /\ request \in DOMAIN top.cache
  /\ Compare(top, top.cache[request])
  /\ UNCHANGED <<builds, successes>>

AskProvider ==
  /\ inLoop
  /\ foreign(current)
  /\ guardError = NoError
  /\ request \notin DOMAIN top.cache
  /\ SetTop([top EXCEPT !.at = "provider"])
  /\ UNCHANGED <<builder, outcome, builds, successes>>

ProviderAnswers ==
  /\ busy("provider")
  /\ \E rate \in Rates :
       Compare([top EXCEPT !.cache   = store(@, request, rate),
                           !.answers = @ \cup {[request |-> request, rate |-> rate]}],
               rate)
  /\ UNCHANGED <<builds, successes>>

ProviderFails ==
  /\ busy("provider")
  /\ Fail(top, answerError(TRUE, top.next, FALSE))
  /\ UNCHANGED <<builds, successes>>

(* A panic of the provider or the clock leaves the innermost Build; the    *)
(* code around it, a callback or the owner, may recover.                   *)
Panic ==
  /\ busy("provider") \/ busy("clock")
  /\ Ended("panic", NoError, NoTransaction, top)
  /\ Pop
  /\ UNCHANGED <<builder, builds, successes>>

(***************************************************************************)
(* The transaction literal.  Go leaves open whether the operands           *)
(* b.isAdjustingEvent and b.entries are read before or after the call of   *)
(* b.now() in the same expression; the metadata is one map throughout.     *)
(***************************************************************************)
ReadClock ==
  /\ busy("loop")
  /\ top.next > Len(top.entries)
  /\ SetTop([top EXCEPT !.at = "clock", !.adjusting = builder.isAdjustingEvent,
                        !.read = builder.entries])
  /\ UNCHANGED <<builder, outcome, builds, successes>>

ClockReturns ==
  /\ busy("clock")
  /\ \E now \in Times,
        adjusting \in {top.adjusting, builder.isAdjustingEvent},
        entries \in {top.read, builder.entries} :
       Ended("transaction", NoError,
             Transaction([builder EXCEPT !.isAdjustingEvent = adjusting], entries, now), top)
  /\ builder' = [builder EXCEPT !.finalized = TRUE]
  /\ successes' = successes + 1
  /\ Pop
  /\ UNCHANGED builds

(***************************************************************************)
(* The specification.                                                      *)
(***************************************************************************)
Init ==
  /\ builder \in Builders
  /\ stack = <<>>
  /\ outcome = [kind |-> "none", err |-> NoError, tx |-> NoTransaction,
                start |-> builder, answers |-> {}]
  /\ builds = 0
  /\ successes = 0

Next ==
  \/ AddEntry \/ SetAdjustingEvent \/ WithMetadata \/ Build
  \/ Skip \/ RejectEntry \/ UseCached \/ AskProvider
  \/ ProviderAnswers \/ ProviderFails \/ Panic
  \/ ReadClock \/ ClockReturns

Spec == Init /\ [][Next]_vars

-------------------------------------------------------------------------------
(* Every variable keeps its type. *)
AnswerSet == [request : RequestSet, rate : Decimal!Decimal]
FrameOK(f) ==
  /\ f.at \in {"loop", "provider", "clock"}
  /\ f.next \in 1 .. Len(f.entries) + 1
  /\ f.entries \in Seq(EntrySet)
  /\ DOMAIN f.cache \subseteq RequestSet
  /\ f.cache \in [DOMAIN f.cache -> Decimal!Decimal]
  /\ f.adjusting \in BOOLEAN
  /\ f.read \in Seq(EntrySet)
  /\ f.start \in BuilderSet
  /\ f.answers \in SUBSET AnswerSet
TypeOK ==
  /\ builder \in BuilderSet
  /\ DOMAIN stack = 1 .. Len(stack) /\ \A d \in DOMAIN stack : FrameOK(stack[d])
  /\ outcome \in [kind : {"none", "error", "panic", "transaction"},
                  err : ValidationError, tx : TransactionSet,
                  start : BuilderSet, answers : SUBSET AnswerSet]
  /\ builds \in Nat
  /\ successes \in Nat

Succeeded == outcome.kind = "transaction"

ValidConfig(config) ==
  /\ config.functionalCurrency \in DOMAIN Registry
  /\ Registry[config.functionalCurrency] # NotRatable
  /\ ~Decimal!IsNegative(config.rateTolerance)

(* Any Transaction a builder produces satisfies the guarantees: doc.go:5.  *)
BuiltTransactionsSound ==
  Succeeded =>
    /\ ValidConfig(outcome.start.config)
    /\ Sound(outcome.tx, outcome.start.config)
    /\ RatesHold(outcome.tx.entries, outcome.tx.effectiveDate, outcome.answers,
                 outcome.start.config.rateTolerance)

(* A builder yields one transaction at most.  tx.go:93-95. *)
OneTransactionPerBuilder == successes <= 1

(* A builder whose contents keep the guarantees is rejected only for its   *)
(* rates: some foreign entry got no agreeing answer in this very Build.    *)
(* Earlier failed Builds, a nil provider nobody needs, letter case and     *)
(* time zones reject nothing.                                              *)
Worthy(b) ==
  /\ ValidConfig(b.config)
  /\ Bounded(b.id, 255)
  /\ b.effectiveDate.at # 0
  /\ \A key \in b.metadata : Bounded(key, 64)
  /\ SoundEntries(b.entries, b.config.functionalCurrency)
  /\ InOpenPeriod(b.effectiveDate, b.isAdjustingEvent, b.config)

WorthyBuildersNotRejected ==
  outcome.kind = "error" /\ Worthy(outcome.start) /\ ~outcome.start.finalized =>
    ~RatesHold(outcome.start.entries, outcome.start.effectiveDate, outcome.answers,
               outcome.start.config.rateTolerance)

(* The entries Build found in the builder are in its transaction, in front *)
(* and each of them checked, even when callbacks add more meanwhile.       *)
FoundEntriesChecked ==
  Succeeded =>
    /\ IsPrefix(outcome.start.entries, outcome.tx.entries)
    /\ SoundEntries(outcome.start.entries, outcome.start.config.functionalCurrency)
    /\ RatesHold(outcome.start.entries, outcome.start.effectiveDate, outcome.answers,
                 outcome.start.config.rateTolerance)

(* A failed or panicking Build leaves the builder as it found it, to be    *)
(* completed and tried again.  tx.go:210.                                  *)
FailedBuildKeepsBuilder ==
  [][outcome' # outcome /\ outcome'.kind \in {"error", "panic"}
       => builder' = outcome'.start]_vars

(* A finalized builder never changes.  tx.go:93-96. *)
FinalizedFrozen == [][builder.finalized => builder' = builder]_vars
===============================================================================
