# NomLedger in TLA+

NomLedger is a validation core for double-entry bookkeeping: a Go library that
takes transactions in memory, checks them against accounting rules and an
external source of exchange rates, and returns immutable values or structured
errors. This directory holds its specification: TLA+ modules translated from
`src/`, model-checked with TLC on small instances, and theorems about them
checked by TLAPS for every instance.

## 1. Inventory

| part | source | state | operations | talks to |
| --- | --- | --- | --- | --- |
| ledger facade | `pkg/core/ledger.go` | an immutable `Ledger`: configuration, provider, clock; shared by goroutines | `NewLedger`, `UpdateConfig`, `ValidateTransaction`, `ValidateTransactionLegacy`, `Config` | makes a `TxBuilder` of its own for each validation |
| transaction builder | `pkg/core/tx.go` | the accumulating `TxBuilder`, and whether it is finalized | `AddEntry`, `SetAdjustingEvent`, `WithMetadata`, `Build` | runs the pipeline |
| validation pipeline | `tx.go` `build` and its checks | none of its own | eight checks in a fixed order, first failure wins | entries, configuration, rates, clock |
| rate integrity | `pkg/core/rates.go` | per validation: the position in the entries and a cache of rates | `validateRates`, `validateEntryRate`, `resolveRate` | calls the `RateProvider`, reads the `Context` |
| provider | `pkg/interfaces` | the caller's | `GetRate`: answers, fails, hangs, panics, or calls back | called by the rate loop |
| clock | `pkg/core/clock.go` | the caller's; a ledger and a builder keep which one it is | `WithClock`, `WithBuilderClock`, `ClockFunc.Now` | inherited through `UpdateConfig`, called at the end of `build` |
| configuration | `pkg/core/period.go` | a value | `Validate`, `normalizeConfig` | currency registry |
| entries | `pkg/core/entry.go` | immutable values | `NewEntry`, `Entry.Validate` | rounding, money |
| currency | `pkg/currency` | a table built at init, read-only after | `Lookup`, `Round`, `NewMoney`, `Money` arithmetic | `internal/iso4217` |
| errors | `pkg/errors` | immutable values, linked by `Code` and `Cause` | `Unwrap`, 25 sentinels, rewraps in `core` | everything returns them; `errors.Is` and `errors.As` walk them |
| accounts | `pkg/core/account.go` | immutable values | `NewAccount`, `Account.Validate` | currency |
| accessors | `tx.go`, `account.go`, `currency.go` | none | `Entries`, `Metadata`, `All` | hand out copies of the slices and maps of values |
| ISO 4217 table | `internal/iso4217/table_gen.go` | generated data | `Entries` | read by `currency` at init |
| ISO 4217 generator | `internal/iso4217/gen` | the committed table, between runs | reads two lists, merges, renders, writes | a build-time program |

What is hard in this system is not its data but its seams with code it does not
control. A provider may be slow, fail, panic, never answer, or hold the builder
that called it; contexts end at any point of a call; ledgers are shared by
goroutines and replaced under them; a builder lives through failures and
retries; every comparison of decimals has a boundary. `PROJECT.json` lists these
under `hazards`, each at the line where it bites, with the properties that
would catch it going wrong.

What makes each part correct:

- *ledger*: never changes; a call in flight is judged by the configuration of
  the ledger it was asked of; calls do not influence each other.
- *pipeline*: a returned transaction keeps every rule; a rejection is for a
  rule that is broken and names the first fault; the provider comes last.
- *rates*: every foreign entry is compared with an answer of this call for its
  own pair; one request per pair; cancellation stops the requests.
- *builder*: one transaction at most, frozen after it; a failure changes
  nothing; a builder that deserves a transaction gets one.
- *entries, accounts and currency*: what is constructed revalidates; exactly what can be
  held is accepted; each rounding mode does what its name says, and what it returns
  can be held; money computed with is worth what went into it.
- *clocks*: the clock that was chosen posts, in the order of time.
- *ownership*: nobody outside can change what was checked or returned.
- *errors*: whatever was found in an error is found in what it is wrapped in.
- *generator*: a table that compiles is the whole table of the lists it names.

## 2. Modules

```
Decimals   Errors <------- ErrorChains   errors as graphs, under errors.Is
    \       /
    Currency <------------ Generator     the ISO table, and the registry of it
       |    \
       |     Money                       arithmetic of a caller, part of Amounts
     Entry
       |    \
       |     Account                     -- Amounts: one state per pure call
   Validation           the checks of build, as functions of a builder
       |
   Guarantees           what a transaction should satisfy, said independently
      /  |  \
     / Ledger  TxBuilder      the two machines that run the checks in steps
    /    |
AtomicLedger                  a call in one step; LedgerRefinement: Ledger does that

Ownership    Clocks           on their own: references, and the way of a clock

ValidationProofs <- LedgerProofs, TxBuilderProofs, AmountsProofs
OwnershipProofs, ClocksProofs, ErrorChainsProofs, GeneratorProofs
                                      on their own, as what they are about
```

- `Decimals` models `shopspring/decimal` (third party, from its use): integer
  coefficient and exponent, so that 1.5 and 1.50 are equal and yet differ in
  their scale, which `NewMoney` and `NewEntry` tell apart.
- `Errors` keeps a `ValidationError`'s sentinel, entry index, field and joined
  causes. `Operation` only feeds the message and is left out. `firstError` is
  the fail-fast idiom of the code: the first failure of a sequence of checks.
- `Currency` takes any registry (`Registry`) and any spelling of codes
  (`Upper`). Malformed, unknown and unratable codes are all in reach.
- `Entry` follows `entry.go` check by check. An identifier is its length in bytes
  and whether it holds a control character, all that the code reads of it. Both
  the plain fields and the two `Money` values are kept, because `Validate`
  compares them.
- `Validation` holds configuration, builder and the checks. A time is an instant
  and a zone; instant 0 is Go's zero time. Metadata is a set of keys.
- `Guarantees` restates the guarantees of the README and of `doc.go` without the
  code's functions: an entry's value is the rounded product, the sum is zero,
  the date is after the closed date, an answer agrees within the tolerance. The
  machines' properties are stated with it.
- `Ledger` is goroutines that call shared ledgers. A call is cut into steps where
  the world outside can see or disturb it: each reading of its context (`Check`,
  `RejectEntry`/`Miss`/`UseCached`, `Resolve`/`ResolveFails`), the start
  (`Request`) and the end (`ProviderAnswers`, `ProviderFails`,
  `ProviderPanics`) of the provider's work, and the clock (`Post`). Between two
  such points the code touches only memory of its own, so one atomic step does not hide
  anything. `Cancel` may come between any two steps, also between the check of
  the context and the request. `NewLedger` and `UpdateConfig` append to
  `ledgers`; a handle is a position in it. History variables (`target`,
  `input`, `asked`, `answers`, `budget`) are written for the properties and
  read by no action.
- `TxBuilder` is one builder and its owner. When `Reentrant` is TRUE the
  provider and the clock call the builder on the same goroutine, `Build` included, and
  `stack` holds the frames of the `Build`s under way. Go does not fix whether
  `b.entries` and `b.isAdjustingEvent` in the transaction literal are read before or after the call of
  `b.now()` in it; `ClockReturns` admits both.
- `Amounts` has one state per call of `NewEntry`, `NewAccount`, `Round`, `RoundToPrecision`
  or `GetPrecision`, with its result, next to the caller of `Money`.
- `AtomicLedger` is the promise of a `Ledger` to its callers: a call asks for rates it lacks and
  then decides, in one step, from its input, its ledger's configuration, the
  answers it got and its context. An error has to have its reason. There is no
  pipeline in it, no loop and no cache. `LedgerRefinement` maps `Ledger`'s program counter to its
  `status` and leaves all other variables as they are.
- `Ownership` has arrays and maps in two heaps, references into them, and a caller that
  keeps every reference it ever had and writes to any of them between any two
  steps. The library's steps copy where the code copies and share where it
  shares: values in a map are pointers and stay shared. `checked` is what the
  checks of `build` saw. `AddEntry` appends in place; whether Go reallocates
  cannot be seen, because no slice of a builder ever leaves it. `WithMetadata(nil)`
  does nothing and is left out.
- `Clocks` follows a clock from the options to `PostedAt`. `chosen` is what the
  caller meant, computed from the options and not by the code's loop. The checks of
  `build` are one step there that may fail.
- `ErrorChains` has a heap of errors, each linked to older ones. A foreign error may
  have an `Is` method (its class), wrap or join others, or be a nil
  `*ValidationError` in disguise. `trees` is what `errors.Is` walks. `Rewrap` is allowed on any
  `ValidationError`, more than the code asks for.
- `Money` is a caller with variables of type `Money`; `worth` counts what it put into
  them, in minor units.
- `Generator` is the program that makes the table: reading List One, reading List
  Two, checking and merging, writing, each a step at which it may fail or be
  killed, and the lists are replaced between any two. `BuildAndInit` compiles the
  file, if it is whole, and makes the registry of it. Of the header it keeps the checksum and the
  date of List One (as the list itself) and the fund codes; the checksum of List Two in it is a
  constant of `main.go`, of a document the program never reads, and says nothing of a run.
- `MCData` and the `MC` modules give the constants values.

Three operations of the machines return an error and leave no trace (`NewLedger`
and `UpdateConfig` on a bad configuration, a nil provider): they are the guards
of the actions. `TxBuilder.initErr` is left out because no option the package exports
can fail. `Mutant:` operators are faulty variants of a definition, each a bug
the code could have had; with one in place of its original the property named
for it in `PROJECT.json` fails.

## 3. Runs

| run | instance | distinct states | shows |
| --- | --- | --- | --- |
| `MCLedger.cfg` | 1 goroutine, 2 calls in a row, 15 inputs, 5 configurations, 5 rates | 38 thousand | the guarantees of success, of rejection and of cancellation; who returns; refinement |
| `MCLedgerShared.cfg` | 2 goroutines, 2 ledgers, 2 configurations, 2 inputs with two pairs each | 154 thousand (symmetric) | ledgers do not change, calls do not mix, which refusals stand; refinement |
| `MCLedgerAncient.cfg` | a date before year 1 | | finding 1 |
| `MCLedgerRetry.cfg` | 2 calls of one input | | finding 3 |
| `MCTxBuilder.cfg` | 6 builders, up to 3 entries of 5, 3 builds | 398 thousand | the builder's life |
| `MCTxBuilderReentrant.cfg` | callbacks to depth 2 | 53 thousand | what survives them |
| `MCTxBuilderCallback.cfg` | the same | | finding 2 |
| `MCAmounts.cfg` | amounts on both sides of every tie, every rule of an account; 2 variables of type `Money`, 2 currencies, 7 amounts of 4 exponents | 22 thousand (symmetric) | pure calls, arithmetic and printing of money |
| `MCOwnership.cfg` | 5 slices, 3 maps, 2 returned values | 269 thousand (symmetric) | who can write what |
| `MCClocks.cfg` | 2 goroutines, 2 ledgers, 2 options, 3 instants | 1.1 million (symmetric) | which clock posts, and when |
| `MCErrorChains.cfg` | 8 errors, 2 of them foreign | 350 thousand | nothing is lost on the way up |
| `MCGenerator.cfg` | 14 first and 8 second lists | 10 thousand | the table |

**`MCLedger`.** The inputs break each rule once, at its boundary (255 and 256
bytes, the closed date itself, a key of 65 bytes). Two calls in a row let
something of the first leak into the second. `SoundTransactions`,
`RatesAsAnswered` are the guarantees of success; `RejectionNamesFirstFault` is
what a rejection over rates means: everything before the named entry agrees,
the entry itself does not. `ProviderAskedLast`, `AskedOnceAndNeeded` and
`CancellationStopsRequests` bound what the provider hears. The tolerance is hit
exactly (0.90 against 0.91 with 0.01).

**`MCLedgerShared`.** One input has three entries of two pairs at different
rates within the tolerance, so a cache that leaks or a configuration that
changes shows. `Deterministic` compares two calls that got the same input,
configuration and answers. `RefusalsStand` compares two calls of one input on one ledger, whatever
the provider answered: what failed without the provider fails again, with the same error, unless
the context ends the call; what once got as far as the rates fails for nothing else later. Another
ledger, made by `UpdateConfig` between the two calls, is there to be confused with the first.

**Liveness.** `FairSpec`, the specification of `MCLedger.cfg`, assumes weak fairness of each goroutine's own steps
(the Go scheduler runs every goroutine that can run, and those steps never
block) and of the provider *only while the context is canceled*: this is what
`interfaces.go` asks of a provider ("should honor ctx cancellation"). Nothing is
assumed of a provider whose context lives: a call that asks it may hang, as in
the code, which has no timeout of its own. `CanceledCallsReturn` says
that cancellation frees it; `DomesticCallsReturn` that a call without foreign
entries is never at the provider's mercy, not even when it panics at every call, as a typed
nil provider does.

**Refinement.** `ImplementsAtomicLedger` is checked in both: every step of `Ledger` is a step
of `AtomicLedger` or changes nothing its callers see. It says what no invariant
here does: that an error has a reason at the moment of its return, that the
reason is the one it names, and that a request is made only when everything before it agrees.

**`MCTxBuilder`.** One builder per rule that the accumulating calls cannot mend, and
the entries and keys to break the rest. Deadlock is checked.
`WorthyBuildersNotRejected` is the completeness side: only a missing or
disagreeing rate rejects a builder whose contents keep the rules.

**`MCTxBuilderReentrant`.** With callbacks, the entries that `Build` found are still
checked and in front, and a finalized builder is frozen.
`OneTransactionPerBuilder` is not claimed here: a `Build` that a callback completes
inside another `Build` yields a second transaction.

**`MCAmounts`.** Amounts of either sign around every tie, coarser and finer than
the currency's scale, with 2, 0 and no minor units. `RoundedAmountsHeld` and `PrecisionAsHeld` compare
`Round`, `NewMoney`, `RoundToPrecision` and `GetPrecision` with each other: they
tell precision by the value, by the exponent, or not at all.
`AccountRefusalNamesFault` repairs one argument at a time and looks at what is refused then.
The amounts of `Money` include equal ones of different exponents, some finer than a minor
unit of the currency. `WorthWhatWentIn` compares the code's decimals with integers counted
outside of it.

**`MCOwnership`.** Two entries, one key and two pointers are the least that can differ; they
are permuted. Five slices are the registry's, a caller's, a builder's, a transaction's
and a copy of it.

**`MCClocks`.** The injected clock is ahead of the system's, so that the wrong one shows. Two
options let the first and the last differ, and a nil one follow another.

**`MCErrorChains`.** Eight errors are four roots (three sentinels and the context's error) and
the two or three a failing rate adds, over one of a provider, and a rewrap of them. Without the bound on foreign
errors they would fill the heap.

**`MCGenerator`.** One List One for each way to be refused, two that can be accepted with
overlapping funds, and of List Two the same. Deadlock is checked.

**Bounds.** `MaxLedgers` and `MaxCalls` bound creation and calls; two ledgers and two calls are
the least that can be confused. `MaxEntries = 3` lets a pair repeat around another entry
and a foreign entry follow a cached one. `MaxArrays`, `MaxMaps` and `MaxValues`, `MaxErrors` and
`MaxForeign`, `MaxNow` and `MaxOptions`, and `MaxUnits` of `Money` are explained above. `MaxBuilds = 3` is a failure, a success
and a try after it. `MaxDepth = 2` is a `Build` in a `Build`. Coefficients stay
below 32 bits, TLC's integers; Go's are unbounded, and the modelled operations
are exact in both.

Deadlock is off where a caller may stop after its last call (`Ledger`), where a
pure call is over when it returned (`Amounts`), and where a heap is full
(`Ownership`, `ErrorChains`).

## 4. Findings

1. *A zero closed date does not disable the period check* (`MCLedgerAncient.cfg`).
   `validatePeriod` compares the date with the zero time, 1 January of year 1,
   so an earlier date is refused with `ErrPeriodClosed`, although the
   documentation says that a zero value disables the check.
2. *A callback can put unchecked entries into a transaction*
   (`MCTxBuilderCallback.cfg`). `build` checks `b.entries`, calls the provider and
   the clock, and copies `b.entries` as they are then. `doc.go` promises the
   guarantees of any transaction of a builder. A `Ledger`'s builders are
   private and cannot be reached by a callback.
3. *Errors documented as final can be retried* (`MCLedgerRetry.cfg`). The table of
   `errors/doc.go` marks `ErrRateDeviation` and `ErrInvalidExchangeRate` as not
   retryable, which it defines as requiring another input, configuration or usage. Both are
   returned for what the provider answered to that one call, and a retry
   succeeds when it answers otherwise.

## 5. Proofs

The eight modules of proofs are checked by TLAPS to the last leaf. Each theorem
holds for every value of the constants that the assumptions admit: any set of goroutines, any
registry and spelling of codes, any configurations, inputs, amounts, rates, options and bounds.
Each inductive invariant was checked by TLC on the instance of its component's run before
it was proved.

### What is assumed

The assumptions give the constants their types, and beyond that only what the code says:

- `CurrencyAssumption`: `Upper` is idempotent, as `strings.ToUpper` is; the codes of the registry
  are in upper case and well formed, as `init` makes them; an entry of it has a number of minor
  units or none; the empty code of the zero `Money` is no code.
- `AmountsAssumption`: there is a currency with minor units. Without one nothing is ever accepted,
  and "repair the currency" would mean nothing.
- `LedgerAssumption`, `TxBuilderAssumption`: an entry a caller holds is the zero one or passes
  `Validate` (`MadeEntry`), because its fields are private and `NewEntry` is all that sets them.
  This is no article of faith: `EntriesRevalidate` proves it of `NewEntry`. A builder starts
  without entries and not finalized.
- `ClocksAssumption`: a clock of a caller's is none of the special values that stand for a nil
  option, a nil clock or the system's; and what a clock shows is some fixed number of instants
  ahead of the system's clock, so that it does not run backwards. `time.Time` promises as much of
  the system's clock; of an injected clock that jumps back nothing could be said about order.
- `OwnershipAssumption`: the contents are sequences and functions.
- `GeneratorAssumption`: a file is missing or no XML, or has the type its parser gives it: rows of
  strings, lines of codes. Nothing is assumed of what they say. "N.A." is no number.

### What is proved

| module | theorems | about |
| --- | --- | --- |
| `LedgerProofs` | `TypeCorrect`, `LedgersNeverChange`, `TransactionsSound`, `RatesChecked`, `AskedOnce`, `CancellationStops`, `FailFast` | what a successful call guarantees, and what the provider hears |
| | `FirstFaultNamed`, `RefusalsRepeat`, `CallsDeterministic`, `Refinement` | why a call failed, two calls compared, and that `Ledger` implements `AtomicLedger` |
| `TxBuilderProofs` | `TypeCorrect`, `FinalizedStays`, `FoundChecked`, `WorthyNotRejected`; without callbacks `TransactionsSound`, `OneTransaction`, `FailureKeepsBuilder` | a builder's life |
| `AmountsProofs` | `EntriesRevalidate`, `HoldableAccepted`, `RoundingIsNamed`, `RoundedIsHeld`, `PrecisionIsHeld`, `RefusalNamesFault`, `MoneyIsWorthItsInputs`, `PrintIsFaithful` | every property of the pure calls and of `Money` |
| `OwnershipProofs` | `ValuesStayAsChecked`, `ValuesNeverChange`, `CallerKeepsItsMemory` | memory |
| `ClocksProofs` | `InOrder`, `ByChosenClock` | time |
| `ErrorChainsProofs` | `UnwrapKeepsBoth`, `RewrapsMatch` | what `errors.Is` finds |
| `GeneratorProofs` | `TableKept`, `ConsistentListsPass`, `TableIsOfItsSources`, `Reproducible`, `RegistryServes` | the table, from the lists to `Lookup` |

`ValidationProofs` has the lemmas those about the pipeline rest on.

**`ValidationProofs`**, of the arithmetic. The provers know no powers, no rounding and no recursion. Induction
comes in as a fact about sets (`NatInductive`, from the well-foundedness of `<`), recursion as
the existence of a function (`NatRecursion`), which makes `Pow10` what its definition says
(`Powers`). Two decimals are then compared as whole numbers at a common exponent, where
each rounding is a statement about integers (`Measured` and the results of the roundings).

**`ValidationProofs`**, of the checks. The first failure exists and is an error; no failure means that every
check passed. Then what each check guarantees when it returns `NoError`; in
particular `ValidateResult` (a validated entry is a `SoundEntry`) and `StaticResult` (a builder
past the checks keeps every rule that needs no rate).

**`LedgerProofs`.** None of its properties is inductive: each speaks of what a call returned, or of
its requests, and nothing in it ties the builder to the input, the cache to the answers or the
position of the loop to what was compared. `IInv` says that, per goroutine: the
builder holds the caller's input and the ledger's configuration (`CallOf`);
past the checks `staticError` is `NoError` (`CheckedOf`); the cache holds answers
of this call (`CacheOf`, `AnswerOf`); the entries behind the loop agree with
them (`BehindOf`); a request is for a foreign entry whose pair is not cached,
and everything asked is cached but the request under way (`AskingOf`, `AskedOf`), which
makes requests distinct (`OnceOf`); a request in flight is in the
budget of a canceled call (`BudgetOf`). A step of one goroutine leaves the others alone
(`OthersSame`, `SameKept`), because ledgers never change (`LedgersKept`), so
each action is examined for its own goroutine only (`BeginKept` to `PostKept`).

**`LedgerProofs`**, of outcomes. `IInv` says nothing of why a call failed. `FInv` adds the fate of each
goroutine's call (`FateOf`): an error that was returned has its `Fault` (the context was canceled,
or a check that needs no provider failed, and nothing was asked; or, at a foreign entry with all
before it in order, the context, the provider or the rate was at fault); the provider gave one
rate per request (`OneRateOf`); what was asked is what the loop needed so far, no less (`SentOf`),
in the order of the entries (`OrderOf`). The three properties that look at results follow from
`FInv` without another step of the machine: `FirstFaultNamed` from the fault; `RefusalsRepeat`
because a static fault depends only on what two calls share; `CallsDeterministic` because the order of
the requests is a function of the entries (`SameRequests`) and neither of two calls with the same answers
gets past the fault of the other (`NoneGetsPast`). `Refinement` examines each action and names
the step of `AtomicLedger` it is (`RequestRefines`, `ProviderRefines`, the decisions) or the
stutter (`Unseen`). `AtomicLedger` has its own instance of `Guarantees`; the lemmas `Same...`
prove the operators of the two instances equal, those over folds and rounding included.

**`TxBuilderProofs`.** With callbacks there may be any number of `Build`s under way, one inside
the other. The invariant speaks of each frame on the stack (`Held`): it ranges over the entries
its `Build` began with, which passed the checks; its cache holds its own answers; the entries
behind its loop agree with them; and the builder it will find on top again has only grown since
(`Fits`). What a `Build` did last is `Justified`. A builder that nobody calls meanwhile is moreover
exactly as its one frame found it (`Alone`). The three theorems with the hypothesis
`~Reentrant` do not hold without it: finding 2 is the counterexample to the first, a nested
`Build` to the second, and a callback's `AddEntry` to the third.

**`AmountsProofs`.** `IInv` is that the result is what the arguments, which the state keeps, make of it, and
that each `Money` is the zero one or an amount of a ratable currency whose whole
number of minor units is the `worth` that was counted outside of it (`Accounted`). The
properties are then statements about operators, proved for every amount: `RoundedTo` says of each mode what it makes of a
quotient, `MadeEntryHolds` of every field of an entry what `Validate` will ask of it.

**`OwnershipProofs`.** That values stay as checked is not inductive, since
whoever holds a reference into one could write. The invariant says that nobody does: the references the caller
has, those of the builder and those of the values point to different arrays and maps
(`BuilderApart`, `ValuesApart`), and a builder past its checks still views what they saw (`StillChecked`).

**`ClocksProofs`.** The code folds the options over the default; `chosen` is what the caller
meant. `FoldExists` and `FoldUnique` unfold that fold for any number of options, and `Meant` concludes that it comes to
the last option that is given. `IInv` is that each clock in use means the chosen one through every
`UpdateConfig` (`ClocksMeant`), that what was returned and what a `Build` must not precede lies
not ahead of its clock (`NoneAhead`), and that what was posted lies between the two (`PostedWithin`).

**`ErrorChainsProofs`.** `trees` and `As` recur along the links between errors, which a definition
alone does not make well defined. The invariant does: an error links to older ones only
(`LinkedAt`), so that there is a function that satisfies the recursion (`TreesGrow`, by a least
counterexample) and `trees` is one (`TreesAre`). `Unwrap` leaves out one of two errors
that are the same; nothing is lost, because a Code is nil or a sentinel (`Sentinel`), which wraps nothing.
A rewrap keeps Code and Cause (`Rewrapped`), and an error that is made later changes no older
one's tree, so each rewrap matches what its origin does at every later state.

**`GeneratorProofs`.** `collectEntries` is a recursion over the rows (`RowByRow`). After n rows
(`Known`) there is an error exactly if those rows are not `Fine`, and if there is none the map has each code
of theirs with what all of its rows say; that makes `buildTable` refuse exactly the lists that
do not agree (`Refusals`). The map's entries come in any order, but each once (`Iterated`, by
cardinality). A permutation that sorts them exists (`OrderExists`: a highest one goes last), is strict
because the codes differ (`SortSorts`), and is the only one (`OneOrder`), which makes the
output reproducible. The invariant carries this through kills and replaced lists: the file
has a table of the sources in its header from when it is opened (`FileRight`), a run about to write read lists that
agree (`ReadRight`), and the program's map and list have the same entries (`ProgramRight`).

### What is left to TLC

- Liveness: `CanceledCallsReturn` and `DomesticCallsReturn`. Fairness and `ENABLED` are out of the prover's reach.
- The findings, which are about counterexamples.

## 6. Not modelled

The wording of errors (`Error`, `errorDetail`), and getters that return a field
that has no reference in it; the rows of the ISO 4217 table, which are data (the models take any
table, and `Generator` says what a right one is); the parsing of XML and the rendering of Go, which
`Generator` takes as a function of what is in the lists; two goroutines on one
`TxBuilder`, which `tx.go:96` forbids; tests and examples, which are read as
statements of intent; a caller's own `ValidationError` whose code is no sentinel
(`ErrorChains` has sentinels and nil for codes, as `doc.go` of the package has them).

## 7. Plan

Done: all components that have behaviour are modelled; `Ledger` implements
`AtomicLedger`; every safety property that a passing run checks is proved, the refinement included.

What could follow is the parts of section 6, of which two goroutines on one `TxBuilder` would
say most: what the code may still promise where its documentation promises nothing.
