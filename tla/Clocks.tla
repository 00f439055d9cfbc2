-------------------------------- MODULE Clocks ---------------------------------
(***************************************************************************)
(* pkg/core/clock.go and what becomes of a clock: the options choose it,   *)
(* UpdateConfig passes it on to the ledgers it makes, ValidateTransaction  *)
(* to its builder, and build reads it, after all checks, for PostedAt.     *)
(* Calls of several goroutines and the passing of time interleave; the     *)
(* checks are one step here that may succeed or fail (see Ledger).         *)
(*                                                                         *)
(* A clock is a model value, "time.Now" or "ClockFunc(nil)"; "nil" is a    *)
(* nil Clock.  Every clock shows the time, shifted by its Offset: none of  *)
(* them is ever set back.                                                  *)
(***************************************************************************)
EXTENDS Naturals, Functions, SequencesExt

CONSTANTS
  Goroutines,
  Injected,                      \* clocks of the caller
  Offset,                        \* [clock -> Nat]
  MaxNow, MaxLedgers, MaxOptions \* bounds on the time, the ledgers, the options

ASSUME ClocksAssumption ==
  /\ Injected \cap {"nil option", "nil", "ClockFunc(nil)", "time.Now"} = {}
  /\ Offset \in [Injected \cup {"time.Now"} -> Nat]

(* An option is nil, or what WithClock and WithBuilderClock make of a clock,*)
(* which names it.                                                         *)
Options == {"nil option", "nil", "ClockFunc(nil)"} \cup Injected
OptionLists == UNION {[1 .. n -> Options] : n \in 0 .. MaxOptions}

VARIABLES
  now,
  ledgers,   \* sequence of [clock, chosen]: chosen is what the caller meant
  builder,   \* [goroutine -> the builder of its call]: also when it was made
  pc,        \* [goroutine -> "idle", "made", "checks", "posted"]
  postedAt,  \* [goroutine -> what its build read of the clock]
  latest,    \* [clock -> the latest PostedAt of a transaction returned]
  floor      \* [goroutine -> latest, as its build began]
vars == <<now, ledgers, builder, pc, postedAt, latest, floor>>

Clocks == Injected \cup {"time.Now"}

(* Mutant: the first option decides. *)
appliedFirst(opts) ==
  FoldLeft(LAMBDA clock, opt :
             IF opt = "nil option" \/ clock # "nil" THEN clock ELSE opt, "nil", opts)

applied(opts) ==
  FoldLeft(LAMBDA clock, opt : IF opt = "nil option" THEN clock ELSE opt, "nil", opts)

orDefault(clock) == IF clock = "nil" THEN "time.Now" ELSE clock

Now(clock, time) ==
  time + (IF clock = "ClockFunc(nil)" THEN Offset["time.Now"] ELSE Offset[clock])

(* The clock a caller meant: of the last option that is one, if it is any. *)
Chosen(opts) ==
  LET given == {i \in DOMAIN opts : opts[i] # "nil option"}
      last  == CHOOSE i \in given : \A j \in given : j <= i
  IN  IF given # {} /\ opts[last] \in Injected THEN opts[last] ELSE "time.Now"

noBuilder == [clock |-> "nil", chosen |-> "time.Now", byHand |-> FALSE, made |-> 0]

newBuilder(clock, chosen, byHand) ==
  [clock |-> clock, chosen |-> chosen, byHand |-> byHand, made |-> now]

NewLedger ==
  /\ Len(ledgers) < MaxLedgers
  /\ \E opts \in OptionLists :
       ledgers' = Append(ledgers, [clock |-> orDefault(applied(opts)), chosen |-> Chosen(opts)])
  /\ UNCHANGED <<now, builder, pc, postedAt, latest, floor>>

(* Mutant: the new ledger gets the default clock. *)
inheritedClockDefault(l) == "time.Now"

inheritedClock(l) == ledgers[l].clock

UpdateConfig ==
  /\ Len(ledgers) < MaxLedgers
  /\ \E l \in DOMAIN ledgers :
       ledgers' = Append(ledgers, [clock |-> inheritedClock(l), chosen |-> ledgers[l].chosen])
  /\ UNCHANGED <<now, builder, pc, postedAt, latest, floor>>

(* A builder made by hand, or the zero value, which has no clock. *)
NewTxBuilder(g) ==
  /\ pc[g] = "idle"
  /\ \E b \in {newBuilder(orDefault(applied(opts)), Chosen(opts), TRUE) : opts \in OptionLists}
                \cup {newBuilder("nil", "time.Now", TRUE)} :
       builder' = [builder EXCEPT ![g] = b]
  /\ pc' = [pc EXCEPT ![g] = "made"]
  /\ UNCHANGED <<now, ledgers, postedAt, latest, floor>>

Build(g) ==
  /\ pc[g] = "made"
  /\ pc' = [pc EXCEPT ![g] = "checks"]
  /\ floor' = [floor EXCEPT ![g] = latest]
  /\ UNCHANGED <<now, ledgers, builder, postedAt, latest>>

ValidateTransaction(g) ==
  /\ pc[g] = "idle"
  /\ \E l \in DOMAIN ledgers :
       builder' = [builder EXCEPT ![g] =
         newBuilder(orDefault(applied(<<ledgers[l].clock>>)), ledgers[l].chosen, FALSE)]
  /\ pc' = [pc EXCEPT ![g] = "checks"]
  /\ floor' = [floor EXCEPT ![g] = latest]
  /\ UNCHANGED <<now, ledgers, postedAt, latest>>

drop(g) ==
  /\ pc' = [pc EXCEPT ![g] = "idle"]
  /\ builder' = [builder EXCEPT ![g] = noBuilder]
  /\ postedAt' = [postedAt EXCEPT ![g] = 0]
  /\ floor' = [floor EXCEPT ![g] = [c \in Clocks |-> 0]]

(* A failed Build leaves the builder, which may build again if the caller  *)
(* has it.                                                                 *)
Reject(g) ==
  /\ pc[g] = "checks"
  /\ \/ drop(g)
     \/ /\ builder[g].byHand
        /\ pc' = [pc EXCEPT ![g] = "made"]
        /\ UNCHANGED <<builder, postedAt, floor>>
  /\ UNCHANGED <<now, ledgers, latest>>

(* Mutant: the clock is read when the builder is made. *)
readingEarly(g) == Now(orDefault(builder[g].clock), builder[g].made)

reading(g) == Now(orDefault(builder[g].clock), now)

Post(g) ==
  /\ pc[g] = "checks"
  /\ pc' = [pc EXCEPT ![g] = "posted"]
  /\ postedAt' = [postedAt EXCEPT ![g] = reading(g)]
  /\ UNCHANGED <<now, ledgers, builder, latest, floor>>

(* The transaction is the caller's, and the builder is spent. *)
Return(g) ==
  /\ pc[g] = "posted"
  /\ drop(g)
  /\ latest' = [latest EXCEPT ![builder[g].chosen] = IF postedAt[g] > @ THEN postedAt[g] ELSE @]
  /\ UNCHANGED <<now, ledgers>>

Tick == now < MaxNow /\ now' = now + 1 /\ UNCHANGED <<ledgers, builder, pc, postedAt, latest, floor>>

Init ==
  /\ now = 0 /\ ledgers = <<>>
  /\ builder = [g \in Goroutines |-> noBuilder]
  /\ pc = [g \in Goroutines |-> "idle"]
  /\ postedAt = [g \in Goroutines |-> 0]
  /\ latest = [c \in Clocks |-> 0]
  /\ floor = [g \in Goroutines |-> latest]

Next ==
  \/ NewLedger \/ UpdateConfig \/ Tick
  \/ \E g \in Goroutines :
       \/ NewTxBuilder(g) \/ Build(g) \/ ValidateTransaction(g)
       \/ Reject(g) \/ Post(g) \/ Return(g)

Spec == Init /\ [][Next]_vars

-------------------------------------------------------------------------------
(* PostedAt is read off the clock that was chosen for the ledger, however  *)
(* many times its configuration was updated since (ledger.go:111-113), or  *)
(* for the builder, while Build ran.                                       *)
PostedByChosenClock ==
  [][\A g \in Goroutines : pc'[g] = "posted" /\ pc[g] # "posted" =>
       postedAt'[g] = Now(builder[g].chosen, now)]_vars

(* Transactions of one clock are posted in order: what a Build posts that  *)
(* begins after another returned is not dated before it, although builders *)
(* and ledgers may be as old as one likes, and Builds of other goroutines  *)
(* run at the same time.                                                   *)
PostedInOrder ==
  \A g \in Goroutines : pc[g] = "posted" => postedAt[g] >= floor[g][builder[g].chosen]
===============================================================================
