------------------------------ MODULE AtomicLedger ------------------------------
(***************************************************************************)
(* What a Ledger promises its callers (README.md, doc.go, the comments of  *)
(* ledger.go and rates.go), without the pipeline, the order of its checks, *)
(* the rate loop and its cache: a call asks for the rates it lacks, and    *)
(* decides in one step, from its input, its ledger, the answers and its    *)
(* context.  LedgerRefinement shows that Ledger implements it.             *)
(***************************************************************************)
EXTENDS Guarantees

CONSTANTS Goroutines, Inputs, Rates

VARIABLES
  ledgers,   \* the ledgers created so far
  status,    \* of a call: "idle", "deciding", "asking", "refused" once the
             \* provider returned an error, "returned" or "panicked"
  ctx,       \* its context
  target,    \* the handle of its ledger
  input,     \* what it was given
  asked,     \* the requests it sent
  answers,   \* the answers it got
  result     \* what it returned

call == <<status, ctx, target, input, asked, answers, result>>
vars == <<ledgers, call>>

config(g)   == ledgers[target[g]].config
entries(g)  == input[g].entries
requestOf(g, i) ==
  [base |-> entries(g)[i].txCurrency, quote |-> entries(g)[i].functionalCurrency,
   asOf |-> UTC(input[g].effectiveDate)]
isForeign(g, i) == requestOf(g, i).base # requestOf(g, i).quote
holds(g, es) == RatesHold(es, input[g].effectiveDate, answers[g], config(g).rateTolerance)

(* Everything a call needs but rates. *)
worthy(g) ==
  Sound([id |-> input[g].id, effectiveDate |-> UTC(input[g].effectiveDate),
         isAdjustingEvent |-> input[g].isAdjustingEvent, entries |-> entries(g),
         metadata |-> input[g].metadata, postedAt |-> Time(0, "UTC")], config(g))

Init ==
  /\ ledgers = <<>>
  /\ status = [g \in Goroutines |-> "idle"]
  /\ asked = [g \in Goroutines |-> <<>>]
  /\ answers = [g \in Goroutines |-> {}]

(* A ledger is added; the ones that exist are for ever what they are. *)
Publish ==
  /\ Len(ledgers') = Len(ledgers) + 1
  /\ \A l \in DOMAIN ledgers : ledgers'[l] = ledgers[l]
  /\ validateConfig(Last(ledgers').config) = NoError
  /\ Last(ledgers').rateProvider # "nil"
  /\ UNCHANGED call

Call(g) ==
  /\ status[g] \in {"idle", "returned", "panicked"}
  /\ \E l \in DOMAIN ledgers, in \in Inputs : \E keys \in {in.metadata, {}} :
       /\ target' = [target EXCEPT ![g] = l]
       /\ input' = [input EXCEPT ![g] = [in EXCEPT !.metadata = keys]]
  /\ \E c \in {"background", "live", "canceled"} : ctx' = [ctx EXCEPT ![g] = c]
  /\ status' = [status EXCEPT ![g] = "deciding"]
  /\ asked' = [asked EXCEPT ![g] = <<>>]
  /\ answers' = [answers EXCEPT ![g] = {}]
  /\ UNCHANGED <<ledgers, result>>

Cancel(g) ==
  /\ ctx[g] = "live"
  /\ ctx' = [ctx EXCEPT ![g] = "canceled"]
  /\ UNCHANGED <<ledgers, status, target, input, asked, answers, result>>

(* A request: for the first foreign entry without an answer, everything    *)
(* before it being right, and never for the same pair again.               *)
Ask(g) ==
  /\ status[g] = "deciding"
  /\ worthy(g)
  /\ \E i \in DOMAIN entries(g) :
       /\ isForeign(g, i)
       /\ holds(g, SubSeq(entries(g), 1, i - 1))
       /\ \A k \in DOMAIN asked[g] : asked[g][k] # requestOf(g, i)
       /\ asked' = [asked EXCEPT ![g] = Append(@, requestOf(g, i))]
  /\ status' = [status EXCEPT ![g] = "asking"]
  /\ UNCHANGED <<ledgers, ctx, target, input, answers, result>>

Answer(g) ==
  /\ status[g] = "asking"
  /\ \/ /\ status' = [status EXCEPT ![g] = "deciding"]
        /\ \E rate \in Rates :
             answers' = [answers EXCEPT ![g] =
                           @ \cup {[request |-> Last(asked[g]), rate |-> rate]}]
     \/ /\ \E s \in {"refused", "panicked"} : status' = [status EXCEPT ![g] = s]
        /\ UNCHANGED answers
  /\ UNCHANGED <<ledgers, ctx, target, input, asked, result>>

(* The decision.  A success returns the input, sound and with every rate   *)
(* answered for and in agreement.                                          *)
mayReturn(g, tx) ==
  /\ status[g] = "deciding"
  /\ Sound(tx, config(g))
  /\ holds(g, entries(g))
  /\ tx = [id |-> input[g].id, effectiveDate |-> UTC(input[g].effectiveDate),
           isAdjustingEvent |-> input[g].isAdjustingEvent, postedAt |-> tx.postedAt,
           entries |-> entries(g), metadata |-> input[g].metadata]

(* An error has a reason, and names it: a rule is broken and nobody was    *)
(* asked; the context or the provider, or both, ended the call; or the     *)
(* first foreign entry that disagrees with its answer.                     *)
mayReject(g, err) ==
  \/ /\ status[g] = "deciding" /\ asked[g] = <<>> /\ ~worthy(g)
     /\ err # NoError
     /\ err.code \notin {"ErrRateProvider", "ErrRateDeviation", "ErrNilRateProvider"}
  \/ /\ err.code = "ErrRateProvider" /\ err.cause # {}
     /\ err.cause \subseteq {"context", "provider"}
     /\ "context" \in err.cause <=> ctx[g] = "canceled"
     /\ "provider" \in err.cause <=> status[g] = "refused"
  \/ /\ status[g] = "deciding"
     /\ err.code \in {"ErrRateDeviation", "ErrInvalidExchangeRate"}
     /\ \E i \in DOMAIN entries(g) :
          /\ err.entryIndex = i
          /\ \E a \in answers[g] : a.request = requestOf(g, i)
          /\ holds(g, SubSeq(entries(g), 1, i - 1))
          /\ ~holds(g, <<entries(g)[i]>>)

Decide(g) ==
  /\ status[g] \in {"deciding", "refused"}
  /\ status' = [status EXCEPT ![g] = "returned"]
  /\ \E r \in {result'[g]} :
       /\ \/ r.err = NoError /\ mayReturn(g, r.tx)
          \/ r.tx = NoTransaction /\ mayReject(g, r.err)
       /\ result' = [result EXCEPT ![g] = r]
  /\ UNCHANGED <<ledgers, ctx, target, input, asked, answers>>

Next == Publish \/ \E g \in Goroutines : Call(g) \/ Cancel(g) \/ Ask(g) \/ Answer(g) \/ Decide(g)

Spec == Init /\ [][Next]_vars
===============================================================================
