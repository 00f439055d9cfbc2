------------------------------ MODULE Guarantees ------------------------------
(***************************************************************************)
(* The guarantees pkg/core/doc.go:5-18 gives of every Transaction, stated  *)
(* over a transaction and the configuration it was validated against.      *)
(* They are requirements, written from the numbers of the data alone and   *)
(* not with the checks of Validation.                                      *)
(***************************************************************************)
EXTENDS Validation

(* An entry a transaction of this functional currency may hold. *)
SoundEntry(e, functionalCurrency) ==
  /\ e.functionalCurrency = functionalCurrency
  /\ LET value == Decimal!RoundBank(Decimal!Mul(e.txAmount, e.exchangeRate),
                                    Registry[functionalCurrency])
     IN  ~Decimal!IsZero(value) /\ Decimal!Equal(e.functionalAmount, value)
  /\ e.txCurrency = functionalCurrency => Decimal!Equal(e.exchangeRate, Decimal!One)

SoundEntries(entries, functionalCurrency) ==
  /\ entries # <<>>
  /\ \A i \in DOMAIN entries : SoundEntry(entries[i], functionalCurrency)
  /\ Decimal!IsZero(functionalSum(entries))

Bounded(id, bytes) == id.len \in 1 .. bytes /\ ~id.control

InOpenPeriod(date, adjusting, config) == date.at > config.closedDate.at \/ adjusting

(* Every guarantee but rate integrity. *)
Sound(tx, config) ==
  /\ Bounded(tx.id, 255)
  /\ \A key \in tx.metadata : Bounded(key, 64)
  /\ tx.effectiveDate.zone = "UTC" /\ tx.effectiveDate.at # 0
  /\ tx.postedAt.zone = "UTC"
  /\ SoundEntries(tx.entries, config.functionalCurrency)
  /\ InOpenPeriod(tx.effectiveDate, tx.isAdjustingEvent, config)

(* Rate integrity: the answers a validation got, a set of [request, rate], *)
(* hold a rate for the pair of entry e at the given date, and that rate is *)
(* positive and within the tolerance of the rate of the entry.             *)
Agrees(e, date, answers, tolerance) ==
  \E a \in answers :
    /\ a.request = [base  |-> e.txCurrency, quote |-> e.functionalCurrency,
                    asOf  |-> [at |-> date.at, zone |-> "UTC"]]
    /\ Decimal!Positive(a.rate)
    /\ ~Decimal!GreaterThan(Decimal!Abs(Decimal!Sub(a.rate, e.exchangeRate)), tolerance)

RatesHold(entries, date, answers, tolerance) ==
  \A i \in DOMAIN entries :
    entries[i].txCurrency # entries[i].functionalCurrency
      => Agrees(entries[i], date, answers, tolerance)
===============================================================================
