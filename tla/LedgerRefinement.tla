---------------------------- MODULE LedgerRefinement ----------------------------
(* Ledger, step by step, does what AtomicLedger says in one. *)
EXTENDS Ledger

(* Checking, skipping, reading the cache and comparing are all deciding.   *)
Status(g) ==
  CASE pc[g] \in {"check", "loop", "request"} -> "deciding"
    [] pc[g] = "provider" -> "asking"
    [] pc[g] = "resolve"  -> IF answer[g].failed THEN "refused" ELSE "deciding"
    [] OTHER -> pc[g]

Atomic == INSTANCE AtomicLedger WITH status <- [g \in Goroutines |-> Status(g)]

(* A call is one decision, taken from its input, the ledger it was asked   *)
(* of, the provider's answers to it and its context, and from nothing      *)
(* else; whatever its caller sees of the pipeline, the rate loop and the   *)
(* cache is an answer or an error the decision allows.                     *)
ImplementsAtomicLedger == Atomic!Spec
===============================================================================
