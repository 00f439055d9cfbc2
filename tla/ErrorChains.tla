------------------------------ MODULE ErrorChains ------------------------------
(***************************************************************************)
(* pkg/errors as a caller sees it through errors.Is and errors.As: the     *)
(* graph of the errors one failure is made of.  A ValidationError points   *)
(* to its Code and its Cause, a provider may return anything, and may have *)
(* called the library itself, and the rewraps of pkg/core take the         *)
(* ValidationError they find apart.  Errors are immutable, so each one     *)
(* points to older ones only: an error is its place in `heap`, 0 is nil.   *)
(*                                                                         *)
(* The class of a foreign error stands for its Is method, or its value:    *)
(* errors.Is takes all errors of one class for each other; 0 is none.      *)
(***************************************************************************)
EXTENDS Integers, SequencesExt

CONSTANTS
  MaxErrors,    \* bound on the heap
  MaxForeign,   \* bound on the errors a provider or a caller makes
  Classes       \* of foreign errors, 0 among them

ASSUME ChainsAssumption == {MaxErrors, MaxForeign} \subseteq Nat /\ 0 \in Classes

VARIABLES
  heap,
  rewrapOf  \* [rewrap -> the error it was made of]: read by the properties only
vars == <<heap, rewrapOf>>

(* errors.New, fmt.Errorf with %w and errors.Join differ in what they wrap. *)
foreign(class, of) == [kind |-> "foreign", class |-> class, of |-> of]
typedNil           == [kind |-> "(*ValidationError)(nil)"]

NewEntryValidationError(code, entryIndex, field, cause) ==
  [kind |-> "ValidationError", code |-> code, entryIndex |-> entryIndex,
   field |-> field, cause |-> cause]
NewValidationError(code, field, cause) == NewEntryValidationError(code, -1, field, cause)

(* The package variables, and the error of a canceled context. *)
Roots == <<"ErrRateProvider", "ErrInvalidConfiguration", "ErrUnknownCurrency", "context">>
Root(name) == CHOOSE i \in DOMAIN Roots : Roots[i] = name

errs == DOMAIN heap
isVE(e) == heap[e].kind = "ValidationError"
class(e) == IF heap[e].kind = "foreign" THEN heap[e].class ELSE 0

(***************************************************************************)
(* errors.Is(err, target) is matches(trees[err], target).  A tree is the   *)
(* set of the errors it holds; the errors.Join that Unwrap returns is new  *)
(* each time and equal to nothing, and is left out of it.                  *)
(***************************************************************************)
matches(tree, target) ==
  \E e \in tree : e = target \/ (class(e) # 0 /\ class(e) = class(target))

(* Mutant: one direction is enough. *)
sameErrorOneWay(codeTree, code, causeTree, cause) == matches(causeTree, code)

sameError(codeTree, code, causeTree, cause) ==
  matches(codeTree, cause) /\ matches(causeTree, code)

Unwrap(ve, codeTree, causeTree) ==
  CASE ve.code = 0  -> causeTree
    [] ve.code # 0 /\ ve.cause = 0 -> codeTree
    [] OTHER -> IF sameError(codeTree, ve.code, causeTree, ve.cause)
                  THEN codeTree ELSE codeTree \cup causeTree

partOf(tree, part) == IF part = 0 THEN {} ELSE tree[part]

trees ==
  LET tree[e \in errs] ==
        {e} \cup
        CASE heap[e].kind = "ValidationError" ->
               Unwrap(heap[e], partOf(tree, heap[e].code), partOf(tree, heap[e].cause))
          [] heap[e].kind = "foreign" -> UNION {tree[o] : o \in Range(heap[e].of)}
          [] OTHER -> {}
  IN  tree

(* errors.As to a *ValidationError: the first one, depth first, or 0. *)
As ==
  LET found[e \in errs] ==
        IF heap[e].kind # "foreign" THEN e
        ELSE LET hits == {i \in DOMAIN heap[e].of : found[heap[e].of[i]] # 0}
             IN  IF hits = {} THEN 0 ELSE found[heap[e].of[Min(hits)]]
  IN  found

(***************************************************************************)
(* The rewraps of a callee's error.                                        *)
(***************************************************************************)
(* Mutant: the rewrap drops the cause. *)
rewrapValidationErrorBare(err, field) == NewValidationError(heap[As[err]].code, field, 0)

rewrapValidationError(err, field) ==
  IF As[err] = 0 THEN NewValidationError(err, field, 0)
  ELSE NewValidationError(heap[As[err]].code, field, heap[As[err]].cause)

rewrapEntryValidationError(err, entryIndex) ==
  IF As[err] = 0 THEN NewEntryValidationError(err, entryIndex, "entry", 0)
  ELSE LET ve == heap[As[err]]
       IN  NewEntryValidationError(ve.code, entryIndex, ve.field, ve.cause)

(***************************************************************************)
(* The errors that come into being.                                        *)
(***************************************************************************)
Make(new) == heap' = heap \o new /\ Len(heap') <= MaxErrors

(* A caller leaves the field out. *)
mayMake ==
  Cardinality({e \in errs : isVE(e) => heap[e].field = ""}) < Len(Roots) + MaxForeign

(* A provider's: also one that wraps or joins errors the library gave it. *)
Foreign ==
  /\ mayMake
  /\ \/ \E c \in Classes, of \in {<<>>} \cup {<<e>> : e \in errs} : Make(<<foreign(c, of)>>)
     \/ \E a, b \in errs : a < b /\ Make(<<foreign(0, <<a, b>>)>>)
     \/ Make(<<typedNil>>)
  /\ UNCHANGED rewrapOf

(* The failure of a lookup, and of validating a configuration with it. *)
Lookup ==
  /\ Make(<<NewValidationError(Root("ErrUnknownCurrency"), "code", 0)>>)
  /\ UNCHANGED rewrapOf

ValidateConfig ==
  /\ LET lookup == NewValidationError(Root("ErrUnknownCurrency"), "code", 0)
     IN  Make(<<lookup, NewValidationError(Root("ErrInvalidConfiguration"),
                                           "functionalCurrency", Len(heap) + 1)>>)
  /\ UNCHANGED rewrapOf

validationContext ==
  /\ Make(<<NewValidationError(Root("ErrRateProvider"), "context", Root("context"))>>)
  /\ UNCHANGED rewrapOf

(* resolveRate with the error a provider returned. *)
resolveRate ==
  /\ \E providerErr \in errs :
       LET wrapped == foreign(0, <<providerErr>>)
           n == Len(heap)
       IN  \/ Make(<<wrapped, NewEntryValidationError(Root("ErrRateProvider"), 0, "rate", n + 1)>>)
           \/ Make(<<wrapped, foreign(0, <<n + 1, Root("context")>>),
                     NewEntryValidationError(Root("ErrRateProvider"), 0, "context", n + 2)>>)
  /\ UNCHANGED rewrapOf

(* Of any ValidationError, though the code asks for no more than those of  *)
(* lookups, amounts, configurations and entries.                           *)
Rewrap ==
  \E err \in errs :
    /\ isVE(err)
    /\ \/ Make(<<rewrapValidationError(err, "config")>>)
       \/ Make(<<rewrapEntryValidationError(err, 0)>>)
    /\ rewrapOf' = [r \in DOMAIN rewrapOf \cup {Len(heap) + 1} |->
                      IF r = Len(heap) + 1 THEN err ELSE rewrapOf[r]]

isSentinel(e) == heap[e] = foreign(0, <<>>)

(* ValidationError and its constructors are exported; its Code is meant to *)
(* be a sentinel, and is one or nil here.                                  *)
Caller ==
  /\ mayMake
  /\ \E code \in {0} \cup {e \in errs : isSentinel(e)}, cause \in errs \cup {0} :
       Make(<<NewValidationError(code, "", cause)>>)
  /\ UNCHANGED rewrapOf

Init ==
  /\ heap = [i \in DOMAIN Roots |-> foreign(0, <<>>)]
  /\ rewrapOf = [e \in {} |-> 0]

Next ==
  \/ Foreign \/ Lookup \/ ValidateConfig \/ validationContext
  \/ resolveRate \/ Rewrap \/ Caller

Spec == Init /\ [][Next]_vars

-------------------------------------------------------------------------------
(* Unwrap exposes both the sentinel code and the cause so errors.Is can    *)
(* inspect either one (validation_error.go:57-58), and nothing besides.    *)
UnwrapLosesNothing ==
  LET tree == trees
  IN  \A e \in errs : isVE(e) =>
        \A t \in errs \ {e} :
          matches(tree[e], t) <=> \E part \in {heap[e].code, heap[e].cause} : matches(partOf(tree, part), t)

(* A rewrap changes what an error says of the place of a failure and never *)
(* what it is: errors.Is finds in it what it found in the error it was     *)
(* made of, that error itself apart.                                       *)
RewrapKeepsMatches ==
  LET tree == trees
  IN  \A r \in DOMAIN rewrapOf : \A t \in errs \ {r, rewrapOf[r]} :
        matches(tree[r], t) <=> matches(tree[rewrapOf[r]], t)

===============================================================================
