-------------------------------- MODULE Ownership --------------------------------
(***************************************************************************)
(* Who can write what.  Slices and maps are references in Go, so the rest  *)
(* of the models, in which they are values, is right only if the library   *)
(* copies wherever a reference crosses its border: the input of            *)
(* ValidateTransaction, WithMetadata, NewAccount, the accessors of         *)
(* Transaction, Account and the registry.  Here arrays and maps live in    *)
(* heaps, a reference is a position in one, and the caller may write to    *)
(* whatever it holds at any moment, also from another goroutine or from    *)
(* the rate provider while a call is under way.                            *)
(*                                                                         *)
(* A value in a map is a pointer: it is copied, what it points to is not.  *)
(* Entries and registry rows are plain values.  Calls into a builder that  *)
(* is being built belong to TxBuilder.                                     *)
(***************************************************************************)
EXTENDS Naturals, Sequences

CONSTANTS
  Arrays,    \* the contents a caller gives slices: sequences of entries
  Maps,      \* the contents a caller gives maps: functions from keys to pointers
  Items,     \* the entries given to AddEntry
  Table,     \* the rows of the registry
  MaxArrays, MaxMaps, \* bounds: slices and maps allocated
  MaxEntries,         \* bound: entries of a builder
  MaxValues           \* bound: values the library hands out

NoMap == [key \in {} |-> 0]
Nil   == 0                     \* the nil slice and the nil map

ASSUME OwnershipAssumption ==
  /\ MaxArrays \in Nat /\ MaxMaps \in Nat
  /\ MaxEntries \in Nat /\ MaxValues \in Nat
  /\ \A a \in Arrays : a \in Seq(Items)
  /\ Table \in Seq({Table[i] : i \in DOMAIN Table})
  /\ \A m \in Maps : m = [key \in DOMAIN m |-> m[key]]

VARIABLES
  arrays, maps,            \* the heaps
  heldArrays, heldMaps,    \* the references the caller has
  builder,   \* [entries, metadata, public, phase, checked]: public for a
             \* TxBuilder, not for a Ledger's own; phase is "open", "checked"
             \* once the checks are done, or "over"
  values     \* what the library made: [entries, metadata, checked]; the first
             \* is the registry, the others transactions and accounts

vars == <<arrays, maps, heldArrays, heldMaps, builder, values>>
caller == <<heldArrays, heldMaps>>

arrayAt(r) == IF r = Nil THEN <<>> ELSE arrays[r]
mapAt(r)   == IF r = Nil THEN NoMap ELSE maps[r]
view(v)    == [entries |-> arrayAt(v.entries), metadata |-> mapAt(v.metadata)]

(* A copy: the heap that results, and the reference to it. *)
newArray(content) == [heap |-> Append(arrays, content), ref |-> Len(arrays) + 1]
newMap(content)   == [heap |-> Append(maps, content), ref |-> Len(maps) + 1]
sameArray(r)      == [heap |-> arrays, ref |-> r]
sameMap(r)        == [heap |-> maps, ref |-> r]

copyMetadata(r) == newMap(mapAt(r))

(***************************************************************************)
(* The builder.                                                            *)
(***************************************************************************)
idle == builder.phase # "checked"

builderWith(a, m, public) ==
  /\ idle
  /\ arrays' = a.heap
  /\ maps' = m.heap
  /\ builder' = [entries |-> a.ref, metadata |-> m.ref, public |-> public, phase |-> "open",
                 checked |-> [entries |-> <<>>, metadata |-> NoMap]]
  /\ UNCHANGED <<caller, values>>

NewTxBuilder == builderWith(newArray(<<>>), newMap(NoMap), TRUE)

(* Mutant: the builder of a call works on the caller's slice. *)
inputEntriesShared(a) == sameArray(a)

inputEntries(a) == newArray(arrayAt(a))

ValidateTransaction ==
  \E a \in heldArrays \cup {Nil}, m \in heldMaps \cup {Nil} :
    builderWith(inputEntries(a), newMap(mapAt(m)), FALSE)

AddEntry ==
  \E e \in Items :
    /\ builder.phase = "open" /\ builder.public
    /\ Len(arrays[builder.entries]) < MaxEntries
    /\ arrays' = [arrays EXCEPT ![builder.entries] = Append(@, e)]
    /\ UNCHANGED <<maps, caller, builder, values>>

(* The loop that sets each key given; a key of the builder's own stays.    *)
setIn(old, new) ==
  [key \in DOMAIN old \cup DOMAIN new |-> IF key \in DOMAIN new THEN new[key] ELSE old[key]]

(* Mutant: the first map given becomes the builder's own. *)
mergedAdopting(b, m) ==
  IF m # Nil /\ maps[b.metadata] = NoMap
    THEN sameMap(m)
    ELSE [heap |-> [maps EXCEPT ![b.metadata] = setIn(@, mapAt(m))], ref |-> b.metadata]

merged(b, m) ==
  [heap |-> [maps EXCEPT ![b.metadata] = setIn(@, mapAt(m))], ref |-> b.metadata]

WithMetadata ==
  \E m \in heldMaps :
    /\ builder.phase = "open" /\ builder.public
    /\ maps' = merged(builder, m).heap
    /\ builder' = [builder EXCEPT !.metadata = merged(builder, m).ref]
    /\ UNCHANGED <<arrays, caller, values>>

(* The checks of build read the entries and the metadata once; then the    *)
(* provider and the clock are at work.                                     *)
Check ==
  /\ builder.phase = "open"
  /\ builder' = [builder EXCEPT !.checked = view(builder), !.phase = "checked"]
  /\ UNCHANGED <<arrays, maps, caller, values>>

Reject ==
  /\ builder.phase = "checked"
  /\ builder' = [builder EXCEPT !.phase = IF builder.public THEN "open" ELSE "over"]
  /\ UNCHANGED <<arrays, maps, caller, values>>

Return ==
  LET a == newArray(arrayAt(builder.entries))
      m == copyMetadata(builder.metadata)
  IN  /\ builder.phase = "checked"
      /\ arrays' = a.heap
      /\ maps' = m.heap
      /\ values' = Append(values, [entries |-> a.ref, metadata |-> m.ref,
                                   checked |-> builder.checked])
      /\ builder' = [builder EXCEPT !.phase = "over"]
      /\ UNCHANGED caller

(***************************************************************************)
(* Accounts, and what the accessors return: Transaction.Entries, All and   *)
(* Entries of the registry; Metadata of a Transaction and of an Account.   *)
(***************************************************************************)
NewAccount ==
  \E m \in heldMaps \cup {Nil} :
    /\ maps' = copyMetadata(m).heap
    /\ values' = Append(values,
         [entries |-> Nil, metadata |-> copyMetadata(m).ref,
          checked |-> [entries |-> <<>>, metadata |-> mapAt(m)]])
    /\ UNCHANGED <<arrays, caller, builder>>

(* Mutant: an accessor returns the value's own map. *)
metadataShared(v) == sameMap(v.metadata)

entriesOf(v) == newArray(arrayAt(v.entries))
metadataOf(v) == copyMetadata(v.metadata)

Entries ==
  \E i \in DOMAIN values :
    /\ arrays' = entriesOf(values[i]).heap
    /\ heldArrays' = heldArrays \cup {entriesOf(values[i]).ref}
    /\ UNCHANGED <<maps, heldMaps, builder, values>>

Metadata ==
  \E i \in DOMAIN values :
    /\ maps' = metadataOf(values[i]).heap
    /\ heldMaps' = heldMaps \cup {metadataOf(values[i]).ref}
    /\ UNCHANGED <<arrays, heldArrays, builder, values>>

(***************************************************************************)
(* The caller makes slices and maps, and writes to those it has.           *)
(***************************************************************************)
Make ==
  \/ \E c \in Arrays :
       /\ arrays' = newArray(c).heap
       /\ heldArrays' = heldArrays \cup {newArray(c).ref}
       /\ UNCHANGED <<maps, heldMaps, builder, values>>
  \/ \E c \in Maps :
       /\ maps' = newMap(c).heap
       /\ heldMaps' = heldMaps \cup {newMap(c).ref}
       /\ UNCHANGED <<arrays, heldArrays, builder, values>>

Write ==
  \/ \E r \in heldArrays, c \in Arrays :
       /\ arrays' = [arrays EXCEPT ![r] = c]
       /\ UNCHANGED <<maps, caller, builder, values>>
  \/ \E r \in heldMaps, c \in Maps :
       /\ maps' = [maps EXCEPT ![r] = c]
       /\ UNCHANGED <<arrays, caller, builder, values>>

Init ==
  /\ arrays = <<Table>>
  /\ maps = <<>>
  /\ heldArrays = {} /\ heldMaps = {}
  /\ builder = [entries |-> Nil, metadata |-> Nil, public |-> FALSE, phase |-> "over",
                checked |-> [entries |-> <<>>, metadata |-> NoMap]]
  /\ values = <<[entries |-> 1, metadata |-> Nil,
                 checked |-> [entries |-> Table, metadata |-> NoMap]]>>

Library ==
  \/ NewTxBuilder \/ ValidateTransaction \/ AddEntry \/ WithMetadata
  \/ Check \/ Reject \/ Return \/ NewAccount \/ Entries \/ Metadata

Next ==
  /\ Library \/ Make \/ Write
  /\ Len(arrays') <= MaxArrays /\ Len(maps') <= MaxMaps /\ Len(values') <= MaxValues

Spec == Init /\ [][Next]_vars

-------------------------------------------------------------------------------
(* A transaction holds the entries and the metadata that were checked, and *)
(* an account the metadata it was given, whatever the caller did to its    *)
(* input while the call was under way or has done since; the registry      *)
(* holds its table.  ledger.go:66-68, tx.go:74-77, account.go:63-65.       *)
ValuesAsChecked == \A i \in DOMAIN values : view(values[i]) = values[i].checked

(* What the library returned never changes: not by the caller's writes, by *)
(* a builder that lives on, or by what is read from it.  tx.go:24-30,      *)
(* currency.go:75.                                                         *)
ValuesFrozen == [][\A i \in DOMAIN values : view(values[i])' = view(values[i])]_vars

(* The library never writes to a slice or a map of the caller's: it may    *)
(* reuse what it gave, and give it twice.  tx.go:180-182.                  *)
CallerMemoryUntouched ==
  [][Library => /\ \A r \in heldArrays : arrays'[r] = arrays[r]
                /\ \A r \in heldMaps : maps'[r] = maps[r]]_vars
===============================================================================
