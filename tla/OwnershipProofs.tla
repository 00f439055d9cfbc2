---------------------------- MODULE OwnershipProofs ----------------------------
(***************************************************************************)
(* Theorems about Ownership, for every content, registry and bound.  What  *)
(* makes the library safe from its callers is that their references and    *)
(* its own never meet; the invariant says so, and that what was checked is *)
(* what the memory it was read from still holds.                           *)
(***************************************************************************)
EXTENDS Ownership, TLAPS

(* The contents of slices, entries or rows, and of maps. *)
Rows     == {Table[i] : i \in DOMAIN Table}
Slices   == Seq(Items \cup Rows)
Keys     == UNION {DOMAIN m : m \in Maps}
Pointers == UNION {{m[key] : key \in DOMAIN m} : m \in Maps}
Keyed    == UNION {[K -> Pointers] : K \in SUBSET Keys}

View == [entries : Slices, metadata : Keyed]

ArrayRef == {Nil} \cup DOMAIN arrays
MapRef   == {Nil} \cup DOMAIN maps

ValueSet == [entries : ArrayRef, metadata : MapRef, checked : View]

TypeOK ==
  /\ arrays \in Seq(Slices) /\ maps \in Seq(Keyed)
  /\ heldArrays \subseteq DOMAIN arrays
  /\ heldMaps \subseteq DOMAIN maps
  /\ builder \in [entries : ArrayRef, metadata : MapRef, public : BOOLEAN,
                  phase : {"open", "checked", "over"}, checked : View]
  /\ values \in Seq(ValueSet)

(* A builder that is not spent has a slice and a map, which nobody else has. *)
BuilderApart ==
  builder.phase # "over" =>
    /\ builder.entries \in DOMAIN arrays \ heldArrays
    /\ builder.metadata \in DOMAIN maps \ heldMaps
    /\ \A i \in DOMAIN values : /\ values[i].entries # builder.entries
                                /\ values[i].metadata # builder.metadata

(* The caller has no reference into a value. *)
ValuesApart ==
  \A i \in DOMAIN values : /\ values[i].entries \notin heldArrays
                           /\ values[i].metadata \notin heldMaps

(* Between the checks and the transaction the builder stays as it was. *)
StillChecked == builder.phase = "checked" => view(builder) = builder.checked

IInv == TypeOK /\ BuilderApart /\ ValuesApart /\ StillChecked /\ ValuesAsChecked

(***************************************************************************)
(* Contents.                                                               *)
(***************************************************************************)
LEMMA Contents ==
  /\ <<>> \in Slices /\ Table \in Slices /\ NoMap \in Keyed
  /\ Arrays \subseteq Slices /\ Maps \subseteq Keyed
<1>1. <<>> \in Slices
  BY DEF Slices
<1>2. Table \in Slices
  BY OwnershipAssumption DEF Slices, Rows
<1>3. NoMap \in [{} -> Pointers]
  BY DEF NoMap
<1>4. ASSUME NEW a \in Arrays PROVE a \in Slices
  <2>1. a \in Seq(Items)
    BY OwnershipAssumption
  <2>. QED
    BY <2>1 DEF Slices
<1>5. ASSUME NEW m \in Maps PROVE m \in Keyed
  <2>1. m = [key \in DOMAIN m |-> m[key]]
    BY OwnershipAssumption
  <2>2. \A key \in DOMAIN m : m[key] \in Pointers
    BY DEF Pointers
  <2>3. m \in [DOMAIN m -> Pointers]
    BY <2>1, <2>2
  <2>4. DOMAIN m \in SUBSET Keys
    BY DEF Keys
  <2>. QED
    BY <2>3, <2>4 DEF Keyed
<1>. QED
  BY <1>1, <1>2, <1>3, <1>4, <1>5 DEF Keyed

LEMMA Merging ==
  ASSUME NEW f \in Keyed, NEW h \in Keyed
  PROVE  setIn(f, h) \in Keyed
<1>1. PICK F \in SUBSET Keys : f \in [F -> Pointers]
  BY DEF Keyed
<1>2. PICK H \in SUBSET Keys : h \in [H -> Pointers]
  BY DEF Keyed
<1>3. setIn(f, h) \in [F \cup H -> Pointers]
  BY <1>1, <1>2 DEF setIn
<1>4. F \cup H \in SUBSET Keys
  OBVIOUS
<1>. QED
  BY <1>3, <1>4 DEF Keyed

(* What is read through a reference has the type of contents. *)
LEMMA Reading ==
  ASSUME TypeOK
  PROVE  /\ \A r \in ArrayRef : arrayAt(r) \in Slices
         /\ \A r \in MapRef : mapAt(r) \in Keyed
<1>1. 0 \notin DOMAIN arrays /\ 0 \notin DOMAIN maps
  BY DEF TypeOK
<1>2. /\ \A r \in DOMAIN arrays : arrays[r] \in Slices
      /\ \A r \in DOMAIN maps : maps[r] \in Keyed
  BY DEF TypeOK
<1>. QED
  BY <1>1, <1>2, Contents DEF ArrayRef, MapRef, arrayAt, mapAt, Nil

(***************************************************************************)
(* An allocation adds a reference nobody has, and leaves what is there.    *)
(***************************************************************************)
LEMMA NewArray ==
  ASSUME TypeOK, NEW c \in Slices, arrays' = newArray(c).heap
  PROVE  /\ arrays' \in Seq(Slices)
         /\ DOMAIN arrays' = DOMAIN arrays \cup {newArray(c).ref}
         /\ newArray(c).ref \notin DOMAIN arrays \cup {Nil}
         /\ arrays'[newArray(c).ref] = c
         /\ \A r \in DOMAIN arrays : arrays'[r] = arrays[r]
<1>1. arrays' = Append(arrays, c) /\ newArray(c).ref = Len(arrays) + 1
  BY DEF newArray
<1>. QED
  BY <1>1 DEF TypeOK, Nil

LEMMA NewMap ==
  ASSUME TypeOK, NEW c \in Keyed, maps' = newMap(c).heap
  PROVE  /\ maps' \in Seq(Keyed)
         /\ DOMAIN maps' = DOMAIN maps \cup {newMap(c).ref}
         /\ newMap(c).ref \notin DOMAIN maps \cup {Nil}
         /\ maps'[newMap(c).ref] = c
         /\ \A r \in DOMAIN maps : maps'[r] = maps[r]
<1>1. maps' = Append(maps, c) /\ newMap(c).ref = Len(maps) + 1
  BY DEF newMap
<1>. QED
  BY <1>1 DEF TypeOK, Nil

(***************************************************************************)
(* What every step keeps of the values: neither their references nor the   *)
(* memory behind them changes, and the heaps only grow.                    *)
(***************************************************************************)
Grown ==
  /\ arrays' \in Seq(Slices) /\ maps' \in Seq(Keyed)
  /\ DOMAIN arrays \subseteq DOMAIN arrays' /\ DOMAIN maps \subseteq DOMAIN maps'

Kept ==
  \A i \in DOMAIN values : i \in DOMAIN values' /\ values'[i] = values[i]
                           /\ view(values[i])' = view(values[i])

LEMMA ValueRefs ==
  ASSUME TypeOK
  PROVE  \A i \in DOMAIN values : values[i].entries \in ArrayRef /\ values[i].metadata \in MapRef
<1>. SUFFICES ASSUME NEW i \in DOMAIN values
              PROVE  values[i].entries \in ArrayRef /\ values[i].metadata \in MapRef
  OBVIOUS
<1>1. values[i] \in ValueSet
  BY DEF TypeOK
<1>. QED
  BY <1>1 DEF ValueSet

(* What the values refer to, and nobody else does, is not written to. *)
LEMMA KeptUnwritten ==
  ASSUME IInv, NEW v,
         \A r \in DOMAIN arrays \ (heldArrays \cup {builder.entries}) : arrays'[r] = arrays[r],
         \A r \in DOMAIN maps \ (heldMaps \cup {builder.metadata}) : maps'[r] = maps[r],
         builder.phase = "over" => /\ \A r \in DOMAIN arrays \ heldArrays : arrays'[r] = arrays[r]
                                   /\ \A r \in DOMAIN maps \ heldMaps : maps'[r] = maps[r],
         UNCHANGED values \/ values' = Append(values, v)
  PROVE  Kept
<1>. SUFFICES ASSUME NEW i \in DOMAIN values
              PROVE  i \in DOMAIN values' /\ values'[i] = values[i]
                     /\ view(values[i])' = view(values[i])
  BY DEF Kept
<1>0. values \in Seq(ValueSet)
  BY DEF IInv, TypeOK
<1>1. i \in DOMAIN values' /\ values'[i] = values[i]
  BY <1>0
<1>2. values[i].entries \in ArrayRef /\ values[i].metadata \in MapRef
  BY ValueRefs DEF IInv
<1>3. values[i].entries # Nil => arrays'[values[i].entries] = arrays[values[i].entries]
  BY <1>2 DEF IInv, BuilderApart, ValuesApart, ArrayRef
<1>4. values[i].metadata # Nil => maps'[values[i].metadata] = maps[values[i].metadata]
  BY <1>2 DEF IInv, BuilderApart, ValuesApart, MapRef
<1>. QED
  BY <1>1, <1>3, <1>4 DEF view, arrayAt, mapAt

(* The invariant after a step that makes no value. *)
LEMMA ValuesKept ==
  ASSUME IInv, Kept, Grown, UNCHANGED values
  PROVE  /\ values' \in Seq(ValueSet')
         /\ ValuesAsChecked'
<1>1. ArrayRef \subseteq ArrayRef' /\ MapRef \subseteq MapRef'
  BY DEF Grown, ArrayRef, MapRef
<1>2. ValueSet \subseteq ValueSet'
  BY <1>1 DEF ValueSet
<1>4. values \in Seq(ValueSet')
  BY <1>2 DEF IInv, TypeOK
<1>3. ValuesAsChecked'
  BY DEF IInv, ValuesAsChecked, Kept
<1>. QED
  BY <1>3, <1>4

(***************************************************************************)
(* The steps.                                                              *)
(***************************************************************************)
LEMMA StartKept ==
  ASSUME IInv, NEW a \in Slices, NEW m \in Keyed, NEW public \in BOOLEAN,
         builderWith(newArray(a), newMap(m), public)
  PROVE  IInv' /\ Kept
<1>1. /\ arrays' \in Seq(Slices)
      /\ DOMAIN arrays' = DOMAIN arrays \cup {newArray(a).ref}
      /\ newArray(a).ref \notin DOMAIN arrays \cup {Nil}
      /\ \A r \in DOMAIN arrays : arrays'[r] = arrays[r]
  BY NewArray DEF builderWith, IInv
<1>2. /\ maps' \in Seq(Keyed)
      /\ DOMAIN maps' = DOMAIN maps \cup {newMap(m).ref}
      /\ newMap(m).ref \notin DOMAIN maps \cup {Nil}
      /\ \A r \in DOMAIN maps : maps'[r] = maps[r]
  BY NewMap DEF builderWith, IInv
<1>3. Grown /\ Kept
  BY <1>1, <1>2, KeptUnwritten DEF builderWith, Grown
<1>4. /\ builder'.entries = newArray(a).ref /\ builder'.metadata = newMap(m).ref
      /\ builder'.phase = "open"
  BY DEF builderWith
<1>5. [entries |-> <<>>, metadata |-> NoMap] \in View
  BY Contents DEF View
<1>6. builder' \in [entries : ArrayRef', metadata : MapRef', public : BOOLEAN,
                    phase : {"open", "checked", "over"}, checked : View]
  BY <1>1, <1>2, <1>5 DEF builderWith, ArrayRef, MapRef
<1>7. TypeOK'
  BY <1>1, <1>2, <1>3, <1>6, ValuesKept DEF IInv, TypeOK, builderWith, caller
<1>8. \A i \in DOMAIN values : values[i].entries \in ArrayRef /\ values[i].metadata \in MapRef
  BY ValueRefs DEF IInv
<1>9. BuilderApart'
  BY <1>1, <1>2, <1>4, <1>8 DEF IInv, TypeOK, BuilderApart, builderWith, caller, ArrayRef, MapRef
<1>10. ValuesApart' /\ StillChecked'
  BY <1>4 DEF IInv, ValuesApart, StillChecked, builderWith, caller
<1>. QED
  BY <1>3, <1>7, <1>9, <1>10, ValuesKept DEF IInv, builderWith

LEMMA AddEntryKept ==
  ASSUME IInv, AddEntry
  PROVE  IInv' /\ Kept
<1>1. PICK e \in Items : arrays' = [arrays EXCEPT ![builder.entries] = Append(@, e)]
  BY DEF AddEntry
<1>2. builder.phase = "open" /\ UNCHANGED <<maps, caller, builder, values>>
  BY DEF AddEntry
<1>3. builder.entries \in DOMAIN arrays /\ arrays[builder.entries] \in Slices
  BY <1>2 DEF IInv, TypeOK, BuilderApart
<1>4. Append(arrays[builder.entries], e) \in Slices
  BY <1>3 DEF Slices
<1>5. /\ arrays' \in Seq(Slices) /\ DOMAIN arrays' = DOMAIN arrays
      /\ \A r \in DOMAIN arrays \ {builder.entries} : arrays'[r] = arrays[r]
  BY <1>1, <1>3, <1>4 DEF IInv, TypeOK
<1>6. Grown /\ Kept
  BY <1>2, <1>5, KeptUnwritten DEF Grown, IInv, TypeOK
<1>7. TypeOK'
  BY <1>2, <1>5, <1>6, ValuesKept DEF IInv, TypeOK, caller, ArrayRef, MapRef
<1>8. BuilderApart' /\ ValuesApart' /\ StillChecked'
  BY <1>2, <1>5 DEF IInv, BuilderApart, ValuesApart, StillChecked, caller
<1>. QED
  BY <1>2, <1>6, <1>7, <1>8, ValuesKept DEF IInv

LEMMA WithMetadataKept ==
  ASSUME IInv, WithMetadata
  PROVE  IInv' /\ Kept
<1>1. PICK m \in heldMaps : maps' = [maps EXCEPT ![builder.metadata] = setIn(@, mapAt(m))]
  BY DEF WithMetadata, merged
<1>2. /\ builder.phase = "open" /\ UNCHANGED <<arrays, caller, values>>
      /\ builder' = [builder EXCEPT !.metadata = builder.metadata]
  BY DEF WithMetadata, merged
<1>3. UNCHANGED builder
  BY <1>2 DEF IInv, TypeOK
<1>4. builder.metadata \in DOMAIN maps /\ maps[builder.metadata] \in Keyed
  BY <1>2 DEF IInv, TypeOK, BuilderApart
<1>5. m \in MapRef
  BY DEF IInv, TypeOK, MapRef
<1>6. setIn(maps[builder.metadata], mapAt(m)) \in Keyed
  BY <1>4, <1>5, Reading, Merging DEF IInv
<1>7. /\ maps' \in Seq(Keyed) /\ DOMAIN maps' = DOMAIN maps
      /\ \A r \in DOMAIN maps \ {builder.metadata} : maps'[r] = maps[r]
  BY <1>1, <1>4, <1>6 DEF IInv, TypeOK
<1>8. Grown /\ Kept
  BY <1>2, <1>3, <1>7, KeptUnwritten DEF Grown, IInv, TypeOK
<1>9. TypeOK'
  BY <1>2, <1>3, <1>7, <1>8, ValuesKept DEF IInv, TypeOK, caller, ArrayRef, MapRef
<1>10. BuilderApart' /\ ValuesApart' /\ StillChecked'
  BY <1>2, <1>3, <1>7 DEF IInv, BuilderApart, ValuesApart, StillChecked, caller
<1>. QED
  BY <1>2, <1>8, <1>9, <1>10, ValuesKept DEF IInv

LEMMA CheckKept ==
  ASSUME IInv, Check \/ Reject
  PROVE  IInv' /\ Kept
<1>1. UNCHANGED <<arrays, maps, caller, values>>
  BY DEF Check, Reject
<1>2. Grown /\ Kept
  BY <1>1, KeptUnwritten DEF Grown, IInv, TypeOK
<1>3. view(builder) \in View
  BY Reading DEF IInv, TypeOK, view, View
<1>4. /\ builder' \in [entries : ArrayRef, metadata : MapRef, public : BOOLEAN,
                       phase : {"open", "checked", "over"}, checked : View]
      /\ builder'.entries = builder.entries /\ builder'.metadata = builder.metadata
      /\ builder.phase # "over"
      /\ builder'.phase = "checked" => builder'.checked = view(builder)
  BY <1>3 DEF IInv, TypeOK, Check, Reject
<1>5. view(builder)' = view(builder)
  BY <1>1, <1>4 DEF view, arrayAt, mapAt
<1>6. TypeOK'
  BY <1>1, <1>2, <1>4, ValuesKept DEF IInv, TypeOK, caller, ArrayRef, MapRef
<1>7. BuilderApart' /\ ValuesApart' /\ StillChecked'
  BY <1>1, <1>4, <1>5 DEF IInv, BuilderApart, ValuesApart, StillChecked, caller
<1>. QED
  BY <1>1, <1>2, <1>6, <1>7, ValuesKept DEF IInv

(* A value that is added has memory of its own, which holds what was       *)
(* checked.                                                                *)
LEMMA ValueAdded ==
  ASSUME IInv, Kept, Grown, NEW v \in ValueSet', values' = Append(values, v),
         view(v)' = v.checked
  PROVE  /\ values' \in Seq(ValueSet')
         /\ ValuesAsChecked'
         /\ \A i \in DOMAIN values' : (i \in DOMAIN values /\ values'[i] = values[i]) \/ values'[i] = v
<1>1. ArrayRef \subseteq ArrayRef' /\ MapRef \subseteq MapRef'
  BY DEF Grown, ArrayRef, MapRef
<1>2. ValueSet \subseteq ValueSet'
  BY <1>1 DEF ValueSet
<1>3. values \in Seq(ValueSet) /\ values \in Seq(ValueSet')
  BY <1>2 DEF IInv, TypeOK
<1>4. values' \in Seq(ValueSet')
  BY <1>3
<1>5. \A i \in DOMAIN values' : (i \in DOMAIN values /\ values'[i] = values[i]) \/ values'[i] = v
  BY <1>3
<1>6. ASSUME NEW i \in DOMAIN values' PROVE view(values[i])' = values'[i].checked
  <2>1. CASE i \in DOMAIN values /\ values'[i] = values[i]
    <3>1. view(values[i])' = view(values[i])
      BY <2>1 DEF Kept
    <3>2. view(values[i]) = values[i].checked
      BY <2>1 DEF IInv, ValuesAsChecked
    <3>. QED
      BY <2>1, <3>1, <3>2
  <2>2. CASE values'[i] = v
    <3>1. view(values[i])' = view(v)'
      BY <2>2 DEF view
    <3>. QED
      BY <2>2, <3>1
  <2>. QED
    BY <1>5, <2>1, <2>2
<1>. QED
  BY <1>4, <1>5, <1>6 DEF ValuesAsChecked

LEMMA ReturnKept ==
  ASSUME IInv, Return
  PROVE  IInv' /\ Kept
<1>. DEFINE c == arrayAt(builder.entries)
            d == mapAt(builder.metadata)
<1>. PICK v : v = [entries |-> newArray(c).ref, metadata |-> newMap(d).ref,
                   checked |-> builder.checked]
  OBVIOUS
<1>1. /\ arrays' = newArray(c).heap /\ maps' = newMap(d).heap
      /\ values' = Append(values, v)
      /\ builder.phase = "checked"
      /\ builder' = [builder EXCEPT !.phase = "over"] /\ UNCHANGED caller
  BY DEF Return, copyMetadata
<1>2. c \in Slices /\ d \in Keyed /\ builder.checked \in View
  BY Reading DEF IInv, TypeOK
<1>3. /\ arrays' \in Seq(Slices)
      /\ DOMAIN arrays' = DOMAIN arrays \cup {newArray(c).ref}
      /\ newArray(c).ref \notin DOMAIN arrays \cup {Nil}
      /\ arrays'[newArray(c).ref] = c
      /\ \A r \in DOMAIN arrays : arrays'[r] = arrays[r]
  BY <1>1, <1>2, NewArray DEF IInv
<1>4. /\ maps' \in Seq(Keyed)
      /\ DOMAIN maps' = DOMAIN maps \cup {newMap(d).ref}
      /\ newMap(d).ref \notin DOMAIN maps \cup {Nil}
      /\ maps'[newMap(d).ref] = d
      /\ \A r \in DOMAIN maps : maps'[r] = maps[r]
  BY <1>1, <1>2, NewMap DEF IInv
<1>5. Grown
  BY <1>3, <1>4 DEF Grown
<1>6. Kept
  BY <1>1, <1>3, <1>4, KeptUnwritten
<1>7. v \in ValueSet'
  BY <1>2, <1>3, <1>4 DEF ValueSet, ArrayRef, MapRef
<1>8. view(v)' = view(builder)
  BY <1>3, <1>4 DEF view, arrayAt, mapAt
<1>9. view(v)' = v.checked
  BY <1>1, <1>8 DEF IInv, StillChecked
<1>10. /\ values' \in Seq(ValueSet') /\ ValuesAsChecked'
       /\ \A i \in DOMAIN values' : (i \in DOMAIN values /\ values'[i] = values[i]) \/ values'[i] = v
  BY <1>1, <1>5, <1>6, <1>7, <1>9, ValueAdded
<1>11. TypeOK'
  BY <1>1, <1>3, <1>4, <1>10 DEF IInv, TypeOK, caller, ArrayRef, MapRef
<1>12. ValuesApart'
  <2>1. /\ v.entries \notin heldArrays /\ v.metadata \notin heldMaps
    BY <1>3, <1>4 DEF IInv, TypeOK
  <2>. QED
    BY <1>1, <1>10, <2>1 DEF IInv, ValuesApart, caller
<1>13. BuilderApart' /\ StillChecked'
  BY <1>1 DEF IInv, TypeOK, BuilderApart, StillChecked
<1>. QED
  BY <1>6, <1>10, <1>11, <1>12, <1>13 DEF IInv

LEMMA AccountKept ==
  ASSUME IInv, NewAccount
  PROVE  IInv' /\ Kept
<1>1. PICK m \in heldMaps \cup {Nil} :
        /\ maps' = copyMetadata(m).heap
        /\ values' = Append(values,
             [entries |-> Nil, metadata |-> copyMetadata(m).ref,
              checked |-> [entries |-> <<>>, metadata |-> mapAt(m)]])
        /\ UNCHANGED <<arrays, caller, builder>>
  BY DEF NewAccount
<1>. DEFINE d == mapAt(m)
<1>. PICK v : v = [entries |-> Nil, metadata |-> newMap(d).ref,
                   checked |-> [entries |-> <<>>, metadata |-> d]]
  OBVIOUS
<1>2. maps' = newMap(d).heap /\ values' = Append(values, v)
  BY <1>1 DEF copyMetadata
<1>3. d \in Keyed /\ v.checked \in View
  BY Reading, Contents DEF IInv, TypeOK, MapRef, View
<1>4. /\ maps' \in Seq(Keyed)
      /\ DOMAIN maps' = DOMAIN maps \cup {newMap(d).ref}
      /\ newMap(d).ref \notin DOMAIN maps \cup {Nil}
      /\ maps'[newMap(d).ref] = d
      /\ \A r \in DOMAIN maps : maps'[r] = maps[r]
  BY <1>2, <1>3, NewMap DEF IInv
<1>5. Grown
  BY <1>1, <1>4 DEF Grown, IInv, TypeOK
<1>6. Kept
  BY <1>1, <1>2, <1>4, KeptUnwritten
<1>7. v \in ValueSet'
  BY <1>3, <1>4 DEF ValueSet, ArrayRef, MapRef
<1>8. view(v)' = v.checked
  BY <1>4 DEF view, arrayAt, mapAt
<1>9. /\ values' \in Seq(ValueSet') /\ ValuesAsChecked'
      /\ \A i \in DOMAIN values' : (i \in DOMAIN values /\ values'[i] = values[i]) \/ values'[i] = v
  BY <1>2, <1>5, <1>6, <1>7, <1>8, ValueAdded
<1>10. TypeOK'
  BY <1>1, <1>4, <1>9 DEF IInv, TypeOK, caller, ArrayRef, MapRef
<1>11. /\ Nil \notin DOMAIN arrays
       /\ Nil \notin heldArrays /\ newMap(d).ref \notin heldMaps
  BY <1>4 DEF IInv, TypeOK, Nil
<1>12. ValuesApart'
  BY <1>1, <1>9, <1>11 DEF IInv, ValuesApart, caller
<1>13. BuilderApart'
  BY <1>1, <1>4, <1>9, <1>11 DEF IInv, BuilderApart, caller
<1>14. StillChecked'
  BY <1>1, <1>4 DEF IInv, TypeOK, StillChecked, view, arrayAt, mapAt, MapRef
<1>. QED
  BY <1>6, <1>9, <1>10, <1>12, <1>13, <1>14 DEF IInv

(* A slice or a map of the caller's own, made by it or handed to it as a   *)
(* copy by an accessor.                                                    *)
LEMMA GivenArrayKept ==
  ASSUME IInv, NEW c \in Slices, arrays' = newArray(c).heap,
         heldArrays' = heldArrays \cup {newArray(c).ref},
         UNCHANGED <<maps, heldMaps, builder, values>>
  PROVE  IInv' /\ Kept
<1>1. /\ arrays' \in Seq(Slices)
      /\ DOMAIN arrays' = DOMAIN arrays \cup {newArray(c).ref}
      /\ newArray(c).ref \notin DOMAIN arrays \cup {Nil}
      /\ \A r \in DOMAIN arrays : arrays'[r] = arrays[r]
  BY NewArray DEF IInv
<1>2. Grown
  BY <1>1 DEF Grown, IInv, TypeOK
<1>3. Kept
  BY <1>1, KeptUnwritten
<1>4. TypeOK'
  BY <1>1, <1>2, <1>3, ValuesKept DEF IInv, TypeOK, ArrayRef, MapRef
<1>5. BuilderApart'
  BY <1>1 DEF IInv, BuilderApart
<1>6. ValuesApart'
  BY <1>1, ValueRefs DEF IInv, ValuesApart, ArrayRef
<1>7. StillChecked'
  BY <1>1 DEF IInv, TypeOK, StillChecked, view, arrayAt, mapAt, ArrayRef
<1>. QED
  BY <1>2, <1>3, <1>4, <1>5, <1>6, <1>7, ValuesKept DEF IInv

LEMMA GivenMapKept ==
  ASSUME IInv, NEW c \in Keyed, maps' = newMap(c).heap,
         heldMaps' = heldMaps \cup {newMap(c).ref},
         UNCHANGED <<arrays, heldArrays, builder, values>>
  PROVE  IInv' /\ Kept
<1>1. /\ maps' \in Seq(Keyed)
      /\ DOMAIN maps' = DOMAIN maps \cup {newMap(c).ref}
      /\ newMap(c).ref \notin DOMAIN maps \cup {Nil}
      /\ \A r \in DOMAIN maps : maps'[r] = maps[r]
  BY NewMap DEF IInv
<1>2. Grown
  BY <1>1 DEF Grown, IInv, TypeOK
<1>3. Kept
  BY <1>1, KeptUnwritten
<1>4. TypeOK'
  BY <1>1, <1>2, <1>3, ValuesKept DEF IInv, TypeOK, ArrayRef, MapRef
<1>5. BuilderApart'
  BY <1>1 DEF IInv, BuilderApart
<1>6. ValuesApart'
  BY <1>1, ValueRefs DEF IInv, ValuesApart, MapRef
<1>7. StillChecked'
  BY <1>1 DEF IInv, TypeOK, StillChecked, view, arrayAt, mapAt, MapRef
<1>. QED
  BY <1>2, <1>3, <1>4, <1>5, <1>6, <1>7, ValuesKept DEF IInv

LEMMA WriteKept ==
  ASSUME IInv, Write
  PROVE  IInv' /\ Kept
<1>1. CASE \E r \in heldArrays, c \in Arrays :
             arrays' = [arrays EXCEPT ![r] = c] /\ UNCHANGED <<maps, caller, builder, values>>
  <2>1. PICK r \in heldArrays, c \in Arrays :
          arrays' = [arrays EXCEPT ![r] = c] /\ UNCHANGED <<maps, caller, builder, values>>
    BY <1>1
  <2>2. c \in Slices
    BY Contents
  <2>3. /\ arrays' \in Seq(Slices) /\ DOMAIN arrays' = DOMAIN arrays
        /\ \A s \in DOMAIN arrays \ heldArrays : arrays'[s] = arrays[s]
    BY <2>1, <2>2 DEF IInv, TypeOK
  <2>4. Grown /\ Kept
    BY <2>1, <2>3, KeptUnwritten DEF Grown, IInv, TypeOK
  <2>5. TypeOK'
    BY <2>1, <2>3, <2>4, ValuesKept DEF IInv, TypeOK, caller, ArrayRef, MapRef
  <2>6. BuilderApart' /\ ValuesApart'
    BY <2>1, <2>3 DEF IInv, BuilderApart, ValuesApart, caller
  <2>7. StillChecked'
    BY <2>1, <2>3 DEF IInv, StillChecked, BuilderApart, view, arrayAt, mapAt
  <2>. QED
    BY <2>1, <2>4, <2>5, <2>6, <2>7, ValuesKept DEF IInv
<1>2. CASE \E r \in heldMaps, c \in Maps :
             maps' = [maps EXCEPT ![r] = c] /\ UNCHANGED <<arrays, caller, builder, values>>
  <2>1. PICK r \in heldMaps, c \in Maps :
          maps' = [maps EXCEPT ![r] = c] /\ UNCHANGED <<arrays, caller, builder, values>>
    BY <1>2
  <2>2. c \in Keyed
    BY Contents
  <2>3. /\ maps' \in Seq(Keyed) /\ DOMAIN maps' = DOMAIN maps
        /\ \A s \in DOMAIN maps \ heldMaps : maps'[s] = maps[s]
    BY <2>1, <2>2 DEF IInv, TypeOK
  <2>4. Grown /\ Kept
    BY <2>1, <2>3, KeptUnwritten DEF Grown, IInv, TypeOK
  <2>5. TypeOK'
    BY <2>1, <2>3, <2>4, ValuesKept DEF IInv, TypeOK, caller, ArrayRef, MapRef
  <2>6. BuilderApart' /\ ValuesApart'
    BY <2>1, <2>3 DEF IInv, BuilderApart, ValuesApart, caller
  <2>7. StillChecked'
    BY <2>1, <2>3 DEF IInv, StillChecked, BuilderApart, view, arrayAt, mapAt
  <2>. QED
    BY <2>1, <2>4, <2>5, <2>6, <2>7, ValuesKept DEF IInv
<1>. QED
  BY <1>1, <1>2 DEF Write

LEMMA StutterKept ==
  ASSUME IInv, UNCHANGED vars
  PROVE  IInv' /\ Kept
<1>. USE DEF vars
<1>1. Grown /\ Kept
  BY KeptUnwritten DEF Grown, IInv, TypeOK
<1>2. TypeOK'
  BY <1>1, ValuesKept DEF IInv, TypeOK, ArrayRef, MapRef
<1>3. BuilderApart' /\ ValuesApart' /\ StillChecked'
  BY DEF IInv, BuilderApart, ValuesApart, StillChecked, view, arrayAt, mapAt
<1>. QED
  BY <1>1, <1>2, <1>3, ValuesKept DEF IInv

LEMMA IInit == Init => IInv
<1>. SUFFICES ASSUME Init PROVE IInv
  OBVIOUS
<1>1. arrays = <<Table>> /\ DOMAIN arrays = {1} /\ arrays[1] = Table
  BY DEF Init
<1>2. maps = <<>> /\ DOMAIN maps = {}
  BY DEF Init
<1>3. arrays \in Seq(Slices) /\ maps \in Seq(Keyed)
  BY <1>1, <1>2, Contents
<1>. DEFINE v == [entries |-> 1, metadata |-> Nil,
                  checked |-> [entries |-> Table, metadata |-> NoMap]]
<1>4. values = <<v>> /\ v \in ValueSet
  BY <1>1, Contents DEF Init, ValueSet, View, ArrayRef, MapRef
<1>5. TypeOK
  BY <1>3, <1>4, Contents DEF Init, TypeOK, View, ArrayRef, MapRef
<1>6. view(v) = v.checked
  BY <1>1 DEF view, arrayAt, mapAt, Nil
<1>. HIDE DEF v
<1>7. ValuesAsChecked
  BY <1>4, <1>6 DEF ValuesAsChecked
<1>8. BuilderApart /\ ValuesApart /\ StillChecked
  BY DEF Init, BuilderApart, ValuesApart, StillChecked
<1>. QED
  BY <1>5, <1>7, <1>8 DEF IInv

LEMMA IStep == IInv /\ [Next]_vars => IInv' /\ Kept
<1>. SUFFICES ASSUME IInv, [Next]_vars PROVE IInv' /\ Kept
  OBVIOUS
<1>1. CASE NewTxBuilder
  BY <1>1, StartKept, Contents DEF NewTxBuilder
<1>2. CASE ValidateTransaction
  <2>1. PICK a \in heldArrays \cup {Nil}, m \in heldMaps \cup {Nil} :
          builderWith(newArray(arrayAt(a)), newMap(mapAt(m)), FALSE)
    BY <1>2 DEF ValidateTransaction, inputEntries
  <2>2. arrayAt(a) \in Slices /\ mapAt(m) \in Keyed
    BY Reading DEF IInv, TypeOK, ArrayRef, MapRef
  <2>. QED
    BY <2>1, <2>2, StartKept
<1>3. CASE AddEntry
  BY <1>3, AddEntryKept
<1>4. CASE WithMetadata
  BY <1>4, WithMetadataKept
<1>5. CASE Check \/ Reject
  BY <1>5, CheckKept
<1>6. CASE Return
  BY <1>6, ReturnKept
<1>7. CASE NewAccount
  BY <1>7, AccountKept
<1>8. CASE Entries
  <2>1. PICK i \in DOMAIN values :
          /\ arrays' = newArray(arrayAt(values[i].entries)).heap
          /\ heldArrays' = heldArrays \cup {newArray(arrayAt(values[i].entries)).ref}
          /\ UNCHANGED <<maps, heldMaps, builder, values>>
    BY <1>8 DEF Entries, entriesOf
  <2>2. arrayAt(values[i].entries) \in Slices
    BY Reading, ValueRefs DEF IInv
  <2>. QED
    BY <2>1, <2>2, GivenArrayKept
<1>9. CASE Metadata
  <2>1. PICK i \in DOMAIN values :
          /\ maps' = newMap(mapAt(values[i].metadata)).heap
          /\ heldMaps' = heldMaps \cup {newMap(mapAt(values[i].metadata)).ref}
          /\ UNCHANGED <<arrays, heldArrays, builder, values>>
    BY <1>9 DEF Metadata, metadataOf, copyMetadata
  <2>2. mapAt(values[i].metadata) \in Keyed
    BY Reading, ValueRefs DEF IInv
  <2>. QED
    BY <2>1, <2>2, GivenMapKept
<1>10. CASE Make
  BY <1>10, Contents, GivenArrayKept, GivenMapKept DEF Make
<1>11. CASE Write
  BY <1>11, WriteKept
<1>12. CASE UNCHANGED vars
  BY <1>12, StutterKept
<1>. QED
  BY <1>1, <1>2, <1>3, <1>4, <1>5, <1>6, <1>7, <1>8, <1>9, <1>10, <1>11, <1>12
  DEF Next, Library

(***************************************************************************)
(* What the library promises of memory.                                    *)
(***************************************************************************)
THEOREM Inductive == Spec => []IInv
BY IInit, IStep, PTL DEF Spec

(* Values hold what was checked, whatever the caller writes and when. *)
THEOREM ValuesStayAsChecked == Spec => []ValuesAsChecked
<1>1. IInv => ValuesAsChecked
  BY DEF IInv
<1>. QED
  BY <1>1, Inductive, PTL

(* A value that was returned never changes. *)
THEOREM ValuesNeverChange == Spec => ValuesFrozen
<1>1. Kept => \A i \in DOMAIN values : view(values[i])' = view(values[i])
  BY DEF Kept
<1>. QED
  BY <1>1, IInit, IStep, PTL DEF Spec, ValuesFrozen

(* A call of the library writes to no slice and no map it has not made.    *)
LEMMA LibraryWrites ==
  ASSUME IInv, Library
  PROVE  /\ \A r \in heldArrays : arrays'[r] = arrays[r]
         /\ \A r \in heldMaps : maps'[r] = maps[r]
<1>. DEFINE ArraysLeft == \A r \in heldArrays : arrays'[r] = arrays[r]
            MapsLeft   == \A r \in heldMaps : maps'[r] = maps[r]
<1>. SUFFICES ArraysLeft /\ MapsLeft
  OBVIOUS
<1>1. ASSUME NEW c \in Slices, arrays' = newArray(c).heap PROVE ArraysLeft
  BY <1>1, NewArray DEF IInv, TypeOK
<1>2. ASSUME NEW c \in Keyed, maps' = newMap(c).heap PROVE MapsLeft
  BY <1>2, NewMap DEF IInv, TypeOK
<1>3. UNCHANGED arrays => ArraysLeft
  OBVIOUS
<1>4. UNCHANGED maps => MapsLeft
  OBVIOUS
<1>5. /\ \A a \in heldArrays \cup {Nil} : arrayAt(a) \in Slices
      /\ \A m \in heldMaps \cup {Nil} : mapAt(m) \in Keyed
      /\ \A i \in DOMAIN values : /\ arrayAt(values[i].entries) \in Slices
                                 /\ mapAt(values[i].metadata) \in Keyed
      /\ arrayAt(builder.entries) \in Slices /\ mapAt(builder.metadata) \in Keyed
  BY Reading, ValueRefs DEF IInv, TypeOK, ArrayRef, MapRef
<1>. HIDE DEF ArraysLeft, MapsLeft
<1>6. CASE NewTxBuilder
  BY <1>1, <1>2, <1>6, Contents DEF NewTxBuilder, builderWith
<1>7. CASE ValidateTransaction
  BY <1>1, <1>2, <1>5, <1>7 DEF ValidateTransaction, builderWith, inputEntries
<1>8. CASE AddEntry
  <2>1. ArraysLeft
    BY <1>8 DEF AddEntry, IInv, TypeOK, BuilderApart, ArraysLeft
  <2>. QED
    BY <1>4, <1>8, <2>1 DEF AddEntry
<1>9. CASE WithMetadata
  <2>1. MapsLeft
    BY <1>9 DEF WithMetadata, merged, IInv, TypeOK, BuilderApart, MapsLeft
  <2>. QED
    BY <1>3, <1>9, <2>1 DEF WithMetadata
<1>10. CASE Check \/ Reject
  BY <1>3, <1>4, <1>10 DEF Check, Reject
<1>11. CASE Return
  BY <1>1, <1>2, <1>5, <1>11 DEF Return, copyMetadata
<1>12. CASE NewAccount
  BY <1>2, <1>3, <1>5, <1>12 DEF NewAccount, copyMetadata
<1>13. CASE Entries
  BY <1>1, <1>4, <1>5, <1>13 DEF Entries, entriesOf
<1>14. CASE Metadata
  BY <1>2, <1>3, <1>5, <1>14 DEF Metadata, metadataOf, copyMetadata
<1>. QED
  BY <1>6, <1>7, <1>8, <1>9, <1>10, <1>11, <1>12, <1>13, <1>14 DEF Library

(* The library never writes to a slice or a map of the caller's.           *)
THEOREM CallerKeepsItsMemory == Spec => CallerMemoryUntouched
BY IInit, IStep, LibraryWrites, PTL DEF Spec, CallerMemoryUntouched
===============================================================================
