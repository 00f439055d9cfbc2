------------------------------- MODULE MCOwnership -------------------------------
(* Instances of Ownership for TLC: two entries, one key, two pointers. *)
EXTENDS Ownership, TLC

CONSTANTS rent, cash, p, q

MCItems  == {rent, cash}
MCArrays == {<<e>> : e \in MCItems}
MCMaps   == {[note |-> x] : x \in {p, q}}
MCTable  == <<"EUR">>

(* Entries and pointers are only copied and compared. *)
Renamed == Permutations(MCItems) \cup Permutations({p, q})
===============================================================================
