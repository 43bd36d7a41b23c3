------------------------------ MODULE DeltaMap ------------------------------
(***************************************************************************)
(* What the delta tree of a rewrite buffer promises                        *)
(* (include/clang/Rewrite/DeltaTree.h): it maps offsets of the original    *)
(* file to the change of size made there, and AddDelta adds to one of      *)
(* them.                                                                   *)
(***************************************************************************)
EXTENDS Integers, FiniteSets, FiniteSetsExt

CONSTANTS Locs,     \* offsets in the file at which changes are made
          Changes   \* the changes that may be made at each of them

VARIABLE deltas     \* the change at each offset

(* Nothing was changed.                                                    *)
Init == deltas = [l \in Locs |-> 0]

AddDelta(l, d) == deltas' = [deltas EXCEPT ![l] = @ + d]

Next == \E l \in Locs : \E d \in Changes[l] : AddDelta(l, d)

Spec == Init /\ [][Next]_deltas

(* The accumulated delta of all changes before the given offset.           *)
getDeltaAt(i) == MapThenSumSet(LAMBDA l : deltas[l], {l \in Locs : l < i /\ deltas[l] # 0})
=============================================================================
