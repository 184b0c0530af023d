--------------------------- MODULE MCStoreAdapter ---------------------------
(* Two variables of callers, so that one gets, changes or puts the record    *)
(* that the other holds and has not put, or has put since.  An object each,  *)
(* and one more that is stored and nobody holds.                             *)
EXTENDS StoreAdapter, TLC

Symmetry == Permutations(Clients) \cup Permutations(Objects) \cup Permutations(Changes)
=============================================================================
