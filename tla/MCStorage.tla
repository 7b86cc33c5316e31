------------------------------ MODULE MCStorage ------------------------------
(***************************************************************************)
(* Both sides of the store, for TLC: the symmetry of the statuses and of   *)
(* the requests.                                                           *)
(***************************************************************************)
EXTENDS Storage, TLC

Symmetry == Permutations(Requests) \cup Permutations(Statuses)
=============================================================================
