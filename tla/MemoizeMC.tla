------------------------------ MODULE MemoizeMC ------------------------------
(***************************************************************************)
(* Memoize for TLC.  No definition tells two daemons or two functions      *)
(* apart, so exchanging them maps behaviours to behaviours; the properties *)
(* checked with this symmetry are invariants and action properties.        *)
(***************************************************************************)
EXTENDS Memoize, TLC

Exchanges == Permutations(Daemons) \cup Permutations(Funcs)
=============================================================================
