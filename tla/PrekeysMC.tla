------------------------------ MODULE PrekeysMC ------------------------------
(* Prekeys for TLC: keys, strangers and identities are interchangeable (the  *)
(* formulas checked are invariants and properties of single steps).          *)
EXTENDS Prekeys, TLC

Symmetry ==
  Permutations(Identity) \cup Permutations(Signed) \cup Permutations(OneTime)
    \cup Permutations(Stranger)
=============================================================================
