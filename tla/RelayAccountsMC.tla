--------------------------- MODULE RelayAccountsMC ---------------------------
(* RelayAccounts for TLC: mailboxes, tokens and handlers are interchangeable *)
(* (the formulas checked are invariants and properties of single steps).     *)
EXTENDS RelayAccounts, TLC

Symmetry ==
  Permutations(Mailbox) \cup Permutations(Token) \cup Permutations(Handler)
=============================================================================
