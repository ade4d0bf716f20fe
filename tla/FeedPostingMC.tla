---------------------------- MODULE FeedPostingMC ----------------------------
(* FeedPosting for TLC: mailboxes are interchangeable.                       *)
EXTENDS FeedPosting, TLC

Symmetry == Permutations(Mailbox)
=============================================================================
