--------------------------- MODULE MCFeedCollect ---------------------------
(* Model values and symmetry for model-checking FeedCollect.                *)
EXTENDS FeedCollect, TLC

CONSTANTS c1, c2, p1, p2

Symmetry == Permutations(Threads) \union Permutations(Topics)
=============================================================================
