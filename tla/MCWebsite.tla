----------------------------- MODULE MCWebsite ------------------------------
(***************************************************************************)
(* A small instance of Website: two releases, two stagers, one build.      *)
(***************************************************************************)
EXTENDS Website, TLC

CONSTANTS older, newer, first, second

MCSymmetry == Permutations(Stagers) \cup Permutations(Releases)

=============================================================================
