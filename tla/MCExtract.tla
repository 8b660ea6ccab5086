----------------------------- MODULE MCExtract -----------------------------
(***************************************************************************)
(* Small instances of Extract: two runs, one month and product, one or two *)
(* reporters, contents in two HS editions.                                 *)
(***************************************************************************)
EXTENDS Extract, TLC

CONSTANTS old, new, us, jp

\* Two contents of edition H5 and one of H6.
MCContent == {"a", "b", "c"}
MCEdition == "a" :> "H5" @@ "b" :> "H5" @@ "c" :> "H6"

\* A refreshing run and one that only fills gaps.
MCRefreshOne == old :> FALSE @@ new :> TRUE
MCRefreshNew == new :> TRUE
MCRefreshBoth == old :> TRUE @@ new :> TRUE

MCSymmetry == Permutations(Reporters)

=============================================================================
