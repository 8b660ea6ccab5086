------------------------------ MODULE MCFetch -------------------------------
(***************************************************************************)
(* A small instance of Fetch: two jobs and four reporters.                 *)
(***************************************************************************)
EXTENDS Fetch

MCMarkets == <<842, 156, 392, 410>>

\* The first two reporters together are truncated, or the last one alone is.
MCVolumes ==
  {[j \in Jobs |-> [r \in Reporters |-> IF r \in {842, 156} THEN 2 ELSE 1]],
   [j \in Jobs |-> [r \in Reporters |-> IF j = 2 /\ r = 410 THEN 4 ELSE 1]]}

\* What an earlier run has left to ask of the second job is two reporters.
MCWanted == ({1} \X Reporters) \cup ({2} \X {842, 410})

\* Reporters that all have rows, or of which one has none.
MCGaps ==
  {[j \in Jobs |-> [r \in Reporters |-> 1]],
   [j \in Jobs |-> [r \in Reporters |-> IF r = 410 THEN 0 ELSE 1]]}

MCEverything == Jobs \X Reporters

=============================================================================
