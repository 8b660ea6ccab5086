----------------------------- MODULE MCPipeline -----------------------------
(***************************************************************************)
(* Small instances of Pipeline: two runs, each with its worker, on two     *)
(* months.                                                                 *)
(***************************************************************************)
EXTENDS Pipeline, TLC

CONSTANTS old, new, worker1, worker2

MCRunOf == worker1 :> old @@ worker2 :> new

\* Run old covers the first month, run new both.
MCOverlapping == old :> {1} @@ new :> {1, 2}

\* Each run covers a month of its own.
MCDisjoint == old :> {1} @@ new :> {2}

\* The export of run old ends before that of run new, or with it.
MCEnds == old :> 1 @@ new :> 2
MCSameEnd == old :> 2 @@ new :> 2

MCNoFullRefresh == old :> FALSE @@ new :> FALSE
MCFullRefreshNew == old :> FALSE @@ new :> TRUE

=============================================================================
