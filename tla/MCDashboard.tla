----------------------------- MODULE MCDashboard -----------------------------
(***************************************************************************)
(* A small instance of Dashboard: three months, years of two, two markets, *)
(* two products, two countries and a special area.                         *)
(***************************************************************************)
EXTENDS Dashboard, TLC

CONSTANTS china, japan, other

Both == china :> 2 @@ japan :> 1
One == china :> 3 @@ other :> 1
Neither == other :> 1

MCAnswers == {Both, One, Neither}
MCTotals == {0, 4}

MCCells == (1..3) \X {"us", "kr"} \X {"memory", "parts"}

\* The second market has no parts in the first month and no World total in the second.
MCBackgrounds ==
  {[detail |-> [c \in MCCells |-> IF c = <<1, "kr", "parts">> THEN <<>> ELSE Both],
    world |-> [c \in MCCells |-> IF c = <<2, "kr", "parts">> THEN None ELSE 4]],
   [detail |-> [c \in MCCells |-> IF c[1] < 3 /\ c[3] = "memory" THEN One ELSE <<>>],
    world |-> [c \in MCCells |-> IF c[3] = "memory" THEN 4 ELSE None]]}

\* Cells of every month, of both markets and of both products.
MCChanging == {<<1, "us", "memory">>, <<3, "us", "memory">>, <<2, "kr", "parts">>}

MCRuns == {[months |-> {1, 2}, end |-> 2, full |-> FALSE],
           [months |-> {2, 3}, end |-> 3, full |-> FALSE]}

=============================================================================
