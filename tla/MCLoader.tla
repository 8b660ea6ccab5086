------------------------------ MODULE MCLoader ------------------------------
(***************************************************************************)
(* A small instance of Loader: two load stages, two months, both kinds,    *)
(* one place, three contents.                                              *)
(***************************************************************************)
EXTENDS Loader, TLC

CONSTANTS a, b, c1, c2, c3, none, us

\* One of the stages is executed again.
MCAttempts == a :> 2 @@ b :> 1

MCMonths == {1, 2}
MCPlaces == {us}
MCContent == c1 :> {"p"} @@ c2 :> {"p", "q"} @@ c3 :> {"q"}

V(r, c) == [revision |-> r, checksum |-> c]

\* Every source at its first revision.
First == [k \in Key |-> V(1, c1)]

\* A refresh revised the detail sources; the World totals did not change.
Revised == [k \in Key |-> IF KindOf(k) = "partner_detail" THEN V(2, c2)
                                                           ELSE V(1, c1)]

\* A month revised in full, by another writer and with another content.
Forked == [k \in Key |-> IF MonthOf(k) = 1 THEN V(2, c3) ELSE none]

MCHandoffs == {First, Revised, Forked}

=============================================================================
