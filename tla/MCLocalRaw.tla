----------------------------- MODULE MCLocalRaw -----------------------------
(***************************************************************************)
(* A small instance of LocalRaw: one market, whose answers differ in       *)
(* content, edition and validity.                                          *)
(***************************************************************************)
EXTENDS LocalRaw, TLC

CONSTANTS fill, refresh, run, elsewhere

MCReporters == {842}
MCEditions == {"H5", "H6"}

MCOrder == <<<<842, "partner_detail">>, <<842, "world_total">>>>

R(reporter, partner, edition, amount) ==
  [reporter |-> reporter, partner |-> partner, edition |-> edition, original |-> TRUE,
   asked |-> TRUE, amount |-> amount, copy |-> 1]

First == {R(842, 1, "H5", 20), R(842, 0, "H5", 20)}

\* Another edition, and a total with more decimals than NUMERIC keeps.
Revised == {R(842, 1, "H6", 30), R(842, 0, "H6", 25)}

\* The amounts fit NUMERIC and their sum does not; there is no World total.
TooMuch == {R(842, 1, "H5", 90), R(842, 2, "H5", 90)}

\* A partner without a code.
Nameless == {R(842, -1, "H5", 20), R(842, 0, "H5", 20)}

\* A partner is reported twice.
Twice == {R(842, 1, "H5", 20), R(842, 1, "H5", 30), R(842, 0, "H5", 50)}

\* A row is repeated as it is.
Repeated == LET row == R(842, 1, "H5", 20) IN {row, [row EXCEPT !.copy = 2]}

\* Converted from another edition, or of one that is not supported.
Converted == {[R(842, 1, "H6", 20) EXCEPT !.original = FALSE], R(842, 0, "S3", 20)}

\* A market that nobody has asked for.
Stray == {R(842, 1, "H5", 20), R(842, 0, "H5", 20), R(410, 1, "H5", 20)}

MCAnswers == {First, Revised, TooMuch, Nameless, Twice, Repeated, Converted, Stray}

MCStarts == fill :> 1 @@ refresh :> 1 @@ run :> 2 @@ elsewhere :> 1

=============================================================================
