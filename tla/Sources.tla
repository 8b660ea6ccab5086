------------------------------ MODULE Sources -------------------------------
(***************************************************************************)
(* What makes the rows of one response a source, and what makes a source   *)
(* readable.  Rows pass accept_response, validate_dataset and              *)
(* build_manifest on their way to disk, and another validator, verify, on  *)
(* every way back: by a later execution, by the upload to S3 and by the    *)
(* load stage.  The two were written apart from each other.                *)
(*                                                                         *)
(* A month and a product are fixed: an identity is a reporter and a kind.  *)
(* An amount is a whole number of parts, of which Unit make the smallest   *)
(* amount that NUMERIC keeps.  Weight and quantity are left out: like an   *)
(* amount they must fit NUMERIC, and nothing else is asked of them.        *)
(***************************************************************************)
EXTENDS Integers, FiniteSets, FiniteSetsExt

CONSTANTS Reporters, \* the markets
          Editions,  \* the HS editions that are supported
          Unit,      \* the parts of the smallest amount of NUMERIC
          Limit,     \* the largest amount of NUMERIC, in parts
          Missing    \* no directory, file, object, source or record

Kinds == {"partner_detail", "world_total"}

Identity == Reporters \X Kinds

\* A row: asked says that month, product, flow, partner2, customs procedure and
\* transport are those of the query.  Rows are kept in sets: copy numbers those that
\* report the very same, so that a repeated row is a second element.
IsRow(r) ==
  /\ DOMAIN r = {"reporter", "partner", "edition", "original", "asked", "amount", "copy"}
  /\ r.partner \in Int
  /\ r.original \in BOOLEAN
  /\ r.asked \in BOOLEAN
  /\ r.amount \in Int
  /\ r.copy \in Nat \ {0}

ASSUME SourcesAssumption ==
  /\ Unit \in Nat \ {0}
  /\ Limit \in Nat
  /\ IsFiniteSet(Editions)

Numeric(amount) == amount % Unit = 0 /\ amount <= Limit /\ -amount <= Limit

Total(rows) == MapThenSumSet(LAMBDA r : r.amount, rows)

KindOf(r) == IF r.partner = 0 THEN "world_total" ELSE "partner_detail"

\* save_extracts: the rows of a response by reporter and kind.
Selected(response, i) == {r \in response : r.reporter = i[1] /\ KindOf(r) = i[2]}

\* A partner reported twice is refused, with the same amount as with another.
OneRowPerPartner(rows) == \A r, s \in rows : r.partner = s.partner => r = s

-----------------------------------------------------------------------------
(* On the way to disk *)

EditionsOf(rows) == {r.edition : r \in rows}

EditionOf(rows) == CHOOSE e \in EditionsOf(rows) : TRUE

\* accept_response: the edition is the one reported, and one that is supported.
OneEdition(rows) ==
  /\ Cardinality(EditionsOf(rows)) = 1
  /\ EditionsOf(rows) \subseteq Editions
  /\ \A r \in rows : r.original

\* Mutant: the rows of a detail source are not checked against each other.
ValidWithoutGrain(i, rows) ==
  /\ \A r \in rows : r.original /\ r.asked /\ r.reporter = i[1] /\ r.amount >= 0
  /\ i[2] = "world_total" => Cardinality(rows) = 1

\* validate_dataset
Valid(i, rows) ==
  /\ \A r \in rows : r.original /\ r.asked /\ r.reporter = i[1] /\ r.amount >= 0
  /\ i[2] = "partner_detail" => OneRowPerPartner(rows)
  /\ i[2] = "world_total" => Cardinality(rows) = 1

Accepted(i, rows) == OneEdition(rows) /\ Valid(i, rows)

\* build_manifest.  The checksum of the data stands for the data; the time of the
\* first write is not compared by anyone and left out.
ManifestOf(i, revision, rows) ==
  [identity |-> i, edition |-> EditionOf(rows), revision |-> revision,
   checksum |-> rows, count |-> Cardinality(rows), sum |-> Total(rows)]

Source(i, revision, rows) == [data |-> rows, manifest |-> ManifestOf(i, revision, rows)]

\* artifact_partition
PathOf(m) == [identity |-> m.identity, edition |-> m.edition, revision |-> m.revision]

-----------------------------------------------------------------------------
(* On the way back *)

\* verify, for the row r of a source whose manifest is m.
VerifiedRow(m, r) ==
  /\ r.asked /\ r.reporter = m.identity[1] /\ r.edition = m.edition
  /\ r.original
  /\ r.partner >= 0
  /\ m.identity[2] = "world_total" <=> r.partner = 0
  /\ r.amount >= 0 /\ Numeric(r.amount)

\* validate_source and verify, for the directory d at path p.
Readable(p, d) ==
  LET m == d.manifest IN
  /\ d.data # Missing /\ m # Missing
  /\ PathOf(m) = p
  /\ m.checksum = d.data
  /\ m.edition \in Editions /\ m.revision >= 1
  /\ m.count = Cardinality(d.data)
  /\ \A r \in d.data : VerifiedRow(m, r)
  /\ OneRowPerPartner(d.data)
  /\ m.identity[2] = "world_total" => Cardinality(d.data) = 1
  /\ m.sum = Total(d.data) /\ Numeric(m.sum)

\* What a source may hold for Raw, whose columns are NUMERIC and whose partners
\* have codes: the part of verify that nothing checks on the way to disk.
Representable(rows) ==
  /\ \A r \in rows : Numeric(r.amount) /\ r.partner >= 0
  /\ Numeric(Total(rows))

=============================================================================
