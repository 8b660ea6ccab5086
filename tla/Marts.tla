-------------------------------- MODULE Marts --------------------------------
(***************************************************************************)
(* What dbt makes of the Raw tables, and what a release takes from it.     *)
(*                                                                         *)
(* Raw holds one accepted source per cell (month, reporter, product) and   *)
(* kind.  A build of a run replaces the fact partitions of its own months  *)
(* and recreates two views, whose month spine ends where that run ends:    *)
(* the next build of another run moves the end of the views for everyone.  *)
(* A release reads both views up to the end of its run, validates the rows *)
(* and is refused if Raw has changed since its build.                      *)
(*                                                                         *)
(* Loader and Pipeline model how these steps interleave; here each is one  *)
(* step and the tables have rows.                                          *)
(***************************************************************************)
EXTENDS Integers, FiniteSets, FiniteSetsExt

CONSTANTS NumMonths,   \* the months from the start of the data are 1..NumMonths
          Year,        \* months in a year
          Reporters,   \* importing markets
          Products,    \* IC products
          Countries,   \* partners that dim_countries verifies as a country
          Answers,     \* contents of a detail source: partner to value
          Totals,      \* contents of a World total
          Backgrounds, \* what earlier runs have loaded: records of detail and world
          Runs,        \* records of months, end and full (--full-refresh)
          None,        \* SQL's NULL, no snapshot, no evidence
          Changing,    \* bound: the cells whose sources change
          MaxLoads     \* bound on the sources loaded

Months == 1..NumMonths

Cells == Months \X Reporters \X Products

NoRows == <<>>

ASSUME MartsAssumption ==
  /\ NumMonths \in Nat \ {0}
  /\ Year \in Nat \ {0}
  /\ IsFiniteSet(Products) /\ IsFiniteSet(Countries)
  /\ \A a \in Answers : \A k \in DOMAIN a : a[k] \in Nat
  /\ Totals \subseteq Nat
  /\ None \notin Nat
  /\ \A b \in Backgrounds :
       /\ DOMAIN b.detail = Cells /\ \A c \in Cells : b.detail[c] \in Answers \cup {NoRows}
       /\ b.world \in [Cells -> Totals \cup {None}]
  /\ \A r \in Runs : r.months \subseteq 1..r.end /\ r.end \in Months /\ r.full \in BOOLEAN
  /\ Changing \subseteq Cells
  /\ MaxLoads \in Nat

VARIABLES detail,   \* detail[c]: the rows of the accepted source of a cell
          world,    \* world[c]: its World total
          facts,    \* facts[c]: the country rows in fct_multi_market_ic_imports
          spineEnd, \* multi_market_end_date of the views, 0 before the first build
          loads,    \* sources loaded so far: the Raw watermark (and its bound)
          evidence, \* evidence[r]: the watermark of the latest build of run r
          snapshot  \* the latest release

vars == <<detail, world, facts, spineEnd, loads, evidence, snapshot>>

-----------------------------------------------------------------------------
(* fct_multi_market_ic_imports, the two views and their contract *)

CountryRows(source) == [k \in (DOMAIN source) \cap Countries |-> source[k]]

\* What a build selects: the country rows of the accepted source.
Selected(c) == CountryRows(detail[c])

\* Partitions are months, of all markets and products.
HasRows(m) == \E c \in Cells : c[1] = m /\ DOMAIN Selected(c) # {}

\* Mutant: the partition is merged by partner.
MergedByPartner(r, c) ==
  LET old == facts[c]
      new == Selected(c) IN
  IF c[1] \in r.months
    THEN [k \in (DOMAIN old) \cup (DOMAIN new) |-> IF k \in DOMAIN new THEN new[k] ELSE old[k]]
    ELSE old

\* insert_overwrite replaces the partitions of which it has selected a row.  The table
\* is made from all of Raw when it does not exist, or with --full-refresh.
Refreshed(r, c) ==
  IF r.full \/ spineEnd = 0 \/ (c[1] \in r.months /\ HasRows(c[1]))
    THEN Selected(c)
    ELSE facts[c]

Scope(c) == <<c[2], c[3]>>

\* Scopes come from all months; the spine gives each of them every month.
Scopes == {Scope(c) : c \in {c \in Cells : DOMAIN facts[c] # {} \/ world[c] # None}}

Before(c, offset) == <<c[1] - offset, c[2], c[3]>>

\* mart_multi_market_ic_monthly, its metrics but those of the World total left out.
Monthly ==
  [c \in {<<m, s[1], s[2]>> : m \in 1..spineEnd, s \in Scopes} |->
    [world |-> world[c],
     previousYear |-> IF c[1] > Year THEN world[Before(c, Year)] ELSE None,
     countries |-> DOMAIN facts[c] # {}]]

FactOf(c, k) == IF c \in Cells /\ k \in DOMAIN facts[c] THEN facts[c][k] ELSE None

\* mart_multi_market_ic_partners: self-joins by calendar, not by previous row.
Partners ==
  [g \in {g \in Cells \X Countries : g[2] \in DOMAIN facts[g[1]]} |->
    [value |-> FactOf(g[1], g[2]),
     previousMonth |-> FactOf(Before(g[1], 1), g[2]),
     previousYear |-> FactOf(Before(g[1], Year), g[2])]]

Within(rows, keys) == [k \in (DOMAIN rows) \cap keys |-> rows[k]]

\* SnapshotReader.read: both views from the first month to the end of the run.
Read(end) ==
  LET cells == {c \in Cells : c[1] <= end} IN
  [monthly |-> Within(Monthly, cells), partners |-> Within(Partners, cells \X Countries)]

HasData(row) == row.world # None \/ row.countries

\* Mutant: the months of a scope may end early.
ValidUpToSpine(raw, end) ==
  /\ DOMAIN raw.monthly # {}
  /\ \E c \in DOMAIN raw.monthly : HasData(raw.monthly[c])

\* validate_v2: every scope has every month, something has data, and partners are
\* rows of a scope and a month.
Valid(raw, end) ==
  LET cells == DOMAIN raw.monthly IN
  /\ cells # {}
  /\ \A c \in cells, m \in 1..end : <<m, c[2], c[3]>> \in cells
  /\ \E c \in cells : HasData(raw.monthly[c])
  /\ \A g \in DOMAIN raw.partners : g[1] \in cells

\* scope_metadata: the months in which a market and product have data.
Availability(monthly) ==
  LET cells == {c \in DOMAIN monthly : HasData(monthly[c])} IN
  [s \in {Scope(c) : c \in cells} |-> {c[1] : c \in {c \in cells : Scope(c) = s}}]

-----------------------------------------------------------------------------
Init ==
  /\ \E b \in Backgrounds : detail = b.detail /\ world = b.world
  /\ facts = [c \in Cells |-> NoRows]
  /\ spineEnd = 0
  /\ loads = 0
  /\ evidence = [r \in Runs |-> None]
  /\ snapshot = None

\* The transaction of load_month replaces a source whole.
LoadDetail(c) ==
  /\ loads < MaxLoads
  /\ \E a \in Answers \ {detail[c]} : detail' = [detail EXCEPT ![c] = a]
  /\ loads' = loads + 1
  /\ UNCHANGED <<world, facts, spineEnd, evidence, snapshot>>

LoadWorld(c) ==
  /\ loads < MaxLoads
  /\ \E t \in Totals \ {world[c]} : world' = [world EXCEPT ![c] = t]
  /\ loads' = loads + 1
  /\ UNCHANGED <<detail, facts, spineEnd, evidence, snapshot>>

\* dbt build with the months and the end of the run.
Build(r) ==
  /\ facts' = [c \in Cells |-> Refreshed(r, c)]
  /\ spineEnd' = r.end
  /\ evidence' = [evidence EXCEPT ![r] = loads]
  /\ UNCHANGED <<detail, world, loads, snapshot>>

Publish(r) ==
  /\ evidence[r] = loads
  /\ LET raw == Read(r.end) IN
     /\ Valid(raw, r.end)
     /\ snapshot' = [run |-> r, monthly |-> raw.monthly, partners |-> raw.partners,
                     availability |-> Availability(raw.monthly)]
  /\ UNCHANGED <<detail, world, facts, spineEnd, loads, evidence>>

Next ==
  \/ \E c \in Changing : LoadDetail(c) \/ LoadWorld(c)
  \/ \E r \in Runs : Build(r) \/ Publish(r)

Spec == Init /\ [][Next]_vars

-----------------------------------------------------------------------------
\* A release shows every World total of Raw up to the end of its run, whoever has
\* recreated the views last, and exactly the accepted country rows for the months of
\* its run: nothing of a partner that a newer source has dropped.  A month that has
\* lost its last country row is the exception: insert_overwrite does not touch it.
ReleaseShowsRaw ==
  [][snapshot' # snapshot =>
       LET s == snapshot' IN
       \A c \in Cells :
         /\ c[1] <= s.run.end /\ world[c] # None =>
              c \in DOMAIN s.monthly /\ s.monthly[c].world = world[c]
         /\ c[1] \in s.run.months /\ HasRows(c[1]) =>
              \A k \in Countries :
                IF k \in DOMAIN detail[c]
                  THEN <<c, k>> \in DOMAIN s.partners
                       /\ s.partners[<<c, k>>].value = detail[c][k]
                  ELSE <<c, k>> \notin DOMAIN s.partners]_vars

=============================================================================
