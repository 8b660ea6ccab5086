---------------------------- MODULE MartsProofs -----------------------------
(***************************************************************************)
(* Theorems about Marts and Dashboard, for any Raw, runs and months: what  *)
(* a release shows of Raw, what the common months promise, and that the    *)
(* sums of the website are the sums of the rows of the release.            *)
(***************************************************************************)
EXTENDS Dashboard, SumLemmas, TLAPS

-----------------------------------------------------------------------------
(* The inductive invariant *)

Shape ==
  /\ loads \in Nat
  /\ spineEnd \in 0..NumMonths
  /\ DOMAIN facts = Cells
  /\ evidence \in [Runs -> Nat \cup {None}]
  /\ \A r \in Runs : evidence[r] # None => evidence[r] <= loads

\* As long as Raw is what a run has built from, the facts of the months of that run are
\* what Raw has accepted, whoever has built after it.
FactsCurrent ==
  \A r \in Runs : evidence[r] = loads =>
    \A c \in Cells : c[1] \in r.months /\ HasRows(c[1]) => facts[c] = Selected(c)

\* A release lists the months that have data, and cells only.
ReleaseListsMonths ==
  snapshot # None =>
    /\ DOMAIN snapshot.monthly \subseteq Cells
    /\ snapshot.availability = Availability(snapshot.monthly)

MartsInv == Shape /\ FactsCurrent /\ ReleaseListsMonths

\* A cell has three parts.
LEMMA CellFacts ==
  /\ \A c \in Cells : /\ c[1] \in Months /\ c[2] \in Reporters /\ c[3] \in Products
                      /\ c = <<c[1], c[2], c[3]>>
  /\ \A m \in Months, r \in Reporters, p \in Products : <<m, r, p>> \in Cells
BY DEF Cells

LEMMA InitMarts == Init => MartsInv
<1> SUFFICES ASSUME Init PROVE MartsInv
  OBVIOUS
<1>1. Shape
  BY MartsAssumption DEF Init, Shape
<1>2. FactsCurrent
  BY MartsAssumption DEF Init, FactsCurrent
<1> QED BY <1>1, <1>2 DEF Init, MartsInv, ReleaseListsMonths

\* A source that changes outdates the evidence of every build.
LEMMA LoadStep ==
  ASSUME MartsInv, NEW c \in Cells, LoadDetail(c) \/ LoadWorld(c)
  PROVE  MartsInv'
<1>1. /\ loads' = loads + 1
      /\ UNCHANGED <<facts, spineEnd, evidence, snapshot>>
  BY DEF LoadDetail, LoadWorld
<1>2. Shape'
  BY <1>1 DEF MartsInv, Shape
<1>3. \A r \in Runs : evidence'[r] # loads'
  <2>1. \A r \in Runs : evidence[r] = None \/ (evidence[r] \in Nat /\ evidence[r] <= loads)
    BY DEF MartsInv, Shape
  <2>2. loads \in Nat
    BY DEF MartsInv, Shape
  <2> QED BY <1>1, <2>1, <2>2, MartsAssumption
<1>4. FactsCurrent'
  BY <1>3 DEF FactsCurrent
<1>5. ReleaseListsMonths'
  BY <1>1 DEF MartsInv, ReleaseListsMonths
<1> QED BY <1>2, <1>4, <1>5 DEF MartsInv

LEMMA BuildStep ==
  ASSUME MartsInv, NEW r \in Runs, Build(r)
  PROVE  MartsInv'
<1>1. /\ facts' = [c \in Cells |-> Refreshed(r, c)]
      /\ spineEnd' = r.end
      /\ evidence' = [evidence EXCEPT ![r] = loads]
      /\ UNCHANGED <<detail, loads, snapshot>>
  BY DEF Build
<1>2. Shape'
  <2>1. r.end \in 0..NumMonths
    BY MartsAssumption DEF Months
  <2>2. evidence' \in [Runs -> Nat \cup {None}]
    BY <1>1 DEF MartsInv, Shape
  <2>3. \A s \in Runs : evidence'[s] # None => evidence'[s] <= loads
    BY <1>1 DEF MartsInv, Shape
  <2> QED BY <1>1, <2>1, <2>2, <2>3 DEF MartsInv, Shape
<1>3. \A c : Selected(c)' = Selected(c)
  BY <1>1 DEF Selected
<1>4. \A m : HasRows(m)' <=> HasRows(m)
  BY <1>3 DEF HasRows
<1>5. ASSUME NEW s \in Runs, evidence'[s] = loads,
             NEW c \in Cells, c[1] \in s.months, HasRows(c[1])
      PROVE  facts'[c] = Selected(c)
  <2>1. facts'[c] = Refreshed(r, c)
    BY <1>1
  <2>2. CASE s = r
    BY <1>5, <2>1, <2>2 DEF Refreshed
  <2>3. CASE s # r
    <3>1. evidence[s] = loads
      BY <1>1, <1>5, <2>3 DEF MartsInv, Shape
    <3>2. facts[c] = Selected(c)
      BY <1>5, <3>1 DEF MartsInv, FactsCurrent
    <3> QED BY <2>1, <3>2 DEF Refreshed
  <2> QED BY <2>2, <2>3
<1>6. FactsCurrent'
  BY <1>1, <1>3, <1>4, <1>5 DEF FactsCurrent
<1>7. ReleaseListsMonths'
  BY <1>1 DEF MartsInv, ReleaseListsMonths
<1> QED BY <1>2, <1>6, <1>7 DEF MartsInv

-----------------------------------------------------------------------------
(* What a release takes from the views *)

LEMMA ReadFacts ==
  ASSUME NEW end
  PROVE  /\ DOMAIN Read(end).monthly = (DOMAIN Monthly) \cap {c \in Cells : c[1] <= end}
         /\ \A c \in DOMAIN Read(end).monthly : Read(end).monthly[c] = Monthly[c]
         /\ DOMAIN Read(end).partners =
              (DOMAIN Partners) \cap ({c \in Cells : c[1] <= end} \X Countries)
         /\ \A g \in DOMAIN Read(end).partners : Read(end).partners[g] = Partners[g]
BY DEF Read, Within

LEMMA ReleaseStep ==
  ASSUME MartsInv, NEW r \in Runs, Publish(r)
  PROVE  MartsInv'
<1>1. /\ snapshot' = [run |-> r, monthly |-> Read(r.end).monthly,
                      partners |-> Read(r.end).partners,
                      availability |-> Availability(Read(r.end).monthly)]
      /\ UNCHANGED <<detail, world, facts, spineEnd, loads, evidence>>
  BY DEF Publish
<1>2. Shape'
  BY <1>1 DEF MartsInv, Shape
<1>3. FactsCurrent'
  BY <1>1 DEF MartsInv, FactsCurrent, HasRows, Selected
<1>4. ReleaseListsMonths'
  BY <1>1, ReadFacts DEF ReleaseListsMonths
<1> QED BY <1>2, <1>3, <1>4 DEF MartsInv

\* A release is refused while the views end before its run.
LEMMA SpineReaches ==
  ASSUME MartsInv, NEW r \in Runs, Valid(Read(r.end), r.end)
  PROVE  r.end <= spineEnd
<1>1. PICK c \in DOMAIN Read(r.end).monthly : TRUE
  BY DEF Valid
<1>2. r.end \in 1..r.end
  BY MartsAssumption DEF Months
<1>3. <<r.end, c[2], c[3]>> \in DOMAIN Read(r.end).monthly
  BY <1>1, <1>2 DEF Valid
<1>4. <<r.end, c[2], c[3]>> \in DOMAIN Monthly
  BY <1>3, ReadFacts
<1>5. PICK m \in 1..spineEnd, s \in Scopes : <<r.end, c[2], c[3]>> = <<m, s[1], s[2]>>
  BY <1>4 DEF Monthly
<1> QED BY <1>5 DEF MartsInv, Shape

LEMMA TotalsShown ==
  ASSUME MartsInv, NEW r \in Runs, r.end <= spineEnd,
         NEW c \in Cells, c[1] <= r.end, world[c] # None
  PROVE  /\ c \in DOMAIN Read(r.end).monthly
         /\ Read(r.end).monthly[c].world = world[c]
<1>1. Scope(c) \in Scopes
  BY DEF Scopes
<1>2. c[1] \in 1..spineEnd
  BY CellFacts, MartsAssumption DEF Months, MartsInv, Shape
<1>3. c = <<c[1], Scope(c)[1], Scope(c)[2]>>
  BY CellFacts DEF Scope
<1>4. c \in DOMAIN Monthly
  BY <1>1, <1>2, <1>3 DEF Monthly
<1>5. Monthly[c].world = world[c]
  BY <1>4 DEF Monthly
<1> QED BY <1>4, <1>5, ReadFacts

LEMMA RowsShown ==
  ASSUME MartsInv, NEW r \in Runs, evidence[r] = loads,
         NEW c \in Cells, c[1] \in r.months, HasRows(c[1]), NEW k \in Countries
  PROVE  IF k \in DOMAIN detail[c]
           THEN <<c, k>> \in DOMAIN Read(r.end).partners
                /\ Read(r.end).partners[<<c, k>>].value = detail[c][k]
           ELSE <<c, k>> \notin DOMAIN Read(r.end).partners
<1>1. facts[c] = Selected(c)
  BY DEF MartsInv, FactsCurrent
<1>2. /\ DOMAIN facts[c] = (DOMAIN detail[c]) \cap Countries
      /\ \A j \in DOMAIN facts[c] : facts[c][j] = detail[c][j]
  BY <1>1 DEF Selected, CountryRows
<1>3. <<c, k>> \in DOMAIN Partners <=> k \in DOMAIN facts[c]
  BY DEF Partners
<1>4. c[1] <= r.end
  BY MartsAssumption DEF Months
<1>5. <<c, k>> \in DOMAIN Read(r.end).partners <=> k \in DOMAIN detail[c]
  BY <1>2, <1>3, <1>4, ReadFacts
<1>6. ASSUME k \in DOMAIN detail[c]
      PROVE  Read(r.end).partners[<<c, k>>].value = detail[c][k]
  <2>1. <<c, k>> \in DOMAIN Partners
    BY <1>2, <1>3, <1>6
  <2>2. Partners[<<c, k>>].value = FactOf(c, k)
    BY <2>1 DEF Partners
  <2> QED BY <1>2, <1>5, <1>6, <2>2, ReadFacts DEF FactOf
<1> QED BY <1>5, <1>6

-----------------------------------------------------------------------------
(* The rows of a release *)

\* What the sources and the fact table hold.
Tables ==
  /\ DOMAIN detail = Cells
  /\ \A c \in Cells : detail[c] \in Answers \cup {NoRows}
  /\ world \in [Cells -> Totals \cup {None}]
  /\ \A c \in Cells : DOMAIN facts[c] \subseteq Countries
                      /\ \A k \in DOMAIN facts[c] : facts[c][k] \in Nat

\* The value of the same partner some months before.
Base(s, g, offset) ==
  LET b == <<Before(g[1], offset), g[2]>> IN
  IF b \in DOMAIN s.partners THEN s.partners[b].value ELSE None

\* The bases of a row are the values of other rows of the same release: although the
\* release ends with its run, it never cuts off what dbt has compared with.
RowsOf(s) ==
  /\ DOMAIN s.monthly \subseteq Cells
  /\ \A c \in DOMAIN s.monthly : s.monthly[c].world \in Nat \cup {None}
  /\ DOMAIN s.partners \subseteq Cells \X Countries
  /\ \A g \in DOMAIN s.partners :
       /\ g[1] \in DOMAIN s.monthly
       /\ s.partners[g].value \in Nat
       /\ s.partners[g].previousMonth = Base(s, g, 1)
       /\ s.partners[g].previousYear = Base(s, g, Year)

RowsInv == Tables /\ (snapshot # None => RowsOf(snapshot))

LEMMA SelectedFacts ==
  ASSUME Tables, NEW c \in Cells
  PROVE  /\ DOMAIN Selected(c) \subseteq Countries
         /\ \A k \in DOMAIN Selected(c) : Selected(c)[k] \in Nat
<1>1. \A k \in DOMAIN detail[c] : detail[c][k] \in Nat
  BY MartsAssumption DEF Tables, NoRows
<1> QED BY <1>1 DEF Selected, CountryRows

LEMMA InitRows == Init => RowsInv
<1> SUFFICES ASSUME Init PROVE RowsInv
  OBVIOUS
<1>1. PICK b \in Backgrounds : detail = b.detail /\ world = b.world
  BY DEF Init
<1>2. \A c \in Cells : DOMAIN facts[c] = {}
  BY DEF Init, NoRows
<1> QED BY <1>1, <1>2, MartsAssumption DEF Init, RowsInv, Tables

LEMMA PartnerFacts ==
  ASSUME Tables, NEW end \in Months
  PROVE  LET s == Read(end) IN
         /\ DOMAIN s.partners =
              {g \in Cells \X Countries : g[1][1] <= end /\ g[2] \in DOMAIN facts[g[1]]}
         /\ \A g \in DOMAIN s.partners :
              /\ s.partners[g].value = facts[g[1]][g[2]]
              /\ s.partners[g].value \in Nat
              /\ s.partners[g].previousMonth = FactOf(Before(g[1], 1), g[2])
              /\ s.partners[g].previousYear = FactOf(Before(g[1], Year), g[2])
<1> DEFINE s == Read(end)
<1>1. DOMAIN s.partners = (DOMAIN Partners) \cap ({c \in Cells : c[1] <= end} \X Countries)
  BY ReadFacts
<1>2. DOMAIN Partners = {g \in Cells \X Countries : g[2] \in DOMAIN facts[g[1]]}
  BY DEF Partners
<1>3. DOMAIN s.partners =
        {g \in Cells \X Countries : g[1][1] <= end /\ g[2] \in DOMAIN facts[g[1]]}
  BY <1>1, <1>2
<1>4. ASSUME NEW g \in DOMAIN s.partners
      PROVE  /\ s.partners[g].value = facts[g[1]][g[2]]
             /\ s.partners[g].value \in Nat
             /\ s.partners[g].previousMonth = FactOf(Before(g[1], 1), g[2])
             /\ s.partners[g].previousYear = FactOf(Before(g[1], Year), g[2])
  <2>1. g \in {q \in Cells \X Countries : q[2] \in DOMAIN facts[q[1]]}
    BY <1>3
  <2>2. s.partners[g] = Partners[g]
    BY ReadFacts
  <2>3. Partners[g] = [value |-> FactOf(g[1], g[2]),
                       previousMonth |-> FactOf(Before(g[1], 1), g[2]),
                       previousYear |-> FactOf(Before(g[1], Year), g[2])]
    BY <2>1 DEF Partners
  <2>4. FactOf(g[1], g[2]) = facts[g[1]][g[2]] /\ facts[g[1]][g[2]] \in Nat
    BY <2>1 DEF FactOf, Tables
  <2> HIDE DEF s
  <2> QED BY <2>2, <2>3, <2>4
<1> QED BY <1>3, <1>4

\* A month before one of the release is in the release, if it has a row.
LEMMA BaseIsFact ==
  ASSUME Tables, NEW end \in Months, NEW g \in DOMAIN Read(end).partners,
         NEW offset \in Nat
  PROVE  Base(Read(end), g, offset) = FactOf(Before(g[1], offset), g[2])
<1> DEFINE s == Read(end)
           c == Before(g[1], offset)
           k == g[2]
           b == <<c, k>>
<1>1. DOMAIN s.partners =
        {q \in Cells \X Countries : q[1][1] <= end /\ q[2] \in DOMAIN facts[q[1]]}
  BY PartnerFacts
<1>2. g[1] \in Cells /\ g[1][1] <= end /\ k \in Countries
  BY <1>1
<1>3. c \in Cells => c[1] <= end
  BY <1>2, CellFacts DEF Before, Months
<1>4. b \in DOMAIN s.partners <=> c \in Cells /\ k \in DOMAIN facts[c]
  BY <1>1, <1>2, <1>3
<1>5. b \in DOMAIN s.partners => s.partners[b].value = facts[c][k]
  BY PartnerFacts
<1> QED BY <1>4, <1>5 DEF Base, FactOf

LEMMA MonthlyFacts ==
  ASSUME Tables, NEW end \in Months
  PROVE  LET s == Read(end) IN
         /\ DOMAIN s.monthly \subseteq Cells
         /\ \A c \in DOMAIN s.monthly : s.monthly[c].world \in Nat \cup {None}
<1>1. DOMAIN Read(end).monthly \subseteq Cells
  BY ReadFacts
<1>2. ASSUME NEW c \in DOMAIN Read(end).monthly
      PROVE  Read(end).monthly[c].world \in Nat \cup {None}
  <2>1. c \in DOMAIN Monthly /\ Read(end).monthly[c] = Monthly[c]
    BY ReadFacts
  <2>2. Monthly[c].world = world[c]
    BY <2>1 DEF Monthly
  <2>3. world[c] \in Nat \cup {None}
    BY <1>1, MartsAssumption DEF Tables
  <2> QED BY <2>1, <2>2, <2>3
<1> QED BY <1>1, <1>2

LEMMA ReadRows ==
  ASSUME Tables, NEW end \in Months, Valid(Read(end), end)
  PROVE  RowsOf(Read(end))
<1> DEFINE s == Read(end)
<1>1. DOMAIN s.partners \subseteq Cells \X Countries
  BY PartnerFacts
<1>2. ASSUME NEW g \in DOMAIN s.partners
      PROVE  /\ g[1] \in DOMAIN s.monthly
             /\ s.partners[g].value \in Nat
             /\ s.partners[g].previousMonth = Base(s, g, 1)
             /\ s.partners[g].previousYear = Base(s, g, Year)
  <2>1. g[1] \in DOMAIN s.monthly
    BY DEF Valid
  <2>2. Base(s, g, 1) = FactOf(Before(g[1], 1), g[2])
    BY BaseIsFact
  <2>3. Year \in Nat
    BY MartsAssumption
  <2>4. Base(s, g, Year) = FactOf(Before(g[1], Year), g[2])
    BY <2>3, BaseIsFact
  <2> QED BY <2>1, <2>2, <2>4, PartnerFacts
<1> QED BY <1>1, <1>2, MonthlyFacts DEF RowsOf

LEMMA RowsStep == RowsInv /\ [Next]_vars => RowsInv'
<1> SUFFICES ASSUME RowsInv, [Next]_vars PROVE RowsInv'
  OBVIOUS
<1>0. Tables /\ (snapshot # None => RowsOf(snapshot))
  BY DEF RowsInv
<1>1. ASSUME NEW c \in Changing, LoadDetail(c) PROVE RowsInv'
  BY <1>0, <1>1, MartsAssumption DEF LoadDetail, RowsInv, Tables
<1>2. ASSUME NEW c \in Changing, LoadWorld(c) PROVE RowsInv'
  BY <1>0, <1>2, MartsAssumption DEF LoadWorld, RowsInv, Tables
<1>3. ASSUME NEW r \in Runs, Build(r) PROVE RowsInv'
  <2>1. ASSUME NEW c \in Cells
        PROVE  DOMAIN facts'[c] \subseteq Countries
               /\ \A k \in DOMAIN facts'[c] : facts'[c][k] \in Nat
    <3>1. facts'[c] = Selected(c) \/ facts'[c] = facts[c]
      BY <1>3 DEF Build, Refreshed
    <3> QED BY <1>0, <3>1, SelectedFacts DEF Tables
  <2> QED BY <1>0, <1>3, <2>1 DEF Build, RowsInv, Tables
<1>4. ASSUME NEW r \in Runs, Publish(r) PROVE RowsInv'
  <2>1. /\ Valid(Read(r.end), r.end)
        /\ snapshot'.monthly = Read(r.end).monthly
        /\ snapshot'.partners = Read(r.end).partners
        /\ UNCHANGED <<detail, world, facts>>
    BY <1>4 DEF Publish
  <2>2. RowsOf(Read(r.end))
    BY <1>0, <2>1, ReadRows, MartsAssumption
  <2>3. RowsOf(snapshot')
    BY <2>1, <2>2 DEF RowsOf, Base
  <2> QED BY <1>0, <2>1, <2>3 DEF RowsInv, Tables
<1>5. CASE UNCHANGED vars
  BY <1>0, <1>5 DEF vars, RowsInv, Tables
<1> QED BY <1>1, <1>2, <1>3, <1>4, <1>5 DEF Next

-----------------------------------------------------------------------------
(* The sums of the website *)

LEMMA SumFacts ==
  ASSUME NEW v, \A k \in DOMAIN v : v[k] \in Nat
  PROVE  Sum(v) = IF DOMAIN v = {} THEN None ELSE SumOver(v, DOMAIN v)
<1>1. \A k \in DOMAIN v : v[k] # None
  BY MartsAssumption
<1>2. {k \in DOMAIN v : v[k] # None} = DOMAIN v
  BY <1>1
<1> QED BY <1>2 DEF Sum, SumOver

LEMMA SelectionFacts ==
  ASSUME NEW products \in Selections
  PROVE  /\ products \subseteq Products /\ products # {} /\ IsFiniteSet(products)
         /\ \A t \in SUBSET products :
              IsFiniteSet(t) /\ (Cardinality(t) = Cardinality(products) => t = products)
<1>1. products \subseteq Products /\ products # {}
  BY DEF Selections
<1>2. IsFiniteSet(products)
  BY <1>1, FS_Subset, MartsAssumption
<1> QED BY <1>1, <1>2, FS_Subset

\* The base that the website recomputes, from what dbt gave to each of the rows.
LEMMA BaseAgrees ==
  ASSUME NEW s, RowsOf(s), NEW r, NEW products \in Selections, NEW m, NEW k,
         NEW offset \in Nat, NEW bases,
         DOMAIN bases = {<<<<m, r, p>>, k>> : p \in products},
         \A q \in (DOMAIN bases) \cap DOMAIN s.partners : bases[q] = Base(s, q, offset)
  PROVE  TotalFor(s, r, products, m - offset, k, Bucket(s, r, products, m, k)) =
           IF /\ DOMAIN bases \subseteq DOMAIN s.partners
              /\ \A q \in DOMAIN bases : bases[q] # None
             THEN Sum(bases) ELSE None
<1> DEFINE key == [p \in products |-> <<<<m, r, p>>, k>>]
           earlier == [p \in products |-> <<<<m - offset, r, p>>, k>>]
           current == Bucket(s, r, products, m, k)
           prior == Bucket(s, r, products, m - offset, k)
           values == [p \in prior |-> s.partners[earlier[p]].value]
<1>1. /\ current \subseteq products /\ prior \subseteq products
      /\ current = {p \in products : key[p] \in DOMAIN s.partners}
      /\ prior = {p \in products : earlier[p] \in DOMAIN s.partners}
  BY DEF Bucket
<1>2. DOMAIN bases = {key[p] : p \in products}
  OBVIOUS
<1>3. TotalFor(s, r, products, m - offset, k, current) =
        IF prior = products /\ current = products
          THEN Amount(s, r, m - offset, k, prior) ELSE None
  <2>1. /\ Cardinality(prior) = Cardinality(products) <=> prior = products
        /\ Cardinality(current) = Cardinality(products) <=> current = products
    BY <1>1, SelectionFacts
  <2> HIDE DEF current
  <2> QED BY <2>1 DEF TotalFor
<1>4. Amount(s, r, m - offset, k, prior) = Sum(values)
  <2>1. values = [p \in prior |-> s.partners[<<<<m - offset, r, p>>, k>>].value]
    BY <1>1
  <2> QED BY <2>1 DEF Amount
<1>5. current = products <=> DOMAIN bases \subseteq DOMAIN s.partners
  BY <1>1, <1>2
<1>6. ASSUME NEW p \in products, current = products
      PROVE  bases[key[p]] = IF earlier[p] \in DOMAIN s.partners
                               THEN s.partners[earlier[p]].value ELSE None
  <2>1. key[p] \in (DOMAIN bases) \cap DOMAIN s.partners
    BY <1>1, <1>6
  <2>2. <<Before(key[p][1], offset), key[p][2]>> = earlier[p]
    BY DEF Before
  <2> QED BY <2>1, <2>2 DEF Base
<1>7. \A p \in prior : /\ s.partners[earlier[p]].value \in Nat
                        /\ values[p] = s.partners[earlier[p]].value
  <2>1. \A p \in prior : earlier[p] \in DOMAIN s.partners
    BY <1>1
  <2>2. \A q \in DOMAIN s.partners : s.partners[q].value \in Nat
    BY DEF RowsOf
  <2> QED BY <2>1, <2>2
<1>8. ASSUME current = products
      PROVE  (\A q \in DOMAIN bases : bases[q] # None) <=> prior = products
  <2>1. (\A q \in DOMAIN bases : bases[q] # None) <=> \A p \in products : bases[key[p]] # None
    BY <1>2
  <2>2. ASSUME NEW p \in products PROVE bases[key[p]] # None <=> p \in prior
    <3>1. p \in prior <=> earlier[p] \in DOMAIN s.partners
      BY <1>1
    <3>2. p \in prior => s.partners[earlier[p]].value # None
      BY <1>7, MartsAssumption
    <3> HIDE DEF key, earlier, prior
    <3> QED BY <1>6, <1>8, <3>1, <3>2
  <2> HIDE DEF key, prior
  <2> QED BY <1>1, <2>1, <2>2
<1>9. ASSUME prior = products, current = products
      PROVE  Sum(values) = Sum(bases)
  <2>1. /\ IsFiniteSet(products) /\ products # {}
        /\ DOMAIN values = products
    BY <1>9, SelectionFacts
  <2>2. \A p \in products : values[p] \in Nat /\ bases[key[p]] = values[p]
    <3>1. \A p \in products : earlier[p] \in DOMAIN s.partners
      BY <1>1, <1>9
    <3> HIDE DEF key, earlier, current, prior, values
    <3> QED BY <1>6, <1>7, <1>9, <3>1
  <2>3. \A p, t \in products : key[p] = key[t] => p = t
    OBVIOUS
  <2>4. DOMAIN bases # {} /\ \A q \in DOMAIN bases : bases[q] \in Nat
    <3> HIDE DEF key, values
    <3> QED BY <1>2, <2>1, <2>2
  <2> HIDE DEF key, values
  <2>5. SumOver(bases, DOMAIN bases) = SumOver(values, products)
    BY <1>2, <2>1, <2>2, <2>3, SumRenamed
  <2> QED BY <2>1, <2>2, <2>4, <2>5, SumFacts
<1> HIDE DEF prior, values
<1> QED BY <1>3, <1>4, <1>5, <1>8, <1>9

\* Adding up group by group: what the website does product by product and month by month.
LEMMA SumGrouped ==
  ASSUME NEW v, NEW h, NEW F, Groups(v, DOMAIN h, F, h, DOMAIN v),
         \A m \in DOMAIN h : F[m] # {}
  PROVE  Sum(h) = Sum(v)
<1>1. \A k \in DOMAIN v : v[k] \in Nat
  BY DEF Groups
<1>2. ASSUME NEW m \in DOMAIN h PROVE h[m] \in Nat
  <2>1. /\ IsFiniteSet(F[m]) /\ h[m] = SumOver(v, F[m])
        /\ \A k \in F[m] : v[k] \in Nat
    BY DEF Groups
  <2> QED BY <2>1, SumIsNat
<1>3. SumOver(v, DOMAIN v) = SumOver(h, DOMAIN h)
  BY SumByGroups
<1>4. DOMAIN v = {} <=> DOMAIN h = {}
  BY DEF Groups
<1> QED BY <1>1, <1>2, <1>3, <1>4, SumFacts

Match(s, r, products, m) == {p \in products : <<m, r, p>> \in DOMAIN s.monthly}

World(s, r, products, m) ==
  CompleteSum([p \in Match(s, r, products, m) |-> s.monthly[<<m, r, p>>].world], products)

\* A World total of the website is that of all products of the selection.
LEMMA WorldIsWhole ==
  ASSUME NEW s, RowsOf(s), NEW r, NEW products \in Selections, NEW m,
         World(s, r, products, m) # None
  PROVE  /\ Match(s, r, products, m) = products
         /\ \A p \in products : s.monthly[<<m, r, p>>].world \in Nat
         /\ World(s, r, products, m) =
              SumOver([p \in products |-> s.monthly[<<m, r, p>>].world], products)
<1> DEFINE found == Match(s, r, products, m)
           values == [p \in found |-> s.monthly[<<m, r, p>>].world]
<1>1. DOMAIN values = found /\ found \subseteq products
  BY DEF Match
<1>2. /\ Cardinality(found) = Cardinality(products)
      /\ \A p \in found : values[p] # None
      /\ World(s, r, products, m) = Sum(values)
  <2>1. World(s, r, products, m) = CompleteSum(values, products)
    BY DEF World
  <2> HIDE DEF values, found
  <2> QED BY <1>1, <2>1 DEF CompleteSum
<1>3. found = products
  BY <1>1, <1>2, SelectionFacts
<1>4. \A p \in products : values[p] \in Nat /\ values[p] = s.monthly[<<m, r, p>>].world
  BY <1>2, <1>3 DEF Match, RowsOf
<1>5. values = [p \in products |-> s.monthly[<<m, r, p>>].world]
  BY <1>3
<1>6. Sum(values) = SumOver(values, products)
  <2> HIDE DEF values, found
  <2> QED BY <1>1, <1>3, <1>4, SelectionFacts, SumFacts
<1> HIDE DEF values, found
<1> QED BY <1>2, <1>3, <1>4, <1>5, <1>6 DEF found

\* The months and rows that the website shows of a window of months ...
MonthsIn(s, r, products, window) == {m \in window : Match(s, r, products, m) # {}}

RowsIn(s, r, products, window) ==
  {g \in window \X Countries : Bucket(s, r, products, g[1], g[2]) # {}}

\* ... and the rows of the release that they are made of.
TotalsIn(s, r, products, window) ==
  {c \in DOMAIN s.monthly : c \in window \X {r} \X products}

AmountsIn(s, r, products, window) ==
  {q \in DOMAIN s.partners : q[1] \in window \X {r} \X products}

\* The sums that the website shows, and those of the rows of the release.
WorldShown(s, r, products, window) ==
  Sum([m \in MonthsIn(s, r, products, window) |-> World(s, r, products, m)])

AmountShown(s, r, products, window) ==
  Sum([g \in RowsIn(s, r, products, window) |->
         Amount(s, r, g[1], g[2], Bucket(s, r, products, g[1], g[2]))])

TotalOfRows(s, r, products, window) ==
  Sum([c \in TotalsIn(s, r, products, window) |-> s.monthly[c].world])

ValueOfRows(s, r, products, window) ==
  Sum([q \in AmountsIn(s, r, products, window) |-> s.partners[q].value])

\* Months of a window, each with the World total of all products.
LEMMA TotalsAddUp ==
  ASSUME NEW s, RowsOf(s), NEW r, NEW products \in Selections, NEW window \in SUBSET Months,
         \A m \in MonthsIn(s, r, products, window) : World(s, r, products, m) # None
  PROVE  /\ \A c \in TotalsIn(s, r, products, window) : s.monthly[c].world # None
         /\ WorldShown(s, r, products, window) = TotalOfRows(s, r, products, window)
<1> DEFINE months == {m \in window : Match(s, r, products, m) # {}}
           totals == {c \in DOMAIN s.monthly : c \in window \X {r} \X products}
           v == [c \in totals |-> s.monthly[c].world]
           h == [m \in months |-> World(s, r, products, m)]
           F == [m \in months |-> {<<m, r, p>> : p \in products}]
<1>1. \A m \in months : /\ Match(s, r, products, m) = products
                        /\ \A p \in products : s.monthly[<<m, r, p>>].world \in Nat
                        /\ h[m] = SumOver([p \in products |-> s.monthly[<<m, r, p>>].world],
                                          products)
  <2>1. \A m \in months : World(s, r, products, m) # None
    BY DEF MonthsIn
  <2> HIDE DEF months
  <2> QED BY <2>1, WorldIsWhole
<1>2. \A m \in months, p \in products : <<m, r, p>> \in totals
  BY <1>1 DEF Match
<1>3. ASSUME NEW c \in totals
      PROVE  c[1] \in months /\ c[3] \in products /\ c = <<c[1], r, c[3]>>
  <2>1. c \in DOMAIN s.monthly /\ c \in window \X {r} \X products
    OBVIOUS
  <2>2. c[1] \in window /\ c[3] \in products /\ c = <<c[1], r, c[3]>>
    BY <2>1
  <2>3. c[3] \in Match(s, r, products, c[1])
    BY <2>1, <2>2 DEF Match
  <2> QED BY <2>2, <2>3
<1>4. ASSUME NEW c \in totals PROVE v[c] \in Nat /\ v[c] # None
  <2>1. v[c] = s.monthly[<<c[1], r, c[3]>>].world
    BY <1>3
  <2>2. s.monthly[<<c[1], r, c[3]>>].world \in Nat
    BY <1>1, <1>3
  <2> HIDE DEF v
  <2> QED BY <2>1, <2>2, MartsAssumption
<1>5. /\ \A m \in months : F[m] \subseteq totals
      /\ \A c \in totals : \E m \in months : c \in F[m]
  <2>1. \A c \in totals : c \in F[c[1]]
    BY <1>3
  <2>2. \A m \in months : \A c \in F[m] : c \in totals
    BY <1>2
  <2> HIDE DEF F
  <2> QED BY <1>3, <2>1, <2>2
<1>6. ASSUME NEW m \in months
      PROVE  IsFiniteSet(F[m]) /\ F[m] # {} /\ h[m] = SumOver(v, F[m])
  <2> DEFINE key == [p \in products |-> <<m, r, p>>]
             values == [p \in products |-> s.monthly[<<m, r, p>>].world]
  <2>1. F[m] = {key[p] : p \in products}
    OBVIOUS
  <2>2. \A p, q \in products : key[p] = key[q] => p = q
    OBVIOUS
  <2>3. \A p \in products : values[p] \in Nat /\ v[key[p]] = values[p]
    BY <1>1, <1>2
  <2>4. h[m] = SumOver(values, products)
    BY <1>1
  <2>5. IsFiniteSet(products) /\ products # {}
    BY SelectionFacts
  <2> HIDE DEF key, values, v, F, h
  <2>6. IsFiniteSet({key[p] : p \in products})
        /\ SumOver(v, {key[p] : p \in products}) = SumOver(values, products)
    BY <2>2, <2>3, <2>5, SumRenamed
  <2> QED BY <2>1, <2>4, <2>5, <2>6
<1>7. \A m, n \in months : m # n => F[m] \cap F[n] = {}
  OBVIOUS
<1>8. IsFiniteSet(months)
  <2>1. IsFiniteSet(Months)
    BY FS_Interval, MartsAssumption DEF Months
  <2> QED BY <2>1, FS_Subset
<1>9. DOMAIN v = totals /\ DOMAIN h = months
  OBVIOUS
<1>10. \A c \in totals : s.monthly[c].world # None
  BY <1>4
<1> HIDE DEF v, h, F
<1>11. \A c \in totals : v[c] \in Nat
  BY <1>4
<1>12. Sum(h) = Sum(v)
  <2>1. Groups(v, DOMAIN h, F, h, DOMAIN v)
    BY <1>5, <1>6, <1>7, <1>8, <1>9, <1>11 DEF Groups
  <2>2. \A m \in DOMAIN h : F[m] # {}
    BY <1>6, <1>9
  <2> QED BY ONLY <2>1, <2>2, SumGrouped
<1> QED BY <1>10, <1>12 DEF v, h, TotalsIn, MonthsIn, WorldShown, TotalOfRows

\* Partner rows of a window, of all countries.
LEMMA AmountsAddUp ==
  ASSUME NEW s, RowsOf(s), NEW r, NEW products \in Selections, NEW window \in SUBSET Months
  PROVE  AmountShown(s, r, products, window) = ValueOfRows(s, r, products, window)
<1> DEFINE rows == {g \in window \X Countries : Bucket(s, r, products, g[1], g[2]) # {}}
           amounts == {q \in DOMAIN s.partners : q[1] \in window \X {r} \X products}
           bucket == [g \in rows |-> Bucket(s, r, products, g[1], g[2])]
           v == [q \in amounts |-> s.partners[q].value]
           h == [g \in rows |-> Amount(s, r, g[1], g[2], bucket[g])]
           F == [g \in rows |-> {<<<<g[1], r, p>>, g[2]>> : p \in bucket[g]}]
<1>1. ASSUME NEW g \in rows
      PROVE  /\ g = <<g[1], g[2]>> /\ g[1] \in window
             /\ bucket[g] # {} /\ bucket[g] \subseteq products
             /\ \A p \in bucket[g] : <<<<g[1], r, p>>, g[2]>> \in amounts
  <2>1. g \in window \X Countries /\ Bucket(s, r, products, g[1], g[2]) # {}
    OBVIOUS
  <2>2. bucket[g] = {p \in products : <<<<g[1], r, p>>, g[2]>> \in DOMAIN s.partners}
    BY DEF Bucket
  <2>3. \A p \in bucket[g] : <<g[1], r, p>> \in window \X {r} \X products
    BY <2>1, <2>2
  <2>4. \A p \in bucket[g] : <<<<g[1], r, p>>, g[2]>> \in amounts
    BY <2>2, <2>3
  <2>5. g = <<g[1], g[2]>> /\ g[1] \in window
    BY <2>1
  <2>6. bucket[g] = Bucket(s, r, products, g[1], g[2])
    OBVIOUS
  <2> HIDE DEF bucket
  <2> QED BY <2>1, <2>2, <2>4, <2>5, <2>6
<1>2. ASSUME NEW q \in amounts
      PROVE  /\ <<q[1][1], q[2]>> \in rows /\ q[1][3] \in bucket[<<q[1][1], q[2]>>]
             /\ q = <<<<q[1][1], r, q[1][3]>>, q[2]>>
  <2>1. q \in Cells \X Countries
    BY DEF RowsOf
  <2>2. q = <<<<q[1][1], r, q[1][3]>>, q[2]>> /\ q[1][3] \in products
    BY <2>1
  <2>3. q[1][3] \in Bucket(s, r, products, q[1][1], q[2])
    BY <2>2 DEF Bucket
  <2>4. <<q[1][1], q[2]>> \in rows
    BY <2>1, <2>3
  <2> QED BY <2>2, <2>3, <2>4
<1>3. ASSUME NEW q \in amounts PROVE v[q] \in Nat
  <2>1. q \in DOMAIN s.partners /\ v[q] = s.partners[q].value
    OBVIOUS
  <2> QED BY <2>1 DEF RowsOf
<1>4. /\ \A g \in rows : F[g] \subseteq amounts
      /\ \A q \in amounts : \E g \in rows : q \in F[g]
  <2>1. ASSUME NEW g \in rows, NEW q \in F[g] PROVE q \in amounts
    <3>1. PICK p \in bucket[g] : q = <<<<g[1], r, p>>, g[2]>>
      OBVIOUS
    <3> QED BY <1>1, <3>1
  <2>2. \A q \in amounts : q \in F[<<q[1][1], q[2]>>]
    BY <1>2
  <2> HIDE DEF F, bucket
  <2>3. \A q \in amounts : \E g \in rows : q \in F[g]
    BY <1>2, <2>2
  <2>4. \A g \in rows : \A q \in F[g] : q \in amounts
    BY <2>1
  <2> QED BY ONLY <2>3, <2>4
<1>5. ASSUME NEW g \in rows
      PROVE  IsFiniteSet(F[g]) /\ F[g] # {} /\ h[g] = SumOver(v, F[g])
  <2> DEFINE B == bucket[g]
             key == [p \in B |-> <<<<g[1], r, p>>, g[2]>>]
             values == [p \in B |-> s.partners[<<<<g[1], r, p>>, g[2]>>].value]
  <2>1. F[g] = {key[p] : p \in B} /\ DOMAIN values = B
    OBVIOUS
  <2>2. \A p, q \in B : key[p] = key[q] => p = q
    OBVIOUS
  <2>3. \A p \in B : values[p] \in Nat /\ v[key[p]] = values[p]
    BY <1>1, <1>3
  <2>4. h[g] = Sum(values)
    BY DEF Amount
  <2>5. B # {} /\ IsFiniteSet(B)
    BY <1>1, SelectionFacts
  <2> HIDE DEF B, key, values, v, F, h
  <2>6. IsFiniteSet({key[p] : p \in B})
        /\ SumOver(v, {key[p] : p \in B}) = SumOver(values, B)
    BY <2>2, <2>3, <2>5, SumRenamed
  <2>7. \A p \in DOMAIN values : values[p] \in Nat
    BY <2>1, <2>3
  <2>8. Sum(values) = SumOver(values, B)
    BY <2>1, <2>5, <2>7, SumFacts
  <2> QED BY <2>1, <2>4, <2>5, <2>6, <2>8
<1>6. ASSUME NEW g \in rows, NEW j \in rows, NEW q \in F[g] \cap F[j] PROVE g = j
  <2>1. PICK p \in bucket[g] : q = <<<<g[1], r, p>>, g[2]>>
    OBVIOUS
  <2>2. PICK t \in bucket[j] : q = <<<<j[1], r, t>>, j[2]>>
    OBVIOUS
  <2>3. g[1] = j[1] /\ g[2] = j[2]
    BY <2>1, <2>2
  <2>4. g = <<g[1], g[2]>> /\ j = <<j[1], j[2]>>
    BY <1>1
  <2> QED BY <2>3, <2>4
<1>7. IsFiniteSet(rows)
  <2>1. IsFiniteSet(window)
    <3>1. IsFiniteSet(Months)
      BY FS_Interval, MartsAssumption DEF Months
    <3> QED BY <3>1, FS_Subset
  <2>2. IsFiniteSet(window \X Countries)
    BY <2>1, FS_Product, MartsAssumption
  <2> QED BY <2>2, FS_Subset
<1>8. DOMAIN v = amounts /\ DOMAIN h = rows
  OBVIOUS
<1>9. h = [g \in rows |-> Amount(s, r, g[1], g[2], Bucket(s, r, products, g[1], g[2]))]
  OBVIOUS
<1> HIDE DEF v, h, F, bucket
<1>10. \A g, j \in rows : g # j => F[g] \cap F[j] = {}
  BY <1>6
<1>11. Sum(h) = Sum(v)
  <2>1. Groups(v, DOMAIN h, F, h, DOMAIN v)
    BY <1>3, <1>4, <1>5, <1>7, <1>8, <1>10 DEF Groups
  <2>2. \A g \in DOMAIN h : F[g] # {}
    BY <1>5, <1>8
  <2> QED BY ONLY <2>1, <2>2, SumGrouped
<1> QED BY <1>9, <1>11 DEF v, RowsIn, AmountsIn, AmountShown, ValueOfRows

MonthsShown(s, products, common) ==
  IF common THEN CommonMonths(s, Options(s), products) ELSE Months

\* What the website shows of a market, with or without the common months only.
LEMMA RenderedFacts ==
  ASSUME NEW s, NEW r, NEW products, NEW common
  PROVE  LET scope == Rendered(s, r, products, common)
             shown == MonthsShown(s, products, common) IN
         /\ shown \subseteq Months
         /\ DOMAIN scope.monthly = {m \in shown : Match(s, r, products, m) # {}}
         /\ \A m \in DOMAIN scope.monthly :
              scope.monthly[m].world = World(s, r, products, m)
         /\ DOMAIN scope.partners =
              {g \in shown \X Countries : Bucket(s, r, products, g[1], g[2]) # {}}
         /\ \A g \in DOMAIN scope.partners :
              scope.partners[g].value =
                Amount(s, r, g[1], g[2], Bucket(s, r, products, g[1], g[2]))
<1> DEFINE full == MarketScope(s, r, products)
           scope == Rendered(s, r, products, common)
           shown == MonthsShown(s, products, common)
<1>1. shown \subseteq Months
  BY DEF MonthsShown, CommonMonths
<1>2. /\ DOMAIN full.monthly = {m \in Months : Match(s, r, products, m) # {}}
      /\ \A m \in DOMAIN full.monthly : full.monthly[m].world = World(s, r, products, m)
  BY DEF MarketScope, Match, World
<1>3. /\ DOMAIN full.partners =
           {g \in Months \X Countries : Bucket(s, r, products, g[1], g[2]) # {}}
      /\ \A g \in DOMAIN full.partners :
           full.partners[g].value =
             Amount(s, r, g[1], g[2], Bucket(s, r, products, g[1], g[2]))
  BY DEF MarketScope
<1>4. /\ scope.monthly = [m \in (DOMAIN full.monthly) \cap shown |-> full.monthly[m]]
      /\ scope.partners =
           [g \in {q \in DOMAIN full.partners : q[1] \in shown} |-> full.partners[g]]
  BY DEF Rendered, MonthsShown
<1> HIDE DEF full, scope, shown
<1>5. /\ DOMAIN scope.monthly = {m \in shown : Match(s, r, products, m) # {}}
      /\ \A m \in DOMAIN scope.monthly : scope.monthly[m].world = World(s, r, products, m)
  BY <1>1, <1>2, <1>4
<1>6. DOMAIN scope.partners = {q \in DOMAIN full.partners : q[1] \in shown}
      /\ \A g \in DOMAIN scope.partners : scope.partners[g] = full.partners[g]
  BY <1>4
<1>7. DOMAIN scope.partners =
        {g \in shown \X Countries : Bucket(s, r, products, g[1], g[2]) # {}}
  BY <1>1, <1>3, <1>6
<1> QED BY <1>1, <1>3, <1>5, <1>6, <1>7 DEF scope, shown

\* The sums of a period of which no month lacks its World total.
LEMMA PeriodIsExact ==
  ASSUME NEW s, RowsOf(s), NEW r, NEW products \in Selections, NEW common,
         NEW start, NEW end,
         NEW a, a = Analyze(Rendered(s, r, products, common), start, end, {}),
         a.worldMonths = a.months,
         NEW window, window = MonthsShown(s, products, common) \cap (start..end)
  PROVE  /\ \A g \in AmountsIn(s, r, products, window) :
              /\ g[1] \in TotalsIn(s, r, products, window)
              /\ s.monthly[g[1]].world # None
         /\ a.selectedShare = Share(ValueOfRows(s, r, products, window),
                                    TotalOfRows(s, r, products, window))
<1> DEFINE scope == Rendered(s, r, products, common)
           shown == MonthsShown(s, products, common)
           months == MonthsIn(s, r, products, window)
           rows == RowsIn(s, r, products, window)
<1>1. /\ shown \subseteq Months
      /\ DOMAIN scope.monthly = {m \in shown : Match(s, r, products, m) # {}}
      /\ \A m \in DOMAIN scope.monthly : scope.monthly[m].world = World(s, r, products, m)
      /\ DOMAIN scope.partners =
           {g \in shown \X Countries : Bucket(s, r, products, g[1], g[2]) # {}}
      /\ \A g \in DOMAIN scope.partners :
           scope.partners[g].value =
             Amount(s, r, g[1], g[2], Bucket(s, r, products, g[1], g[2]))
  BY RenderedFacts
<1>2. window \in SUBSET Months
  BY <1>1
<1>3. {m \in DOMAIN scope.monthly : m \in start..end} = months
  <2> HIDE DEF scope
  <2> QED BY <1>1 DEF MonthsIn
<1>4. {g \in DOMAIN scope.partners : g[1] \in start..end} = rows
  <2> HIDE DEF scope
  <2> QED BY <1>1 DEF RowsIn
<1>5. /\ a.months = months
      /\ a.worldMonths = WithWorld(scope, months)
      /\ a.selectedShare = Share(Sum([g \in rows |-> scope.partners[g].value]),
                                 Sum([m \in months |-> scope.monthly[m].world]))
  <2> HIDE DEF scope, months, rows
  <2>1. {g \in DOMAIN scope.partners :
           g[1] \in start..end /\ ({} = {} \/ g[2] \in {})} = rows
    BY <1>4
  <2> QED BY <1>3, <2>1 DEF Analyze, scope
<1>6. \A m \in months : scope.monthly[m].world = World(s, r, products, m)
  <2> HIDE DEF scope
  <2> QED BY <1>1, <1>3
<1>7. \A g \in rows : scope.partners[g].value =
                        Amount(s, r, g[1], g[2], Bucket(s, r, products, g[1], g[2]))
  <2> HIDE DEF scope, rows
  <2> QED BY <1>1, <1>4
<1>8. a.selectedShare = Share(AmountShown(s, r, products, window),
                              WorldShown(s, r, products, window))
  <2>1. [g \in rows |-> scope.partners[g].value] =
          [g \in rows |-> Amount(s, r, g[1], g[2], Bucket(s, r, products, g[1], g[2]))]
    BY <1>7
  <2>2. [m \in months |-> scope.monthly[m].world] =
          [m \in months |-> World(s, r, products, m)]
    BY <1>6
  <2> HIDE DEF scope
  <2> QED BY <1>5, <2>1, <2>2 DEF AmountShown, WorldShown
<1>9. \A m \in months : World(s, r, products, m) # None
  <2> HIDE DEF scope, months
  <2> QED BY <1>5, <1>6 DEF WithWorld
<1>10. /\ \A c \in TotalsIn(s, r, products, window) : s.monthly[c].world # None
       /\ WorldShown(s, r, products, window) = TotalOfRows(s, r, products, window)
  BY <1>2, <1>9, TotalsAddUp
<1>11. AmountShown(s, r, products, window) = ValueOfRows(s, r, products, window)
  BY <1>2, AmountsAddUp
<1>12. \A g \in AmountsIn(s, r, products, window) : g[1] \in TotalsIn(s, r, products, window)
  BY DEF RowsOf, AmountsIn, TotalsIn
<1> HIDE DEF scope, months, rows
<1> QED BY <1>8, <1>10, <1>11, <1>12

-----------------------------------------------------------------------------
(* Theorems *)

\* The inductive invariant of the rows: while Raw is what a run has built from, the facts
\* of its months are those of Raw, although other runs build in between.
THEOREM MartsInvariant == Spec => []MartsInv
<1>1. MartsInv /\ [Next]_vars => MartsInv'
  <2> SUFFICES ASSUME MartsInv, [Next]_vars PROVE MartsInv'
    OBVIOUS
  <2>1. ASSUME NEW c \in Changing, LoadDetail(c) \/ LoadWorld(c) PROVE MartsInv'
    BY <2>1, LoadStep, MartsAssumption
  <2>2. ASSUME NEW r \in Runs, Build(r) \/ Publish(r) PROVE MartsInv'
    BY <2>2, BuildStep, ReleaseStep
  <2>3. CASE UNCHANGED vars
    BY <2>3 DEF vars, MartsInv, Shape, FactsCurrent, HasRows, Selected, ReleaseListsMonths
  <2> QED BY <2>1, <2>2, <2>3 DEF Next
<1> QED BY InitMarts, <1>1, PTL DEF Spec

\* A release shows every World total that Raw has up to the end of its run, whoever has
\* recreated the views last, and for the months of its run exactly the country rows that
\* Raw has accepted, unless a month has lost its last one.
THEOREM ReleasesShowRaw == Spec => ReleaseShowsRaw
<1> DEFINE Shown ==
      LET s == snapshot' IN
      \A c \in Cells :
        /\ c[1] <= s.run.end /\ world[c] # None =>
             c \in DOMAIN s.monthly /\ s.monthly[c].world = world[c]
        /\ c[1] \in s.run.months /\ HasRows(c[1]) =>
             \A k \in Countries :
               IF k \in DOMAIN detail[c]
                 THEN <<c, k>> \in DOMAIN s.partners
                      /\ s.partners[<<c, k>>].value = detail[c][k]
                 ELSE <<c, k>> \notin DOMAIN s.partners
<1>1. ASSUME MartsInv, NEW r \in Runs, Publish(r)
      PROVE  Shown
  <2>1. /\ evidence[r] = loads /\ Valid(Read(r.end), r.end)
        /\ snapshot'.run = r /\ snapshot'.monthly = Read(r.end).monthly
        /\ snapshot'.partners = Read(r.end).partners
    BY <1>1 DEF Publish
  <2>2. r.end <= spineEnd
    BY <1>1, <2>1, SpineReaches
  <2> QED BY <1>1, <2>1, <2>2, TotalsShown, RowsShown
<1>2. MartsInv /\ [Next]_vars => [snapshot' # snapshot => Shown]_vars
  <2> SUFFICES ASSUME MartsInv, Next, snapshot' # snapshot PROVE Shown
    OBVIOUS
  <2>1. \E r \in Runs : Publish(r)
    BY DEF Next, LoadDetail, LoadWorld, Build
  <2> QED BY <1>1, <2>1
<1>3. Spec => [][snapshot' # snapshot => Shown]_vars
  BY <1>2, MartsInvariant, PTL DEF Spec
<1> QED BY <1>3 DEF ReleaseShowsRaw

\* With the common period selected, every market has data of every selected product in
\* every month shown.
THEOREM CommonMonthsAreWhole == Spec => []CommonMonthsHaveData
<1>1. ASSUME ReleaseListsMonths, snapshot # None, NEW products \in Selections,
             NEW m \in CommonMonths(snapshot, Options(snapshot), products),
             NEW r \in Options(snapshot), NEW p \in products
      PROVE  /\ <<m, r, p>> \in DOMAIN snapshot.monthly
             /\ HasData(snapshot.monthly[<<m, r, p>>])
  <2> DEFINE listed == snapshot.availability
             cells == {c \in DOMAIN snapshot.monthly : HasData(snapshot.monthly[c])}
  <2>1. <<r, p>> \in DOMAIN listed /\ m \in listed[<<r, p>>]
    BY <1>1 DEF CommonMonths
  <2>2. listed = Availability(snapshot.monthly) /\ DOMAIN snapshot.monthly \subseteq Cells
    BY <1>1 DEF ReleaseListsMonths
  <2>3. m \in {c[1] : c \in {c \in cells : Scope(c) = <<r, p>>}}
    BY <2>1, <2>2 DEF Availability
  <2>4. PICK c \in cells : Scope(c) = <<r, p>> /\ c[1] = m
    BY <2>3
  <2>5. c = <<m, r, p>>
    BY <2>2, <2>4, CellFacts DEF Scope
  <2> QED BY <2>4, <2>5
<1>2. MartsInv => CommonMonthsHaveData
  BY <1>1 DEF MartsInv, CommonMonthsHaveData
<1> QED BY <1>2, MartsInvariant, PTL

\* The inductive invariant of releases: values are numbers, every row has a month of its
\* scope, and its bases are the values of other rows of the same release.
THEOREM RowsInvariant == Spec => []RowsInv
BY InitRows, RowsStep, PTL DEF Spec

\* The growth that the website recomputes has a base exactly if dbt gave one to each of
\* the rows of the selection, and then their sum.
THEOREM GrowthBasesAgree == Spec => []BasesAgreeWithMarts
<1> DEFINE Agrees(s, r, products, g) ==
      LET scope == MarketScope(s, r, products)
          keys == {<<<<g[1], r, p>>, g[2]>> : p \in products}
          whole == keys \subseteq DOMAIN s.partners
          month == [k \in keys |-> s.partners[k].previousMonth]
          year == [k \in keys |-> s.partners[k].previousYear] IN
      /\ scope.partners[g].previousMonth =
           IF whole /\ \A k \in keys : month[k] # None THEN Sum(month) ELSE None
      /\ scope.partners[g].previousYear =
           IF whole /\ \A k \in keys : year[k] # None THEN Sum(year) ELSE None
<1>1. ASSUME NEW s, RowsOf(s), NEW r, NEW products \in Selections,
             NEW g \in DOMAIN MarketScope(s, r, products).partners
      PROVE  Agrees(s, r, products, g)
  <2> DEFINE scope == MarketScope(s, r, products)
             keys == {<<<<g[1], r, p>>, g[2]>> : p \in products}
             month == [k \in keys |-> s.partners[k].previousMonth]
             year == [k \in keys |-> s.partners[k].previousYear]
             current == Bucket(s, r, products, g[1], g[2])
  <2>1. /\ scope.partners[g].previousMonth =
             TotalFor(s, r, products, g[1] - 1, g[2], current)
        /\ scope.partners[g].previousYear =
             TotalFor(s, r, products, g[1] - Year, g[2], current)
    BY DEF MarketScope
  <2>2. \A k \in keys \cap DOMAIN s.partners :
          month[k] = Base(s, k, 1) /\ year[k] = Base(s, k, Year)
    BY <1>1 DEF RowsOf
  <2>3. DOMAIN month = keys /\ DOMAIN year = keys
    OBVIOUS
  <2>4. Year \in Nat /\ 1 \in Nat
    BY MartsAssumption
  <2> HIDE DEF month, year, scope
  <2>5. TotalFor(s, r, products, g[1] - 1, g[2], current) =
          IF keys \subseteq DOMAIN s.partners /\ \A k \in keys : month[k] # None
            THEN Sum(month) ELSE None
    BY <1>1, <2>2, <2>3, <2>4, BaseAgrees
  <2>6. TotalFor(s, r, products, g[1] - Year, g[2], current) =
          IF keys \subseteq DOMAIN s.partners /\ \A k \in keys : year[k] # None
            THEN Sum(year) ELSE None
    BY <1>1, <2>2, <2>3, <2>4, BaseAgrees
  <2> QED BY <2>1, <2>5, <2>6 DEF scope, month, year
<1>2. RowsInv => BasesAgreeWithMarts
  <2>1. BasesAgreeWithMarts <=>
          (snapshot # None =>
             \A r \in Options(snapshot), products \in Selections :
               \A g \in DOMAIN MarketScope(snapshot, r, products).partners :
                 Agrees(snapshot, r, products, g))
    BY DEF BasesAgreeWithMarts
  <2> HIDE DEF Agrees
  <2> QED BY <1>1, <2>1 DEF RowsInv
<1> QED BY <1>2, RowsInvariant, PTL

\* A share shown without the notice of missing months is the ratio of the sums of the same
\* rows of the release, each of a month and product with a World total.
THEOREM SharesAreExact == Spec => []UnnoticedShareIsExact
<1> DEFINE Exact(s, r, products, common, scope, start, end) ==
      LET a == Analyze(scope, start, end, {})
          shown == IF common THEN CommonMonths(s, Options(s), products) ELSE Months
          cells == (shown \cap (start..end)) \X {r} \X products
          amounts == {g \in DOMAIN s.partners : g[1] \in cells}
          totals == {c \in DOMAIN s.monthly : c \in cells}
          value == Sum([g \in amounts |-> s.partners[g].value])
          total == Sum([c \in totals |-> s.monthly[c].world]) IN
      a.worldMonths = a.months =>
        /\ \A g \in amounts : g[1] \in totals /\ s.monthly[g[1]].world # None
        /\ a.selectedShare = Share(value, total)
<1>1. ASSUME NEW s, RowsOf(s), NEW r, NEW products \in Selections, NEW common,
             NEW start, NEW end
      PROVE  Exact(s, r, products, common, Rendered(s, r, products, common), start, end)
  <2> DEFINE a == Analyze(Rendered(s, r, products, common), start, end, {})
             window == MonthsShown(s, products, common) \cap (start..end)
  <2>1. ASSUME a.worldMonths = a.months
        PROVE  /\ \A g \in AmountsIn(s, r, products, window) :
                    /\ g[1] \in TotalsIn(s, r, products, window)
                    /\ s.monthly[g[1]].world # None
               /\ a.selectedShare = Share(ValueOfRows(s, r, products, window),
                                          TotalOfRows(s, r, products, window))
    <3>1. /\ a = Analyze(Rendered(s, r, products, common), start, end, {})
          /\ window = MonthsShown(s, products, common) \cap (start..end)
      OBVIOUS
    <3> HIDE DEF a, window
    <3> QED BY ONLY RowsOf(s), products \in Selections, <2>1, <3>1, PeriodIsExact
  <2> QED BY <2>1 DEF MonthsShown, AmountsIn, TotalsIn, ValueOfRows, TotalOfRows
<1>2. RowsInv => UnnoticedShareIsExact
  <2>1. UnnoticedShareIsExact <=>
          (snapshot # None =>
             \A r \in Options(snapshot), products \in Selections, common \in BOOLEAN :
             \A scope \in {Rendered(snapshot, r, products, common)} :
               \A start \in Months : \A end \in start..NumMonths :
                 Exact(snapshot, r, products, common, scope, start, end))
    BY DEF UnnoticedShareIsExact
  <2> HIDE DEF Exact
  <2> QED BY <1>1, <2>1 DEF RowsInv
<1> QED BY <1>2, RowsInvariant, PTL

=============================================================================
