------------------------------ MODULE Dashboard ------------------------------
(***************************************************************************)
(* What the website computes from a released snapshot.                     *)
(*                                                                         *)
(* The reader selects a market, some products, a period, some countries    *)
(* and perhaps the months common to all markets.  marketScope adds up the  *)
(* products, analyze adds up the months.  Both are functions of the        *)
(* snapshot: this module adds operators to Marts, and no step.             *)
(***************************************************************************)
EXTENDS Marts

CONSTANT Scale \* SCALE: a ratio is a whole number of 1/Scale

ASSUME ScaleAssumption == Scale \in Nat \ {0}

\* sum(...): of the known values, if there are any.
Sum(values) ==
  LET known == {k \in DOMAIN values : values[k] # None}
      Value(k) == values[k] IN
  IF known = {} THEN None ELSE MapThenSumSet(Value, known)

\* share(...): BigInt division drops what is less than 1/Scale.
Share(numerator, denominator) ==
  IF numerator = None \/ denominator = None THEN None
  ELSE IF denominator <= 0 THEN None
  ELSE (numerator * Scale) \div denominator

Growth(value, prior) ==
  LET ratio == Share(value, prior) IN IF ratio = None THEN None ELSE ratio - Scale

-----------------------------------------------------------------------------
(* marketScope *)

\* completeSum(...): of all products, or null.
CompleteSum(values, products) ==
  IF /\ Cardinality(DOMAIN values) = Cardinality(products)
     /\ \A k \in DOMAIN values : values[k] # None
    THEN Sum(values)
    ELSE None

Bucket(s, r, products, m, k) ==
  {p \in products : <<<<m, r, p>>, k>> \in DOMAIN s.partners}

Amount(s, r, m, k, bucket) ==
  Sum([p \in bucket |-> s.partners[<<<<m, r, p>>, k>>].value])

\* Mutant: what there is a year before counts as the base.
TotalForAny(s, r, products, m, k, current) ==
  Amount(s, r, m, k, Bucket(s, r, products, m, k))

\* totalFor(...): the base of a growth, if both months have every product.
TotalFor(s, r, products, m, k, current) ==
  LET prior == Bucket(s, r, products, m, k) IN
  IF /\ Cardinality(prior) = Cardinality(products)
     /\ Cardinality(current) = Cardinality(products)
     /\ current \subseteq prior
    THEN Amount(s, r, m, k, prior)
    ELSE None

MarketScope(s, r, products) ==
  LET Match(m) == {p \in products : <<m, r, p>> \in DOMAIN s.monthly}
      Row(m, p) == s.monthly[<<m, r, p>>]
      months == {m \in Months : Match(m) # {}}
      keys == {g \in Months \X Countries : Bucket(s, r, products, g[1], g[2]) # {}}
      World(m) == CompleteSum([p \in Match(m) |-> Row(m, p).world], products)
      Previous(m) == CompleteSum([p \in Match(m) |-> Row(m, p).previousYear], products)
      Partner(g) ==
        LET current == Bucket(s, r, products, g[1], g[2])
            value == Amount(s, r, g[1], g[2], current)
            month == TotalFor(s, r, products, g[1] - 1, g[2], current)
            year == TotalFor(s, r, products, g[1] - Year, g[2], current) IN
        [value |-> value, previousMonth |-> month, previousYear |-> year,
         share |-> Share(value, IF g[1] \in months THEN World(g[1]) ELSE None),
         mom |-> Growth(value, month), yoy |-> Growth(value, year)]
  IN [monthly |-> [m \in months |->
                     [world |-> World(m), yoy |-> Growth(World(m), Previous(m))]],
      partners |-> [g \in keys |-> Partner(g)]]

\* Mutant: a market and product without data do not restrict the months.
CommonOfKnown(s, reporters, products) ==
  {m \in Months : \A c \in (reporters \X products) \cap DOMAIN s.availability :
                    m \in s.availability[c]}

\* commonMonths(...): a market and product without data have no months.
CommonMonths(s, reporters, products) ==
  {m \in Months : \A c \in reporters \X products :
                    c \in DOMAIN s.availability /\ m \in s.availability[c]}

\* The options of the market filter.
Options(s) == {c[2] : c \in DOMAIN s.monthly}

-----------------------------------------------------------------------------
(* analyze, for a period and a set of countries, of which none means all *)

\* Mutant: a month with any data counts as one with a World total.
WithAnyData(scope, months) ==
  {m \in months : \/ scope.monthly[m].world # None
                  \/ \E g \in DOMAIN scope.partners : g[1] = m}

WithWorld(scope, months) == {m \in months : scope.monthly[m].world # None}

Analyze(scope, start, end, countries) ==
  LET months == {m \in DOMAIN scope.monthly : m \in start..end}
      rows == {g \in DOMAIN scope.partners :
                 g[1] \in start..end /\ (countries = {} \/ g[2] \in countries)}
      total == Sum([m \in months |-> scope.monthly[m].world])
      selected == Sum([g \in rows |-> scope.partners[g].value]) IN
  [months |-> months, scope |-> rows,
   world |-> total,
   selected |-> selected,
   selectedShare |-> Share(selected, total),
   worldMonths |-> WithWorld(scope, months)]

\* render(): the scope, restricted to the common months if the reader asks for them.
Rendered(s, r, products, common) ==
  LET scope == MarketScope(s, r, products)
      keep == IF common THEN CommonMonths(s, Options(s), products) ELSE Months IN
  [monthly |-> [m \in (DOMAIN scope.monthly) \cap keep |-> scope.monthly[m]],
   partners |-> [g \in {g \in DOMAIN scope.partners : g[1] \in keep} |-> scope.partners[g]]]

Selections == (SUBSET Products) \ {{}}

-----------------------------------------------------------------------------
\* The growth that the website recomputes for a selection of products has a base
\* exactly if dbt gave one to each of its rows, and then their sum: a product that is
\* missing in either month never passes for growth or decline.
BasesAgreeWithMarts ==
  snapshot # None =>
    \A r \in Options(snapshot), products \in Selections :
      LET scope == MarketScope(snapshot, r, products) IN
      \A g \in DOMAIN scope.partners :
        LET keys == {<<<<g[1], r, p>>, g[2]>> : p \in products}
            whole == keys \subseteq DOMAIN snapshot.partners
            month == [k \in keys |-> snapshot.partners[k].previousMonth]
            year == [k \in keys |-> snapshot.partners[k].previousYear] IN
        /\ scope.partners[g].previousMonth =
             IF whole /\ \A k \in keys : month[k] # None THEN Sum(month) ELSE None
        /\ scope.partners[g].previousYear =
             IF whole /\ \A k \in keys : year[k] # None THEN Sum(year) ELSE None

\* A share of a period that is shown without the notice of missing months is what its
\* contract says, amounts added up and then divided: product by product and month by
\* month it is the ratio of the same rows of the snapshot, each of a month and product
\* whose World total is known.
UnnoticedShareIsExact ==
  snapshot # None =>
    \A r \in Options(snapshot), products \in Selections, common \in BOOLEAN :
    \A scope \in {Rendered(snapshot, r, products, common)} :
      \A start \in Months : \A end \in start..NumMonths :
        LET a == Analyze(scope, start, end, {})
            shown == IF common THEN CommonMonths(snapshot, Options(snapshot), products)
                               ELSE Months
            cells == (shown \cap (start..end)) \X {r} \X products
            amounts == {g \in DOMAIN snapshot.partners : g[1] \in cells}
            totals == {c \in DOMAIN snapshot.monthly : c \in cells}
            value == Sum([g \in amounts |-> snapshot.partners[g].value])
            total == Sum([c \in totals |-> snapshot.monthly[c].world]) IN
        a.worldMonths = a.months =>
          /\ \A g \in amounts : g[1] \in totals /\ snapshot.monthly[g[1]].world # None
          /\ a.selectedShare = Share(value, total)

\* With the common period selected, every market has data of every selected product
\* in every month shown, gaps inside the period included.
CommonMonthsHaveData ==
  snapshot # None =>
    \A products \in Selections :
      \A m \in CommonMonths(snapshot, Options(snapshot), products) :
        \A r \in Options(snapshot), p \in products :
          <<m, r, p>> \in DOMAIN snapshot.monthly /\ HasData(snapshot.monthly[<<m, r, p>>])

=============================================================================
