---------------------------- MODULE FetchProofs -----------------------------
(***************************************************************************)
(* What a task asks the API for, proved for every plan, row limit and      *)
(* budget.                                                                 *)
(***************************************************************************)
EXTENDS Fetch, SequenceTheorems, WellFoundedInduction, TLAPS

-----------------------------------------------------------------------------
(* Sequences: what Kept keeps *)

LEMMA LeastNumber ==
  ASSUME NEW B \in SUBSET Nat, B # {}
  PROVE  \E m \in B : \A n \in B : ~ (n < m)
<1>1. PICK m \in B : \A n \in B : ~ (<<n, m>> \in OpToRel(<, Nat))
  BY NatLessThanWellFounded, WFMin
<1>2. \A n \in B : ~ (n < m)
  BY <1>1 DEF OpToRel
<1> QED BY <1>2

\* The recursion of KeptUpTo defines a function, for the first m elements.
Recursion(f, s, S, m) ==
  f = [n \in 0..m |->
         IF n = 0 THEN <<>>
         ELSE IF s[n] \in S THEN Append(f[n - 1], s[n]) ELSE f[n - 1]]

LEMMA RecursionExists ==
  ASSUME NEW s, NEW S, NEW m \in Nat
  PROVE  \E f : Recursion(f, s, S, m)
<1> DEFINE B == {n \in Nat : ~ \E f : Recursion(f, s, S, n)}
<1>1. SUFFICES ASSUME B # {} PROVE FALSE
  OBVIOUS
<1>2. PICK k \in B : \A n \in B : ~ (n < k)
  <2> HIDE DEF B
  <2>1. B \in SUBSET Nat
    BY DEF B
  <2> QED BY <1>1, <2>1, LeastNumber
<1>3. CASE k = 0
  <2> DEFINE f == [n \in 0..0 |-> <<>>]
  <2>1. f = [n \in 0..0 |->
               IF n = 0 THEN <<>>
               ELSE IF s[n] \in S THEN Append(f[n - 1], s[n]) ELSE f[n - 1]]
    OBVIOUS
  <2>2. Recursion(f, s, S, 0)
    BY <2>1 DEF Recursion
  <2> QED BY <1>3, <2>2
<1>4. CASE k # 0
  <2>1. k - 1 \in Nat /\ k - 1 \notin B
    BY <1>2, <1>4
  <2>2. PICK f : Recursion(f, s, S, k - 1)
    BY <2>1
  <2> DEFINE last == IF s[k] \in S THEN Append(f[k - 1], s[k]) ELSE f[k - 1]
             g == [n \in 0..k |-> IF n = k THEN last ELSE f[n]]
             h == [n \in 0..k |->
                     IF n = 0 THEN <<>>
                     ELSE IF s[n] \in S THEN Append(g[n - 1], s[n]) ELSE g[n - 1]]
  <2>3. \A n \in 0..(k - 1) :
          f[n] = IF n = 0 THEN <<>>
                 ELSE IF s[n] \in S THEN Append(f[n - 1], s[n]) ELSE f[n - 1]
    BY <2>2 DEF Recursion
  <2>4. \A n \in 0..k : g[n] = h[n]
    <3>1. TAKE n \in 0..k
    <3>2. CASE n = k
      <4>1. g[n] = last /\ g[n - 1] = f[n - 1]
        BY <1>4, <3>2
      <4> QED BY <1>4, <3>2, <4>1
    <3>3. CASE n # k /\ n # 0
      <4>1. n \in 0..(k - 1) /\ n - 1 \in 0..k /\ n - 1 # k
        BY <3>3
      <4>2. g[n] = f[n] /\ g[n - 1] = f[n - 1]
        BY <4>1, <3>3
      <4>3. h[n] = IF s[n] \in S THEN Append(f[n - 1], s[n]) ELSE f[n - 1]
        BY <4>2, <3>3
      <4> HIDE DEF g, h, last
      <4> QED BY <2>3, <3>3, <4>1, <4>2, <4>3
    <3>4. CASE n # k /\ n = 0
      <4>1. g[n] = f[n] /\ n \in 0..(k - 1) /\ h[n] = <<>>
        BY <3>4
      <4> HIDE DEF g, h, last
      <4> QED BY <2>3, <3>4, <4>1
    <3> QED BY <3>2, <3>3, <3>4
  <2>5. g = h
    BY <2>4
  <2>6. Recursion(g, s, S, k)
    BY <2>5 DEF Recursion
  <2> QED BY <2>6
<1> QED BY <1>3, <1>4

LEMMA KeptUpToStep ==
  ASSUME NEW T, NEW s \in Seq(T), NEW S
  PROVE  /\ KeptUpTo(s, S)[0] = <<>>
         /\ \A n \in 1..Len(s) :
              KeptUpTo(s, S)[n] = IF s[n] \in S THEN Append(KeptUpTo(s, S)[n - 1], s[n])
                                  ELSE KeptUpTo(s, S)[n - 1]
<1>1. Len(s) \in Nat
  OBVIOUS
<1>2. \E f : f = [n \in 0..Len(s) |->
         IF n = 0 THEN <<>>
         ELSE IF s[n] \in S THEN Append(f[n - 1], s[n]) ELSE f[n - 1]]
  <2>1. \E f : Recursion(f, s, S, Len(s))
    BY <1>1, RecursionExists
  <2> QED BY <2>1 DEF Recursion
<1>3. KeptUpTo(s, S) = [n \in 0..Len(s) |->
         IF n = 0 THEN <<>>
         ELSE IF s[n] \in S THEN Append(KeptUpTo(s, S)[n - 1], s[n])
              ELSE KeptUpTo(s, S)[n - 1]]
  BY <1>2 DEF KeptUpTo
<1> DEFINE f == KeptUpTo(s, S)
<1>4. f = [n \in 0..Len(s) |->
         IF n = 0 THEN <<>>
         ELSE IF s[n] \in S THEN Append(f[n - 1], s[n]) ELSE f[n - 1]]
  BY <1>3
<1> HIDE DEF f
<1> DEFINE at(n) == IF n = 0 THEN <<>>
                    ELSE IF s[n] \in S THEN Append(f[n - 1], s[n]) ELSE f[n - 1]
<1>5. \A n \in 0..Len(s) : f[n] = at(n)
  <2> DEFINE g == [n \in 0..Len(s) |-> at(n)]
  <2>1. f = g
    BY <1>4
  <2>2. \A n \in 0..Len(s) : g[n] = at(n)
    OBVIOUS
  <2> HIDE DEF g, at
  <2> QED BY <2>1, <2>2
<1>6. 0 \in 0..Len(s) /\ \A n \in 1..Len(s) : n \in 0..Len(s) /\ n # 0
  BY <1>1
<1>7. /\ f[0] = <<>>
      /\ \A n \in 1..Len(s) : f[n] = IF s[n] \in S THEN Append(f[n - 1], s[n]) ELSE f[n - 1]
  BY <1>5, <1>6
<1> QED BY <1>7 DEF f

\* No element occurs twice.
Distinct(s) == \A i, k \in 1..Len(s) : s[i] = s[k] => i = k

\* The elements of a sequence.
Elements(s) == {s[i] : i \in 1..Len(s)}

\* What is kept of the first n elements: those in S, each as often as it is there.
KeptSoFar(s, S, n, T) ==
  /\ KeptUpTo(s, S)[n] \in Seq(T)
  /\ Elements(KeptUpTo(s, S)[n]) = {s[i] : i \in 1..n} \cap S
  /\ Distinct(s) => Distinct(KeptUpTo(s, S)[n])

LEMMA AppendFacts ==
  ASSUME NEW T, NEW k \in Seq(T), NEW x \in T
  PROVE  /\ Append(k, x) \in Seq(T)
         /\ Elements(Append(k, x)) = Elements(k) \cup {x}
         /\ Distinct(k) /\ x \notin Elements(k) => Distinct(Append(k, x))
<1>1. /\ Append(k, x) \in Seq(T)
      /\ Len(Append(k, x)) = Len(k) + 1
      /\ \A i \in 1..Len(k) : Append(k, x)[i] = k[i]
      /\ Append(k, x)[Len(k) + 1] = x
      /\ Len(k) \in Nat
  OBVIOUS
<1> DEFINE a == Append(k, x)
<1>2. 1..Len(a) = 1..Len(k) \cup {Len(k) + 1}
  BY <1>1
<1> HIDE DEF a
<1>3. Elements(a) = Elements(k) \cup {x}
  BY <1>1, <1>2 DEF Elements, a
<1>4. Distinct(k) /\ x \notin Elements(k) => Distinct(a)
  BY <1>1, <1>2 DEF Elements, Distinct, a
<1> QED BY <1>1, <1>3, <1>4 DEF a

LEMMA KeptSoFarHolds ==
  ASSUME NEW T, NEW s \in Seq(T), NEW S, NEW n \in 0..Len(s)
  PROVE  KeptSoFar(s, S, n, T)
<1> DEFINE B == {m \in 0..Len(s) : ~ KeptSoFar(s, S, m, T)}
<1>1. SUFFICES ASSUME B # {} PROVE FALSE
  OBVIOUS
<1>2. PICK k \in B : \A m \in B : ~ (m < k)
  <2>1. B \in SUBSET Nat
    OBVIOUS
  <2> HIDE DEF B
  <2> QED BY <1>1, <2>1, LeastNumber
<1>3. CASE k = 0
  <2>1. KeptUpTo(s, S)[0] = <<>>
    BY KeptUpToStep
  <2>2. KeptSoFar(s, S, 0, T)
    BY <2>1 DEF KeptSoFar, Elements, Distinct
  <2> QED BY <1>3, <2>2
<1>4. CASE k # 0
  <2>1. k \in 1..Len(s) /\ k - 1 \in 0..Len(s) /\ k - 1 \notin B /\ s[k] \in T
    BY <1>2, <1>4
  <2>2. KeptSoFar(s, S, k - 1, T)
    BY <2>1
  <2> DEFINE before == KeptUpTo(s, S)[k - 1]
             now == KeptUpTo(s, S)[k]
  <2>3. now = IF s[k] \in S THEN Append(before, s[k]) ELSE before
    BY <2>1, KeptUpToStep
  <2>4. /\ before \in Seq(T)
        /\ Elements(before) = {s[i] : i \in 1..(k - 1)} \cap S
        /\ Distinct(s) => Distinct(before)
    BY <2>2 DEF KeptSoFar
  <2>5. now \in Seq(T) /\ Elements(now) = {s[i] : i \in 1..k} \cap S
                       /\ (Distinct(s) => Distinct(now))
    <3> HIDE DEF before, now
    <3>1. 1..k = 1..(k - 1) \cup {k}
      BY <2>1
    <3>2. {s[i] : i \in 1..k} = {s[i] : i \in 1..(k - 1)} \cup {s[k]}
      BY <3>1
    <3>3. CASE s[k] \in S
      <4>1. Distinct(s) => s[k] \notin Elements(before)
        BY <2>1, <2>4 DEF Distinct
      <4>2. now = Append(before, s[k])
        BY <2>3, <3>3
      <4>3. /\ now \in Seq(T)
            /\ Elements(now) = Elements(before) \cup {s[k]}
            /\ Distinct(before) /\ s[k] \notin Elements(before) => Distinct(now)
        <5>1. before \in Seq(T) /\ s[k] \in T
          BY <2>1, <2>4
        <5> QED BY <4>2, <5>1, AppendFacts
      <4> QED BY <2>4, <3>2, <3>3, <4>1, <4>3
    <3>4. CASE s[k] \notin S
      BY <2>3, <2>4, <3>2, <3>4
    <3> QED BY <3>3, <3>4
  <2>6. KeptSoFar(s, S, k, T)
    BY <2>5 DEF KeptSoFar
  <2> QED BY <2>6
<1> QED BY <1>3, <1>4

\* Kept keeps the elements in the set and nothing else, none of them twice.
LEMMA KeptFacts ==
  ASSUME NEW T, NEW s \in Seq(T), NEW S
  PROVE  /\ Kept(s, S) \in Seq(T)
         /\ Elements(Kept(s, S)) = Elements(s) \cap S
         /\ Distinct(s) => Distinct(Kept(s, S))
<1>1. Len(s) \in 0..Len(s)
  OBVIOUS
<1>2. KeptSoFar(s, S, Len(s), T)
  BY <1>1, KeptSoFarHolds
<1> QED BY <1>2 DEF KeptSoFar, Kept, Elements


-----------------------------------------------------------------------------
(* Queries: planning, halving *)

Queries == [job : Jobs, group : Seq(Reporters)]

\* The pairs that queries ask for.
Asked(qs) == UNION {Pairs(qs[i]) : i \in 1..Len(qs)}

\* No query is empty, none repeats a reporter, none asks for what is done or for what
\* another asks for.
WellPlanned(qs, done) ==
  /\ qs \in Seq(Queries)
  /\ \A i \in 1..Len(qs) :
       /\ qs[i].group # <<>>
       /\ Distinct(qs[i].group)
       /\ Pairs(qs[i]) \subseteq Wanted \ done
  /\ \A i, k \in 1..Len(qs) : i # k => Pairs(qs[i]) \cap Pairs(qs[k]) = {}

LEMMA NothingPlanned ==
  ASSUME NEW done
  PROVE  WellPlanned(<<>>, done) /\ Asked(<<>>) = {}
BY DEF WellPlanned, Asked

LEMMA PairsFacts ==
  ASSUME NEW q \in Queries
  PROVE  Pairs(q) = {q.job} \X Elements(q.group)
BY DEF Pairs, Elements, Queries

LEMMA GroupFacts ==
  ASSUME NEW j \in Jobs
  PROVE  /\ Group(j) \in Seq(Reporters)
         /\ Elements(Group(j)) = {r \in Reporters : <<j, r>> \in Wanted \ completed}
         /\ Distinct(Group(j))
<1> DEFINE S == {r \in Reporters : <<j, r>> \in Wanted \ completed}
<1>1. Markets \in Seq(Reporters) /\ Distinct(Markets) /\ Elements(Markets) = Reporters
  BY FetchAssumption DEF Distinct, Elements, Reporters
<1> HIDE DEF S
<1>2. /\ Kept(Markets, S) \in Seq(Reporters)
      /\ Elements(Kept(Markets, S)) = Reporters \cap S
      /\ Distinct(Kept(Markets, S))
  BY <1>1, KeptFacts
<1> QED BY <1>2 DEF S, Group

LEMMA QueryFacts ==
  ASSUME NEW j \in Jobs
  PROVE  /\ Query(j) \in Queries
         /\ Query(j).job = j
         /\ Query(j).group = Group(j)
         /\ Pairs(Query(j)) = {p \in Wanted \ completed : p[1] = j}
<1>1. Query(j) \in Queries /\ Query(j).job = j /\ Query(j).group = Group(j)
  BY GroupFacts DEF Query, Queries
<1>2. Pairs(Query(j)) = {j} \X {r \in Reporters : <<j, r>> \in Wanted \ completed}
  BY <1>1, GroupFacts, PairsFacts
<1>3. Wanted \subseteq Jobs \X Reporters
  BY FetchAssumption
<1>4. {j} \X {r \in Reporters : <<j, r>> \in Wanted \ completed}
        = {p \in Wanted \ completed : p[1] = j}
  BY <1>3
<1> QED BY <1>1, <1>2, <1>4

\* What is planned is everything that is wanted and not completed, once.
LEMMA PlanFacts ==
  /\ WellPlanned(Plan, completed)
  /\ Asked(Plan) = Wanted \ completed
<1> DEFINE all == [j \in Jobs |-> Query(j)]
           S == {Query(j) : j \in {j \in Jobs : Group(j) # <<>>}}
<1>1. all \in Seq(Queries) /\ Len(all) = NumJobs
  BY QueryFacts, FetchAssumption DEF Jobs
<1>2. Distinct(all)
  <2>1. \A i, k \in Jobs : Query(i) = Query(k) => i = k
    BY QueryFacts
  <2> QED BY <1>1, <2>1 DEF Distinct, Jobs
<1>3. Elements(all) = {Query(j) : j \in Jobs}
  BY <1>1 DEF Elements, Jobs
<1>4. /\ Plan \in Seq(Queries)
      /\ Elements(Plan) = Elements(all) \cap S
      /\ Distinct(Plan)
  <2> HIDE DEF all, S
  <2>1. /\ Kept(all, S) \in Seq(Queries)
        /\ Elements(Kept(all, S)) = Elements(all) \cap S
        /\ Distinct(Kept(all, S))
    BY <1>1, <1>2, KeptFacts
  <2> QED BY <2>1 DEF all, S, Plan
<1>5. Elements(Plan) = S
  BY <1>3, <1>4
<1>6. \A i \in 1..Len(Plan) : \E j \in Jobs : Plan[i] = Query(j) /\ Group(j) # <<>>
  <2>1. \A i \in 1..Len(Plan) : Plan[i] \in S
    BY <1>5 DEF Elements
  <2> QED BY <2>1
<1>7. \A i \in 1..Len(Plan) :
        /\ Plan[i].group # <<>>
        /\ Distinct(Plan[i].group)
        /\ Pairs(Plan[i]) \subseteq Wanted \ completed
  <2>1. TAKE i \in 1..Len(Plan)
  <2>2. PICK j \in Jobs : Plan[i] = Query(j) /\ Group(j) # <<>>
    BY <1>6
  <2> QED BY <2>2, QueryFacts, GroupFacts
<1>8. \A i, k \in 1..Len(Plan) : i # k => Pairs(Plan[i]) \cap Pairs(Plan[k]) = {}
  <2>1. SUFFICES ASSUME NEW i \in 1..Len(Plan), NEW k \in 1..Len(Plan), i # k
                 PROVE  Pairs(Plan[i]) \cap Pairs(Plan[k]) = {}
    OBVIOUS
  <2>2. PICK j \in Jobs : Plan[i] = Query(j)
    BY <1>6
  <2>3. PICK l \in Jobs : Plan[k] = Query(l)
    BY <1>6
  <2>4. j # l
    BY <1>4, <2>1, <2>2, <2>3 DEF Distinct
  <2> QED BY <2>2, <2>3, <2>4, QueryFacts
<1>9. Asked(Plan) = Wanted \ completed
  <2>1. ASSUME NEW p \in Wanted \ completed PROVE p \in Asked(Plan)
    <3>1. PICK j \in Jobs, r \in Reporters : p = <<j, r>>
      BY FetchAssumption
    <3>2. r \in Elements(Group(j))
      BY <2>1, <3>1, GroupFacts
    <3>3. Group(j) # <<>>
      BY <3>2 DEF Elements
    <3>4. Query(j) \in Elements(Plan)
      BY <1>5, <3>3
    <3>5. p \in Pairs(Query(j))
      BY <2>1, <3>1, QueryFacts
    <3> HIDE DEF S, all
    <3> QED BY <3>4, <3>5 DEF Elements, Asked
  <2>2. Asked(Plan) \subseteq Wanted \ completed
    BY <1>7 DEF Asked
  <2> QED BY <2>1, <2>2
<1> QED BY <1>4, <1>7, <1>8, <1>9 DEF WellPlanned

\* A query that is answered leaves the rest well planned.
LEMMA TailFacts ==
  ASSUME NEW done, NEW qs, WellPlanned(qs, done), qs # <<>>,
         NEW X \in SUBSET Pairs(Head(qs))
  PROVE  /\ Head(qs) \in Queries
         /\ Pairs(Head(qs)) \subseteq Wanted \ done
         /\ WellPlanned(Tail(qs), done \cup X)
         /\ Asked(qs) = Pairs(Head(qs)) \cup Asked(Tail(qs))
<1> DEFINE rest == Tail(qs)
<1>1. qs \in Seq(Queries) /\ Len(qs) \in Nat \ {0}
  BY DEF WellPlanned
<1>2. /\ rest \in Seq(Queries)
      /\ Len(rest) = Len(qs) - 1
      /\ \A i \in 1..Len(rest) : rest[i] = qs[i + 1] /\ i + 1 \in 1..Len(qs)
      /\ Head(qs) = qs[1] /\ 1 \in 1..Len(qs)
  BY <1>1
<1>3. \A i \in 1..Len(qs) : i # 1 => i - 1 \in 1..Len(rest) /\ rest[i - 1] = qs[i]
  <2>1. TAKE i \in 1..Len(qs)
  <2>2. HAVE i # 1
  <2>3. i - 1 \in 1..Len(rest) /\ (i - 1) + 1 = i
    BY <1>1, <1>2, <2>2
  <2> HIDE DEF rest
  <2> QED BY <1>2, <2>3
<1> HIDE DEF rest
<1>4. \A i \in 1..Len(rest) :
        /\ rest[i].group # <<>>
        /\ Distinct(rest[i].group)
        /\ Pairs(rest[i]) \subseteq Wanted \ (done \cup X)
  <2>1. TAKE i \in 1..Len(rest)
  <2>2. i + 1 # 1 /\ i + 1 \in 1..Len(qs) /\ rest[i] = qs[i + 1]
    BY <1>1, <1>2
  <2>3. Pairs(qs[i + 1]) \cap Pairs(qs[1]) = {}
    BY <1>2, <2>2 DEF WellPlanned
  <2> QED BY <1>2, <2>2, <2>3 DEF WellPlanned
<1>5. \A i, k \in 1..Len(rest) : i # k => Pairs(rest[i]) \cap Pairs(rest[k]) = {}
  <2>1. SUFFICES ASSUME NEW i \in 1..Len(rest), NEW k \in 1..Len(rest), i # k
                 PROVE  Pairs(rest[i]) \cap Pairs(rest[k]) = {}
    OBVIOUS
  <2>2. i + 1 # k + 1 /\ i + 1 \in 1..Len(qs) /\ k + 1 \in 1..Len(qs)
    BY <1>1, <1>2, <2>1
  <2> QED BY <1>2, <2>2 DEF WellPlanned
<1>6. Asked(qs) = Pairs(Head(qs)) \cup Asked(rest)
  BY <1>1, <1>2, <1>3 DEF Asked
<1>7. Head(qs) \in Queries /\ Pairs(Head(qs)) \subseteq Wanted \ done
  BY <1>1, <1>2 DEF WellPlanned
<1> QED BY <1>2, <1>4, <1>5, <1>6, <1>7 DEF WellPlanned, rest

\* The halves of a group are not empty and have its reporters, each in one of them.
LEMMA HalvesFacts ==
  ASSUME NEW q \in Queries, Len(q.group) > 1, Distinct(q.group)
  PROVE  /\ Halves(q) \in Seq(Queries)
         /\ Len(Halves(q)) = 2
         /\ \A i \in 1..2 : Halves(q)[i].group # <<>> /\ Distinct(Halves(q)[i].group)
         /\ Pairs(Halves(q)[1]) \cap Pairs(Halves(q)[2]) = {}
         /\ Pairs(q) = Pairs(Halves(q)[1]) \cup Pairs(Halves(q)[2])
<1> DEFINE g == q.group
           n == Len(g)
           middle == n \div 2
           one == SubSeq(g, 1, middle)
           two == SubSeq(g, middle + 1, n)
           first == [job |-> q.job, group |-> one]
           second == [job |-> q.job, group |-> two]
<1>1. q.job \in Jobs /\ g \in Seq(Reporters) /\ n \in Nat /\ n > 1
  BY DEF Queries
<1>2. middle \in 1..(n - 1)
  <2> HIDE DEF n
  <2> QED BY <1>1
<1>3. Halves(q) = <<first, second>>
  <2>1. q = [job |-> q.job, group |-> g]
    BY DEF Queries
  <2> DEFINE o == one
             t == two
  <2>2. Halves(q) = <<[q EXCEPT !.group = o], [q EXCEPT !.group = t]>>
    BY DEF Halves
  <2> HIDE DEF o, t
  <2>3. /\ [q EXCEPT !.group = o] = [job |-> q.job, group |-> o]
        /\ [q EXCEPT !.group = t] = [job |-> q.job, group |-> t]
    BY <2>1
  <2> QED BY <2>2, <2>3 DEF o, t
<1>4. /\ one \in Seq(Reporters)
      /\ Len(one) = middle
      /\ \A i \in 1..middle : one[i] = g[i] /\ i \in 1..n
  <2> HIDE DEF g, middle
  <2>1. middle <= Len(g) /\ middle \in Nat
    BY <1>1, <1>2
  <2> QED BY <1>1, <1>2, <2>1
<1>5. /\ two \in Seq(Reporters)
      /\ Len(two) = n - middle
      /\ \A i \in 1..(n - middle) : two[i] = g[middle + i] /\ middle + i \in 1..n
  <2> HIDE DEF g, middle
  <2>1. middle + 1 \in 1..Len(g)
    BY <1>1, <1>2
  <2> QED BY <1>1, <1>2, <2>1
<1>6. \A i \in 1..n : \/ i \in 1..middle
                      \/ i - middle \in 1..(n - middle) /\ two[i - middle] = g[i]
  <2> HIDE DEF g, middle, two
  <2>1. TAKE i \in 1..n
  <2>2. CASE i <= middle
    BY <1>1, <1>2, <2>2
  <2>3. CASE i > middle
    <3>1. i - middle \in 1..(n - middle) /\ middle + (i - middle) = i
      BY <1>1, <1>2, <2>3
    <3> QED BY <1>5, <3>1
  <2> QED BY <1>1, <1>2, <2>2, <2>3
<1> HIDE DEF middle, n, g, one, two
<1>7. Distinct(one) /\ Distinct(two) /\ one # <<>> /\ two # <<>>
  <2>1. Distinct(g)
    BY DEF g
  <2>2. Distinct(one)
    BY <1>1, <1>2, <1>4, <2>1 DEF Distinct, n
  <2>3. Distinct(two)
    <3>1. SUFFICES ASSUME NEW i \in 1..(n - middle), NEW k \in 1..(n - middle),
                          two[i] = two[k]
                   PROVE  i = k
      BY <1>5 DEF Distinct
    <3>2. middle + i = middle + k
      BY <1>5, <2>1, <3>1 DEF Distinct, n
    <3> QED BY <1>1, <1>2, <3>2
  <2>4. Len(one) # 0 /\ Len(two) # 0
    BY <1>1, <1>2, <1>4, <1>5
  <2> QED BY <2>2, <2>3, <2>4
<1>8. Elements(one) \cap Elements(two) = {}
  <2>1. SUFFICES ASSUME NEW i \in 1..middle, NEW k \in 1..(n - middle), one[i] = two[k]
                 PROVE  FALSE
    <3>1. Elements(one) = {one[i] : i \in 1..middle}
      BY <1>4 DEF Elements
    <3>2. Elements(two) = {two[k] : k \in 1..(n - middle)}
      BY <1>5 DEF Elements
    <3> QED BY <3>1, <3>2
  <2>2. Distinct(g)
    BY DEF g
  <2>3. g[i] = g[middle + k] /\ i \in 1..Len(g) /\ middle + k \in 1..Len(g)
    BY <1>4, <1>5, <2>1 DEF n
  <2>4. i = middle + k
    BY <2>2, <2>3 DEF Distinct
  <2> QED BY <1>1, <1>2, <2>4
<1>9. Elements(g) = Elements(one) \cup Elements(two)
  <2>1. ASSUME NEW i \in 1..n PROVE g[i] \in Elements(one) \cup Elements(two)
    <3>1. CASE i \in 1..middle
      <4>1. one[i] \in Elements(one)
        BY <1>4, <3>1 DEF Elements
      <4> QED BY <1>4, <3>1, <4>1
    <3>2. CASE i - middle \in 1..(n - middle) /\ two[i - middle] = g[i]
      <4>1. two[i - middle] \in Elements(two)
        BY <1>5, <3>2 DEF Elements
      <4> QED BY <3>2, <4>1
    <3> QED BY <1>6, <3>1, <3>2
  <2>2. Elements(one) \subseteq Elements(g) /\ Elements(two) \subseteq Elements(g)
    <3>1. \A i \in 1..middle : one[i] \in Elements(g)
      BY <1>4 DEF Elements, n
    <3>2. \A i \in 1..(n - middle) : two[i] \in Elements(g)
      BY <1>5 DEF Elements, n
    <3> QED BY <1>4, <1>5, <3>1, <3>2 DEF Elements
  <2> QED BY <2>1, <2>2 DEF Elements, n
<1>10. first \in Queries /\ second \in Queries
  BY <1>1, <1>4, <1>5 DEF Queries
<1>11. /\ Pairs(first) = {q.job} \X Elements(one)
       /\ Pairs(second) = {q.job} \X Elements(two)
       /\ Pairs(q) = {q.job} \X Elements(g)
  BY <1>10, PairsFacts DEF g
<1>12. /\ Pairs(first) \cap Pairs(second) = {}
       /\ Pairs(q) = Pairs(first) \cup Pairs(second)
  BY <1>8, <1>9, <1>11
<1>13. /\ first.group = one /\ second.group = two
       /\ Halves(q) \in Seq(Queries) /\ Len(Halves(q)) = 2
       /\ Halves(q)[1] = first /\ Halves(q)[2] = second
  BY <1>3, <1>10
<1> HIDE DEF first, second
<1> QED BY <1>7, <1>12, <1>13

\* A group that is halved stays well planned, for the same pairs.
LEMMA SplitFacts ==
  ASSUME NEW done, NEW qs, WellPlanned(qs, done), qs # <<>>, Len(Head(qs).group) > 1
  PROVE  /\ WellPlanned(Halves(Head(qs)) \o Tail(qs), done)
         /\ Asked(Halves(Head(qs)) \o Tail(qs)) = Asked(qs)
<1> DEFINE h == Halves(Head(qs))
           rest == Tail(qs)
           new == h \o rest
<1>1. qs \in Seq(Queries) /\ Len(qs) \in Nat \ {0} /\ 1 \in 1..Len(qs) /\ Head(qs) = qs[1]
  BY DEF WellPlanned
<1>2. /\ Head(qs) \in Queries
      /\ Pairs(Head(qs)) \subseteq Wanted \ done
      /\ WellPlanned(rest, done)
      /\ Asked(qs) = Pairs(Head(qs)) \cup Asked(rest)
  <2> DEFINE X == {}
  <2>1. done \cup X = done /\ X \in SUBSET Pairs(Head(qs))
    OBVIOUS
  <2> HIDE DEF X
  <2>2. /\ Head(qs) \in Queries
        /\ Pairs(Head(qs)) \subseteq Wanted \ done
        /\ WellPlanned(Tail(qs), done \cup X)
        /\ Asked(qs) = Pairs(Head(qs)) \cup Asked(Tail(qs))
    BY <2>1, TailFacts
  <2> QED BY <2>1, <2>2
<1>3. Distinct(Head(qs).group)
  BY <1>1 DEF WellPlanned
<1>4. /\ h \in Seq(Queries)
      /\ Len(h) = 2
      /\ \A i \in 1..2 : h[i].group # <<>> /\ Distinct(h[i].group)
      /\ Pairs(h[1]) \cap Pairs(h[2]) = {}
      /\ Pairs(Head(qs)) = Pairs(h[1]) \cup Pairs(h[2])
  BY <1>2, <1>3, HalvesFacts
<1>5. \A k \in 1..Len(rest) : Pairs(Head(qs)) \cap Pairs(rest[k]) = {}
  <2>1. TAKE k \in 1..Len(rest)
  <2>2. rest[k] = qs[k + 1] /\ k + 1 \in 1..Len(qs) /\ k + 1 # 1
    BY <1>1
  <2> HIDE DEF rest
  <2> QED BY <1>1, <2>2 DEF WellPlanned
<1> HIDE DEF h, rest
<1>6. rest \in Seq(Queries) /\ Len(rest) \in Nat
  BY <1>2 DEF WellPlanned
<1>7. /\ new \in Seq(Queries)
      /\ Len(new) = Len(rest) + 2
      /\ new[1] = h[1] /\ new[2] = h[2]
      /\ \A k \in 1..Len(rest) : new[k + 2] = rest[k] /\ k + 2 \in 1..Len(new)
  <2>1. h \in Seq(Queries) /\ rest \in Seq(Queries)
    BY <1>4, <1>6
  <2>2. /\ new \in Seq(Queries)
        /\ Len(new) = Len(h) + Len(rest)
        /\ \A i \in 1..(Len(h) + Len(rest)) :
             new[i] = IF i <= Len(h) THEN h[i] ELSE rest[i - Len(h)]
    BY ONLY <2>1, ConcatProperties
  <2>3. new[1] = h[1] /\ new[2] = h[2]
    <3>1. 1 \in 1..(Len(h) + Len(rest)) /\ 2 \in 1..(Len(h) + Len(rest))
      BY <1>4, <1>6
    <3> HIDE DEF new
    <3> QED BY <1>4, <2>2, <3>1
  <2>4. ASSUME NEW k \in 1..Len(rest)
        PROVE  new[k + 2] = rest[k] /\ k + 2 \in 1..Len(new)
    <3>1. /\ k + 2 \in 1..(Len(h) + Len(rest)) /\ k + 2 \in 1..Len(new)
          /\ ~ (k + 2 <= Len(h)) /\ (k + 2) - Len(h) = k
      <4> HIDE DEF new
      <4> QED BY <1>4, <1>6, <2>2
    <3> HIDE DEF new
    <3> QED BY <2>2, <3>1
  <2> HIDE DEF new
  <2> QED BY <1>4, <1>6, <2>2, <2>3, <2>4
<1>8. \A i \in 1..Len(new) :
        \/ i = 1 \/ i = 2
        \/ i - 2 \in 1..Len(rest) /\ new[i] = rest[i - 2]
  <2>1. TAKE i \in 1..Len(new)
  <2>2. i = 1 \/ i = 2 \/ (i - 2 \in 1..Len(rest) /\ (i - 2) + 2 = i)
    BY <1>6, <1>7
  <2> HIDE DEF new
  <2> QED BY <1>7, <2>2
<1> HIDE DEF new
<1>9. Asked(new) = Asked(qs)
  <2>1. Asked(new) = Pairs(h[1]) \cup Pairs(h[2]) \cup Asked(rest)
    <3>1. 1 \in 1..Len(new) /\ 2 \in 1..Len(new)
      BY <1>6, <1>7
    <3>2. Asked(new) \subseteq Pairs(h[1]) \cup Pairs(h[2]) \cup Asked(rest)
      BY <1>7, <1>8 DEF Asked
    <3>3. Pairs(h[1]) \cup Pairs(h[2]) \cup Asked(rest) \subseteq Asked(new)
      BY <1>7, <3>1 DEF Asked
    <3> QED BY <3>2, <3>3
  <2> QED BY <1>2, <1>4, <2>1
<1>10. \A i \in 1..Len(new) :
         new[i].group # <<>> /\ Distinct(new[i].group) /\ Pairs(new[i]) \subseteq Wanted \ done
  <2>1. TAKE i \in 1..Len(new)
  <2>2. CASE i \in 1..2
    BY <1>2, <1>4, <1>7, <2>2
  <2>3. CASE i - 2 \in 1..Len(rest) /\ new[i] = rest[i - 2]
    BY <1>2, <2>3 DEF WellPlanned
  <2> QED BY <1>8, <2>2, <2>3
<1>11. \A i, k \in 1..Len(new) : i # k => Pairs(new[i]) \cap Pairs(new[k]) = {}
  <2>1. SUFFICES ASSUME NEW i \in 1..Len(new), NEW k \in 1..Len(new), i # k
                 PROVE  Pairs(new[i]) \cap Pairs(new[k]) = {}
    OBVIOUS
  <2>2. CASE i \in 1..2 /\ k \in 1..2
    BY <1>4, <1>7, <2>1, <2>2
  <2>3. ASSUME NEW a \in 1..2, NEW b \in 1..Len(rest)
        PROVE  Pairs(new[a]) \cap Pairs(rest[b]) = {}
    BY <1>4, <1>5, <1>7
  <2>4. CASE i - 2 \in 1..Len(rest) /\ k - 2 \in 1..Len(rest)
             /\ new[i] = rest[i - 2] /\ new[k] = rest[k - 2]
    <3>1. i - 2 # k - 2
      BY <1>6, <1>7, <2>1
    <3> QED BY <1>2, <2>4, <3>1 DEF WellPlanned
  <2>5. CASE i \in 1..2 /\ k - 2 \in 1..Len(rest) /\ new[k] = rest[k - 2]
    BY <2>3, <2>5
  <2>6. CASE k \in 1..2 /\ i - 2 \in 1..Len(rest) /\ new[i] = rest[i - 2]
    BY <2>3, <2>6
  <2>7. /\ i \in 1..2 \/ (i - 2 \in 1..Len(rest) /\ new[i] = rest[i - 2])
        /\ k \in 1..2 \/ (k - 2 \in 1..Len(rest) /\ new[k] = rest[k - 2])
    BY <1>8
  <2> QED BY <2>2, <2>4, <2>5, <2>6, <2>7
<1>12. WellPlanned(new, done)
  BY <1>7, <1>10, <1>11 DEF WellPlanned, new
<1> QED BY <1>9, <1>12 DEF new, h, rest

-----------------------------------------------------------------------------
(* The inductive invariant *)

\* A task that does not execute has nothing planned or counted.
Resting == task # "running" => queue = <<>> /\ attempts = 0 /\ requests = 0

\* Executions before this one have spent no more than their budgets, this one what it
\* has counted.
Budgeted ==
  /\ task = "running" => tries >= 1 /\ sent <= (tries - 1) * MaxRequests + requests
  /\ task # "running" => sent <= tries * MaxRequests

\* Only a fault makes Airflow repeat the task.
RepeatsCaused ==
  /\ tries <= faults + 1
  /\ task = "up_for_retry" => tries <= faults /\ tries <= Retries

FetchInv ==
  /\ TypeOK
  /\ WellPlanned(queue, completed)
  /\ Resting
  /\ Budgeted
  /\ RepeatsCaused

\* The pairs that an execution can find done or still has to ask for: a local root
\* keeps no trace of those without rows.
Owed == {p \in Wanted : ExtractOnly => rows[p[1]][p[2]] > 0}

\* Halving and resuming lose nothing that is owed.
NothingOwedSkipped ==
  /\ task = "running" => Owed \subseteq completed \cup Queued
  /\ task = "success" => Owed \subseteq completed

LEMMA OneMore == \A n, m \in Nat : (n + 1) * m = n * m + m /\ n * m \in Nat
OBVIOUS

LEMMA MoreFaults == \A n, a, b \in Nat : n <= a + 1 /\ b >= a => n <= b + 1
OBVIOUS

LEMMA PlannedIsTyped ==
  ASSUME NEW qs, NEW done, WellPlanned(qs, done)
  PROVE  \A i \in 1..Len(qs) :
           qs[i].job \in Jobs /\ qs[i].group \in Seq(Reporters) \ {<<>>}
<1>1. TAKE i \in 1..Len(qs)
<1>2. qs[i] \in Queries /\ qs[i].group # <<>>
  BY DEF WellPlanned
<1> QED BY <1>2 DEF Queries

LEMMA InitFetchInv == Init => FetchInv /\ NothingOwedSkipped
<1> SUFFICES ASSUME Init PROVE FetchInv /\ NothingOwedSkipped
  OBVIOUS
<1>1. WellPlanned(queue, completed)
  BY NothingPlanned DEF Init
<1>2. TypeOK
  BY FetchAssumption DEF Init, TypeOK
<1>3. Resting /\ RepeatsCaused /\ NothingOwedSkipped
  BY DEF Init, Resting, RepeatsCaused, NothingOwedSkipped
<1>4. Budgeted
  <2>1. 0 * MaxRequests = 0
    BY FetchAssumption
  <2> QED BY <2>1 DEF Init, Budgeted
<1> QED BY <1>1, <1>2, <1>3, <1>4 DEF FetchInv

\* Whatever an attempt comes to, it is within the budget of its execution.
LEMMA SendFacts ==
  ASSUME FetchInv, Send
  PROVE  /\ task = "running" /\ queue # <<>>
         /\ sent' = sent + 1 /\ sent' \in Nat /\ requests + 1 \in 0..MaxRequests
         /\ sent' <= (tries - 1) * MaxRequests + (requests + 1)
         /\ sent' <= tries * MaxRequests
<1>1. /\ task = "running" /\ queue # <<>> /\ requests < MaxRequests
      /\ sent' = sent + 1 /\ sent \in Nat /\ requests \in Nat /\ tries \in Nat
      /\ MaxRequests \in Nat
  BY FetchAssumption DEF Send, Asking, FetchInv, TypeOK
<1>2. tries >= 1 /\ sent <= (tries - 1) * MaxRequests + requests
  BY <1>1 DEF FetchInv, Budgeted
<1>3. /\ (tries - 1) * MaxRequests \in Nat
      /\ tries * MaxRequests = (tries - 1) * MaxRequests + MaxRequests
  <2>1. tries - 1 \in Nat /\ (tries - 1) + 1 = tries
    BY <1>1, <1>2
  <2> QED BY <1>1, <2>1, OneMore
<1> DEFINE before == (tries - 1) * MaxRequests
           upto == tries * MaxRequests
<1>4. before \in Nat /\ upto = before + MaxRequests /\ sent <= before + requests
  BY <1>2, <1>3
<1> HIDE DEF before, upto
<1>5. /\ sent' \in Nat /\ requests + 1 \in 0..MaxRequests
      /\ sent' <= before + (requests + 1) /\ sent' <= upto
  BY <1>1, <1>4
<1> QED BY <1>1, <1>5 DEF before, upto

\* An execution that ends leaves the invariant.
LEMMA ExitStep ==
  ASSUME FetchInv, task = "running", NEW code \in {0, 1, 2, 75}, Exit(code),
         UNCHANGED <<rows, completed, tries>>,
         sent' \in Nat, sent' <= tries * MaxRequests,
         faults' \in faults..MaxFaults, code = 75 => faults' = faults + 1
  PROVE  FetchInv'
<1>1. /\ task' \in {"up_for_retry", "failed", "success"}
      /\ task' = "up_for_retry" => code = 75 /\ tries <= Retries
      /\ queue' = <<>> /\ attempts' = 0 /\ requests' = 0
  BY DEF Exit, EndTask
<1>2. WellPlanned(queue', completed')
  BY <1>1, NothingPlanned
<1>3. /\ rows \in Volumes /\ completed \subseteq Wanted /\ tries \in 0..(Retries + 1)
      /\ faults \in 0..MaxFaults /\ tries <= faults + 1
  BY DEF FetchInv, TypeOK, RepeatsCaused
<1>4. TypeOK'
  BY <1>1, <1>3, FetchAssumption DEF TypeOK
<1>5. Resting' /\ Budgeted'
  BY <1>1 DEF Resting, Budgeted
<1>6. RepeatsCaused'
  <2>1. /\ faults' \in Nat /\ faults \in Nat /\ faults' >= faults
        /\ tries' = tries /\ tries \in Nat /\ Retries \in Nat
    <3>1. /\ MaxFaults \in Nat /\ faults \in 0..MaxFaults
          /\ Retries \in Nat /\ tries \in Nat
      BY <1>3, FetchAssumption
    <3>2. tries' = tries
      OBVIOUS
    <3> QED BY <3>1, <3>2
  <2>2. tries' <= faults' + 1
    <3>1. tries <= faults + 1
      BY <1>3
    <3>2. tries <= faults' + 1
      BY ONLY <2>1, <3>1, MoreFaults
    <3> QED BY <2>1, <3>2
  <2>3. ASSUME task' = "up_for_retry" PROVE tries' <= faults' /\ tries' <= Retries
    BY <1>1, <1>3, <2>1, <2>3
  <2> QED BY <2>2, <2>3 DEF RepeatsCaused
<1> QED BY <1>2, <1>4, <1>5, <1>6 DEF FetchInv

\* An attempt after which the execution goes on leaves the invariant.
LEMMA GoOnStep ==
  ASSUME FetchInv, Send, Spent, UNCHANGED <<rows, task, tries>>,
         completed' \subseteq Wanted, WellPlanned(queue', completed'),
         attempts' \in 0..(MaxAttempts - 1), faults' \in faults..MaxFaults
  PROVE  FetchInv'
<1>1. /\ task = "running"
      /\ requests' = requests + 1
      /\ sent' \in Nat /\ requests + 1 \in 0..MaxRequests
      /\ sent' <= (tries - 1) * MaxRequests + (requests + 1)
  BY SendFacts DEF Spent
<1>2. /\ rows \in Volumes /\ tries \in 0..(Retries + 1) /\ tries >= 1
      /\ faults \in 0..MaxFaults /\ tries <= faults + 1
  BY <1>1 DEF FetchInv, TypeOK, RepeatsCaused, Budgeted
<1>3. \A i \in 1..Len(queue') :
        queue'[i].job \in Jobs /\ queue'[i].group \in Seq(Reporters) \ {<<>>}
  BY PlannedIsTyped
<1>4. TypeOK'
  BY <1>1, <1>2, <1>3, FetchAssumption DEF TypeOK
<1>5. Resting' /\ Budgeted'
  BY <1>1, <1>2 DEF Resting, Budgeted
<1>6. RepeatsCaused'
  <2>1. /\ faults' \in Nat /\ faults \in Nat /\ faults' >= faults
        /\ tries' = tries /\ tries \in Nat
        /\ task' = "running"
    <3>1. /\ MaxFaults \in Nat /\ faults \in 0..MaxFaults
          /\ Retries \in Nat /\ tries \in Nat
      BY <1>2, FetchAssumption
    <3>2. tries' = tries /\ task' = "running"
      BY <1>1
    <3> QED BY <3>1, <3>2
  <2>2. tries <= faults + 1
    BY <1>2
  <2>3. tries' <= faults' + 1
    BY ONLY <2>1, <2>2, MoreFaults
  <2> QED BY <2>1, <2>3 DEF RepeatsCaused
<1> QED BY <1>4, <1>5, <1>6 DEF FetchInv

LEMMA StartStep ==
  ASSUME FetchInv, Start
  PROVE  FetchInv'
<1>1. /\ task' = "running" /\ task # "running"
      /\ queue' = Plan
      /\ UNCHANGED <<rows, completed, attempts, requests, faults>>
      /\ requests = 0 /\ attempts = 0
  BY DEF Start, FetchInv, Resting
<1>2. WellPlanned(queue', completed')
  BY <1>1, PlanFacts
<1>3. /\ rows \in Volumes /\ completed \subseteq Wanted /\ tries \in 0..(Retries + 1)
      /\ faults \in 0..MaxFaults /\ tries <= faults + 1 /\ sent \in Nat
      /\ requests \in 0..MaxRequests /\ attempts \in 0..(MaxAttempts - 1)
      /\ Retries \in Nat /\ MaxRequests \in Nat
  BY FetchAssumption DEF FetchInv, TypeOK, RepeatsCaused
<1>4. \/ /\ task = "up_for_retry" /\ tries' = tries + 1 /\ sent' = sent
         /\ tries <= faults /\ tries <= Retries /\ sent <= tries * MaxRequests
      \/ tries' = 1 /\ sent' = 0
  BY DEF Start, FetchInv, RepeatsCaused, Budgeted
<1>5. \A i \in 1..Len(queue') :
        queue'[i].job \in Jobs /\ queue'[i].group \in Seq(Reporters) \ {<<>>}
  BY <1>2, PlannedIsTyped
<1>6. tries' \in 1..(Retries + 1) /\ tries' <= faults + 1 /\ sent' \in Nat
  BY <1>3, <1>4
<1>7. TypeOK'
  BY <1>1, <1>3, <1>5, <1>6, FetchAssumption DEF TypeOK
<1>8. sent' <= (tries' - 1) * MaxRequests + requests'
  <2>1. CASE tries' = tries + 1 /\ sent' = sent /\ sent <= tries * MaxRequests
    <3>1. tries' - 1 = tries
      BY <1>3, <2>1
    <3>2. tries * MaxRequests \in Nat
      BY <1>3, OneMore
    <3> QED BY <1>1, <2>1, <3>1, <3>2
  <2>2. CASE tries' = 1 /\ sent' = 0
    <3>1. tries' - 1 = 0 /\ 0 * MaxRequests = 0
      BY <1>3, <2>2
    <3> QED BY <1>1, <2>2, <3>1
  <2> QED BY <1>4, <2>1, <2>2
<1>9. Resting' /\ Budgeted' /\ RepeatsCaused'
  BY <1>1, <1>6, <1>8 DEF Resting, Budgeted, RepeatsCaused
<1> QED BY <1>2, <1>7, <1>9 DEF FetchInv

LEMMA AcceptStep ==
  ASSUME FetchInv, Accept
  PROVE  FetchInv'
<1> DEFINE X == Remembered(Head(queue))
<1>1. queue # <<>> /\ WellPlanned(queue, completed) /\ completed \subseteq Wanted
  BY DEF Accept, Send, Asking, FetchInv, TypeOK
<1>2. X \in SUBSET Pairs(Head(queue))
  BY DEF Remembered
<1>3. completed' = completed \cup X /\ queue' = Tail(queue)
  BY DEF Accept
<1> HIDE DEF X
<1>4. WellPlanned(queue', completed') /\ Pairs(Head(queue)) \subseteq Wanted
  BY <1>1, <1>2, <1>3, TailFacts
<1>5. /\ completed' \subseteq Wanted
      /\ Send /\ Spent /\ UNCHANGED <<rows, task, tries>>
      /\ attempts' \in 0..(MaxAttempts - 1)
      /\ faults' \in faults..MaxFaults
  BY <1>1, <1>2, <1>3, <1>4, FetchAssumption DEF Accept, FetchInv, TypeOK
<1> QED BY <1>4, <1>5, GoOnStep

LEMMA SplitStep ==
  ASSUME FetchInv, Split
  PROVE  FetchInv'
<1>1. /\ queue # <<>> /\ WellPlanned(queue, completed)
      /\ Len(Head(queue).group) > 1
      /\ queue' = Halves(Head(queue)) \o Tail(queue)
      /\ completed' = completed
  BY DEF Split, Send, Asking, FetchInv
<1>2. WellPlanned(queue', completed')
  BY <1>1, SplitFacts
<1>3. /\ completed' \subseteq Wanted
      /\ Send /\ Spent /\ UNCHANGED <<rows, task, tries>>
      /\ attempts' \in 0..(MaxAttempts - 1)
      /\ faults' \in faults..MaxFaults
  BY FetchAssumption DEF Split, FetchInv, TypeOK
<1> QED BY <1>2, <1>3, GoOnStep

LEMMA RetryStep ==
  ASSUME FetchInv, Retry
  PROVE  FetchInv'
<1>1. completed' = completed /\ queue' = queue /\ completed \subseteq Wanted
  BY DEF Retry, FetchInv, TypeOK
<1>2. WellPlanned(queue', completed')
  BY <1>1 DEF FetchInv
<1>3. /\ Send /\ Spent /\ UNCHANGED <<rows, task, tries>>
      /\ attempts' \in 0..(MaxAttempts - 1)
      /\ faults' \in faults..MaxFaults
  BY FetchAssumption DEF Retry, Fault, FetchInv, TypeOK
<1> QED BY <1>1, <1>2, <1>3, GoOnStep

\* Every way an execution ends.
Ending == TooLarge \/ GiveUp \/ Refuse \/ Exhaust \/ Finish \/ Crash

LEMMA EndingFacts ==
  ASSUME FetchInv, Ending
  PROVE  /\ task = "running"
         /\ UNCHANGED <<rows, completed, tries>>
         /\ sent' \in Nat /\ sent' <= tries * MaxRequests
         /\ faults' \in faults..MaxFaults
         /\ \E code \in {0, 1, 2, 75} :
              /\ Exit(code)
              /\ code = 75 => faults' = faults + 1
              /\ code = 0 => queue = <<>>
<1>1. /\ task = "running"
      /\ UNCHANGED <<rows, completed, tries>>
  BY DEF Ending, TooLarge, GiveUp, Refuse, Exhaust, Finish, Crash, Send, Asking
<1>2. /\ tries \in Nat /\ tries >= 1 /\ requests \in 0..MaxRequests /\ sent \in Nat
      /\ sent <= (tries - 1) * MaxRequests + requests
      /\ faults \in 0..MaxFaults /\ MaxRequests \in Nat /\ MaxFaults \in Nat
  BY <1>1, FetchAssumption DEF FetchInv, TypeOK, Budgeted
<1>3. sent <= tries * MaxRequests
  <2> DEFINE before == (tries - 1) * MaxRequests
             upto == tries * MaxRequests
  <2>1. tries - 1 \in Nat /\ (tries - 1) + 1 = tries
    BY <1>2
  <2>2. before \in Nat /\ upto = before + MaxRequests /\ sent <= before + requests
    BY <1>2, <2>1, OneMore
  <2> HIDE DEF before, upto
  <2>3. sent <= upto
    BY <1>2, <2>2
  <2> QED BY <2>3 DEF upto
<1>4. sent' \in Nat /\ sent' <= tries * MaxRequests
  <2>1. CASE Send
    BY <2>1, SendFacts
  <2>2. CASE sent' = sent
    BY <1>2, <1>3, <2>2
  <2> QED BY <2>1, <2>2 DEF Ending, TooLarge, GiveUp, Refuse, Exhaust, Finish, Crash
<1>5. faults' \in faults..MaxFaults
  BY <1>2 DEF Ending, TooLarge, GiveUp, Refuse, Exhaust, Finish, Crash, Fault
<1>6. \E code \in {0, 1, 2, 75} : /\ Exit(code)
                                  /\ code = 75 => faults' = faults + 1
                                  /\ code = 0 => queue = <<>>
  BY DEF Ending, TooLarge, GiveUp, Refuse, Exhaust, Finish, Crash, Fault, ErrorCode
<1> QED BY <1>1, <1>4, <1>5, <1>6

LEMMA EndingStep ==
  ASSUME FetchInv, Ending
  PROVE  FetchInv'
<1>1. PICK code \in {0, 1, 2, 75} : Exit(code) /\ (code = 75 => faults' = faults + 1)
  BY EndingFacts
<1>2. /\ task = "running"
      /\ UNCHANGED <<rows, completed, tries>>
      /\ sent' \in Nat /\ sent' <= tries * MaxRequests
      /\ faults' \in faults..MaxFaults
  BY EndingFacts
<1> QED BY <1>1, <1>2, ExitStep

LEMMA NextCases ==
  Next <=> Start \/ Accept \/ Split \/ Retry \/ Ending
BY DEF Next, Work, Ending

LEMMA FetchInvStep == FetchInv /\ [Next]_vars => FetchInv'
<1> SUFFICES ASSUME FetchInv, [Next]_vars PROVE FetchInv'
  OBVIOUS
<1>1. CASE Start
  BY <1>1, StartStep
<1>2. CASE Accept
  BY <1>2, AcceptStep
<1>3. CASE Split
  BY <1>3, SplitStep
<1>4. CASE Retry
  BY <1>4, RetryStep
<1>5. CASE Ending
  BY <1>5, EndingStep
<1>6. CASE UNCHANGED vars
  <2>1. queue' = queue /\ completed' = completed
    BY <1>6 DEF vars
  <2>2. WellPlanned(queue', completed')
    BY <2>1 DEF FetchInv
  <2>3. TypeOK' /\ Resting' /\ Budgeted' /\ RepeatsCaused'
    BY <1>6 DEF vars, FetchInv, TypeOK, Resting, Budgeted, RepeatsCaused
  <2> QED BY <2>2, <2>3 DEF FetchInv
<1> QED BY <1>1, <1>2, <1>3, <1>4, <1>5, <1>6, NextCases

\* The inductive invariant of a task: what is planned is typed, wanted, not completed
\* and asked for once, what is sent is counted, and repetitions are caused by faults.
THEOREM FetchInvariant == Spec => []FetchInv
<1>1. Init => FetchInv
  BY InitFetchInv
<1> QED BY <1>1, FetchInvStep, PTL DEF Spec

\* Every query, counter and record of a task keeps the shape the code gives it.
THEOREM TypesHold == Spec => []TypeOK
<1>1. FetchInv => TypeOK
  BY DEF FetchInv
<1> QED BY <1>1, FetchInvariant, PTL

\* For any budget, number of retries and way of halving, a task sends no more than its
\* budget for each execution, and Airflow repeats it only because of a fault.
THEOREM BudgetHolds == Spec => []RequestsBounded
<1>1. FetchInv => RequestsBounded
  <2> SUFFICES ASSUME FetchInv PROVE RequestsBounded
    OBVIOUS
  <2>1. tries <= faults + 1
    BY DEF FetchInv, RepeatsCaused
  <2>2. CASE task # "running"
    BY <2>1, <2>2 DEF FetchInv, Budgeted, RequestsBounded
  <2>3. CASE task = "running"
    <3> DEFINE before == (tries - 1) * MaxRequests
               upto == tries * MaxRequests
    <3>1. /\ tries \in Nat /\ tries >= 1 /\ requests \in 0..MaxRequests /\ sent \in Nat
          /\ sent <= before + requests /\ MaxRequests \in Nat
      BY <2>3, FetchAssumption DEF FetchInv, TypeOK, Budgeted
    <3>2. tries - 1 \in Nat /\ (tries - 1) + 1 = tries
      BY <3>1
    <3>3. before \in Nat /\ upto = before + MaxRequests
      BY <3>1, <3>2, OneMore
    <3> HIDE DEF before, upto
    <3>4. sent <= upto
      BY <3>1, <3>3
    <3> QED BY <2>1, <3>4 DEF upto, RequestsBounded
  <2> QED BY <2>2, <2>3
<1> QED BY <1>1, FetchInvariant, PTL

\* No attempt, in whichever execution, asks the API for a pair that is completed.
THEOREM NothingAskedTwice == Spec => AskedOnce
<1>1. FetchInv /\ [Next]_vars
        => [sent' > sent => Pairs(Head(queue)) \cap completed = {}]_vars
  <2> SUFFICES ASSUME FetchInv, Next, sent' > sent
               PROVE  Pairs(Head(queue)) \cap completed = {}
    OBVIOUS
  <2>1. sent \in Nat
    BY DEF FetchInv, TypeOK
  <2>2. queue # <<>>
    <3>1. CASE Start
      BY <2>1, <3>1 DEF Start
    <3>2. CASE Send
      BY <3>2 DEF Send, Asking
    <3>3. CASE sent' = sent
      BY <2>1, <3>3
    <3> QED BY <3>1, <3>2, <3>3 DEF Next, Work, Accept, Split, TooLarge, Exhaust, Finish,
                                    Retry, GiveUp, Refuse, Crash
  <2>3. WellPlanned(queue, completed)
    BY DEF FetchInv
  <2>4. queue \in Seq(Queries) /\ 1 \in 1..Len(queue) /\ Head(queue) = queue[1]
    BY <2>2, <2>3 DEF WellPlanned
  <2>5. Pairs(Head(queue)) \subseteq Wanted \ completed
    BY <2>3, <2>4 DEF WellPlanned
  <2> QED BY <2>5
<1> QED BY <1>1, FetchInvariant, PTL DEF Spec, AskedOnce

-----------------------------------------------------------------------------
(* Nothing is skipped *)

LEMMA QueuedIsAsked ==
  /\ Queued = Asked(queue)
  /\ Queued' = Asked(queue')
BY DEF Queued, Asked

LEMMA OwedStep ==
  ASSUME FetchInv, NothingOwedSkipped, [Next]_vars
  PROVE  NothingOwedSkipped'
<1>1. rows' = rows
  BY DEF Next, vars, Start, Work, Accept, Split, TooLarge, Exhaust, Finish, Retry, GiveUp,
         Refuse, Crash
<1>2. Owed' = Owed /\ Owed \subseteq Wanted
  BY <1>1 DEF Owed
<1>3. WellPlanned(queue, completed)
  BY DEF FetchInv
<1>4. CASE Start
  <2>1. task' = "running" /\ queue' = Plan /\ completed' = completed
    BY <1>4 DEF Start
  <2>2. Wanted \subseteq completed' \cup Asked(queue')
    BY <2>1, PlanFacts
  <2> QED BY <1>2, <2>1, <2>2, QueuedIsAsked DEF NothingOwedSkipped
<1>5. CASE Accept
  <2>1. /\ task = "running" /\ task' = "running" /\ queue # <<>>
        /\ queue' = Tail(queue)
        /\ completed' = completed \cup Remembered(Head(queue))
    BY <1>5 DEF Accept, Send, Asking
  <2>2. Remembered(Head(queue)) \in SUBSET Pairs(Head(queue))
    BY DEF Remembered
  <2>3. Asked(queue) = Pairs(Head(queue)) \cup Asked(queue')
    BY <1>3, <2>1, <2>2, TailFacts
  <2>4. Pairs(Head(queue)) \cap Owed \subseteq Remembered(Head(queue))
    BY DEF Owed, Remembered
  <2>5. Owed \subseteq completed \cup Asked(queue)
    BY <2>1, QueuedIsAsked DEF NothingOwedSkipped
  <2>6. Owed \subseteq completed' \cup Asked(queue')
    BY <2>1, <2>3, <2>4, <2>5
  <2> QED BY <1>2, <2>1, <2>6, QueuedIsAsked DEF NothingOwedSkipped
<1>6. CASE Split
  <2>1. /\ task = "running" /\ task' = "running" /\ queue # <<>>
        /\ Len(Head(queue).group) > 1
        /\ queue' = Halves(Head(queue)) \o Tail(queue)
        /\ completed' = completed
    BY <1>6 DEF Split, Send, Asking
  <2>2. Asked(queue') = Asked(queue)
    BY <1>3, <2>1, SplitFacts
  <2> QED BY <1>2, <2>1, <2>2, QueuedIsAsked DEF NothingOwedSkipped
<1>7. CASE Retry \/ UNCHANGED vars
  <2>1. task' = task /\ queue' = queue /\ completed' = completed
    BY <1>7 DEF Retry, vars
  <2> QED BY <1>2, <2>1, QueuedIsAsked DEF NothingOwedSkipped
<1>8. CASE Ending
  <2>1. PICK code \in {0, 1, 2, 75} : Exit(code) /\ (code = 0 => queue = <<>>)
    BY <1>8, EndingFacts
  <2>2. task = "running" /\ completed' = completed
    BY <1>8, EndingFacts
  <2>3. task' # "running" /\ (task' = "success" => queue = <<>>)
    BY <2>1 DEF Exit, EndTask
  <2>4. queue = <<>> => Asked(queue) = {}
    BY NothingPlanned
  <2>5. task' = "success" => Owed \subseteq completed
    BY <2>2, <2>3, <2>4, QueuedIsAsked DEF NothingOwedSkipped
  <2> QED BY <1>2, <2>2, <2>3, <2>5 DEF NothingOwedSkipped
<1> QED BY <1>4, <1>5, <1>6, <1>7, <1>8, NextCases

\* Of whichever command the task is, halving and resuming lose nothing that is owed:
\* what has rows, or is asked for by a task that records its progress.
THEOREM OwedIsAsked == Spec => []NothingOwedSkipped
<1>1. Init => NothingOwedSkipped
  BY InitFetchInv
<1>2. FetchInv /\ NothingOwedSkipped /\ [Next]_vars => NothingOwedSkipped'
  BY OwedStep
<1> QED BY <1>1, <1>2, FetchInvariant, PTL DEF Spec

\* A task that records its progress skips nothing: what is wanted is done or still to
\* be asked while it executes, and done when it succeeds.
THEOREM NothingIsSkipped ==
  ASSUME ~ ExtractOnly
  PROVE  Spec => []NothingSkipped
<1>1. NothingOwedSkipped => NothingSkipped
  <2>1. Owed = Wanted
    BY DEF Owed
  <2> QED BY <2>1 DEF NothingOwedSkipped, NothingSkipped
<1> QED BY <1>1, OwedIsAsked, PTL
=============================================================================
