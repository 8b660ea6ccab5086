------------------------------ MODULE SumLemmas ------------------------------
(***************************************************************************)
(* What MapThenSumSet adds up, for any finite set: the lemmas about sums   *)
(* that proofs about the website's arithmetic rest on.                     *)
(***************************************************************************)
EXTENDS Integers, FiniteSets, FiniteSetsExt, FiniteSetTheorems, WellFoundedInduction, TLAPS

\* The sum of the values that f has in S.
SumOver(f, S) == MapThenSumSet(LAMBDA k : f[k], S)

First(S) == CHOOSE x \in S : TRUE

-----------------------------------------------------------------------------
(* The recursion of MapThenFoldSet *)

\* Of any finite set of finite sets that has a member, one has no member below it: what
\* an induction over finite sets comes down to.
LEMMA SmallestSet ==
  ASSUME NEW S, IsFiniteSet(S), NEW B \in SUBSET SUBSET S, B # {}
  PROVE  \E X \in B : \A Y \in B : Y \subseteq X => Y = X
<1>1. B \subseteq FiniteSubsetsOf(S)
  BY FS_Subset DEF FiniteSubsetsOf
<1>2. PICK X \in B : \A Y \in B : ~ (<<Y, X>> \in StrictSubsetOrdering(S))
  <2>1. IsWellFoundedOn(StrictSubsetOrdering(S), FiniteSubsetsOf(S))
    BY FS_StrictSubsetOrderingWellFounded
  <2> QED BY <1>1, <2>1, WFMin
<1>3. \A Y \in B : Y \subseteq X => Y = X
  BY <1>2 DEF StrictSubsetOrdering
<1> QED BY <1>3

AddsUp(it, f, S) ==
  it = [s \in SUBSET S |-> IF s = {} THEN 0 ELSE f[First(s)] + it[s \ {First(s)}]]

LEMMA AddsUpStep ==
  ASSUME NEW f, NEW S, NEW it, AddsUp(it, f, S)
  PROVE  /\ it[{}] = 0
         /\ \A s \in SUBSET S : s # {} => it[s] = f[First(s)] + it[s \ {First(s)}]
<1> DEFINE at(s) == IF s = {} THEN 0 ELSE f[First(s)] + it[s \ {First(s)}]
<1>1. it = [s \in SUBSET S |-> at(s)]
  BY DEF AddsUp
<1>2. \A s \in SUBSET S : it[s] = at(s)
  <2> DEFINE g == [s \in SUBSET S |-> at(s)]
  <2>1. it = g
    BY <1>1
  <2>2. \A s \in SUBSET S : g[s] = at(s)
    OBVIOUS
  <2> HIDE DEF g, at
  <2> QED BY <2>1, <2>2
<1> QED BY <1>2

\* Sums of the same values agree, whatever else is added up next to them.
LEMMA AddsUpUnique ==
  ASSUME NEW f, NEW T, NEW S \in SUBSET T, IsFiniteSet(T), NEW a, NEW b,
         AddsUp(a, f, S), AddsUp(b, f, T)
  PROVE  \A s \in SUBSET S : a[s] = b[s]
<1> DEFINE B == {s \in SUBSET S : a[s] # b[s]}
<1>1. SUFFICES ASSUME B # {} PROVE FALSE
  OBVIOUS
<1>2. IsFiniteSet(S)
  BY FS_Subset
<1>3. PICK X \in B : \A Y \in B : Y \subseteq X => Y = X
  <2>1. B \in SUBSET SUBSET S
    OBVIOUS
  <2> HIDE DEF B
  <2> QED BY <1>1, <1>2, <2>1, SmallestSet
<1>4. X \in SUBSET S /\ X \in SUBSET T /\ a[X] # b[X]
  BY <1>3
<1>5. X # {}
  BY <1>4, AddsUpStep
<1>6. First(X) \in X
  BY <1>5 DEF First
<1> DEFINE Y == X \ {First(X)}
<1>7. Y \notin B /\ Y \in SUBSET S
  BY <1>3, <1>4, <1>6
<1>8. a[Y] = b[Y]
  BY <1>7
<1>9. a[X] = f[First(X)] + a[Y]
  BY <1>4, <1>5, AddsUpStep
<1>10. b[X] = f[First(X)] + b[Y]
  BY <1>4, <1>5, AddsUpStep
<1> QED BY <1>4, <1>8, <1>9, <1>10

LEMMA SumIsIteration ==
  ASSUME NEW f, NEW S, \E it : AddsUp(it, f, S)
  PROVE  \E it : AddsUp(it, f, S) /\ SumOver(f, S) = it[S]
<1> DEFINE it == CHOOSE it : AddsUp(it, f, S)
<1>1. AddsUp(it, f, S)
  OBVIOUS
<1>2. SumOver(f, S) = it[S]
  BY DEF SumOver, MapThenSumSet, MapThenFoldSet, AddsUp, First
<1> QED BY <1>1, <1>2

LEMMA SumStep ==
  ASSUME NEW f, NEW S, IsFiniteSet(S), S # {}, \E it : AddsUp(it, f, S),
         \E it : AddsUp(it, f, S \ {First(S)})
  PROVE  SumOver(f, S) = f[First(S)] + SumOver(f, S \ {First(S)})
<1> DEFINE T == S \ {First(S)}
<1>1. PICK a : AddsUp(a, f, S) /\ SumOver(f, S) = a[S]
  BY SumIsIteration
<1>2. PICK b : AddsUp(b, f, T) /\ SumOver(f, T) = b[T]
  BY SumIsIteration
<1>3. b[T] = a[T]
  <2>1. T \in SUBSET S /\ T \in SUBSET T
    OBVIOUS
  <2> HIDE DEF T
  <2> QED BY <1>1, <1>2, <2>1, AddsUpUnique
<1>4. a[S] = f[First(S)] + a[T]
  <2>1. \A s \in SUBSET S : s # {} => a[s] = f[First(s)] + a[s \ {First(s)}]
    BY <1>1, AddsUpStep
  <2> QED BY <2>1
<1> QED BY <1>1, <1>2, <1>3, <1>4

LEMMA NothingAddsUp ==
  ASSUME NEW f
  PROVE  (\E it : AddsUp(it, f, {})) /\ SumOver(f, {}) = 0
<1> DEFINE it == [s \in SUBSET {} |-> 0]
<1>1. it = [s \in SUBSET {} |-> IF s = {} THEN 0 ELSE f[First(s)] + it[s \ {First(s)}]]
  OBVIOUS
<1>2. AddsUp(it, f, {})
  BY <1>1 DEF AddsUp
<1>3. PICK a : AddsUp(a, f, {}) /\ SumOver(f, {}) = a[{}]
  BY <1>2, SumIsIteration
<1> QED BY <1>2, <1>3, AddsUpStep

LEMMA AddsUpExists ==
  ASSUME NEW f, NEW S, IsFiniteSet(S)
  PROVE  \E it : AddsUp(it, f, S)
<1> DEFINE B == {s \in SUBSET S : ~ \E it : AddsUp(it, f, s)}
<1>1. SUFFICES ASSUME B # {} PROVE FALSE
  OBVIOUS
<1>2. PICK X \in B : \A Y \in B : Y \subseteq X => Y = X
  <2>1. B \in SUBSET SUBSET S
    OBVIOUS
  <2> HIDE DEF B
  <2> QED BY <1>1, <2>1, SmallestSet
<1>3. X \in SUBSET S /\ ~ \E it : AddsUp(it, f, X)
  BY <1>2
<1>4. X # {}
  BY <1>3, NothingAddsUp
<1>5. \A Y \in SUBSET X : Y # X => IsFiniteSet(Y) /\ \E it : AddsUp(it, f, Y)
  BY <1>2, <1>3, FS_Subset
<1>6. \A Y \in SUBSET X : Y # X /\ Y # {} =>
        SumOver(f, Y) = f[First(Y)] + SumOver(f, Y \ {First(Y)})
  <2>1. SUFFICES ASSUME NEW Y \in SUBSET X, Y # X, Y # {}
                 PROVE  SumOver(f, Y) = f[First(Y)] + SumOver(f, Y \ {First(Y)})
    OBVIOUS
  <2>2. First(Y) \in Y
    BY <2>1 DEF First
  <2>3. Y \ {First(Y)} \in SUBSET X /\ Y \ {First(Y)} # X
    BY <2>1, <2>2
  <2>4. (\E it : AddsUp(it, f, Y)) /\ \E it : AddsUp(it, f, Y \ {First(Y)})
    BY <1>5, <2>1, <2>3
  <2>5. IsFiniteSet(Y)
    BY <1>5, <2>1
  <2> QED BY <2>1, <2>4, <2>5, SumStep
<1> DEFINE v == [s \in SUBSET X |-> IF s = {} THEN 0
                                    ELSE f[First(s)] + SumOver(f, s \ {First(s)})]
           w == [s \in SUBSET X |-> IF s = {} THEN 0
                                    ELSE f[First(s)] + v[s \ {First(s)}]]
<1>7. \A Y \in SUBSET X : Y # X => v[Y] = SumOver(f, Y)
  BY <1>6, NothingAddsUp
<1>8. \A s \in SUBSET X : v[s] = w[s]
  <2>1. TAKE s \in SUBSET X
  <2>2. CASE s = {}
    BY <2>2
  <2>3. CASE s # {}
    <3>1. First(s) \in s
      BY <2>3 DEF First
    <3>2. s \ {First(s)} \in SUBSET X /\ s \ {First(s)} # X
      BY <3>1
    <3>3. v[s \ {First(s)}] = SumOver(f, s \ {First(s)})
      BY <1>7, <3>2
    <3>4. /\ v[s] = f[First(s)] + SumOver(f, s \ {First(s)})
          /\ w[s] = f[First(s)] + v[s \ {First(s)}]
      BY <2>3
    <3> QED BY <3>3, <3>4
  <2> QED BY <2>2, <2>3
<1>9. v = w
  BY <1>8
<1>10. AddsUp(v, f, X)
  BY <1>9 DEF AddsUp
<1> QED BY <1>3, <1>10

\* A sum is its first value and the sum of the others.
LEMMA SumFirst ==
  ASSUME NEW f, NEW S, IsFiniteSet(S), S # {}
  PROVE  /\ First(S) \in S
         /\ IsFiniteSet(S \ {First(S)})
         /\ SumOver(f, S) = f[First(S)] + SumOver(f, S \ {First(S)})
<1>1. IsFiniteSet(S \ {First(S)})
  BY FS_RemoveElement
<1> QED BY <1>1, AddsUpExists, SumStep DEF First

-----------------------------------------------------------------------------
(* Sums of integers *)

LEMMA SumIsNat ==
  ASSUME NEW f, NEW S, IsFiniteSet(S), \A x \in S : f[x] \in Nat
  PROVE  SumOver(f, S) \in Nat
<1> DEFINE B == {s \in SUBSET S : SumOver(f, s) \notin Nat}
<1>1. SUFFICES ASSUME B # {} PROVE FALSE
  OBVIOUS
<1>2. PICK X \in B : \A Y \in B : Y \subseteq X => Y = X
  <2>1. B \in SUBSET SUBSET S
    OBVIOUS
  <2> HIDE DEF B
  <2> QED BY <1>1, <2>1, SmallestSet
<1>3. X \in SUBSET S /\ SumOver(f, X) \notin Nat /\ IsFiniteSet(X)
  BY <1>2, FS_Subset
<1>4. X # {}
  BY <1>3, NothingAddsUp
<1>5. /\ First(X) \in X
      /\ SumOver(f, X) = f[First(X)] + SumOver(f, X \ {First(X)})
  BY <1>3, <1>4, SumFirst
<1>6. SumOver(f, X \ {First(X)}) \in Nat
  BY <1>2, <1>3, <1>5
<1>7. f[First(X)] \in Nat
  BY <1>3, <1>5
<1> QED BY <1>3, <1>5, <1>6, <1>7

LEMMA SumSame ==
  ASSUME NEW f, NEW g, NEW S, IsFiniteSet(S), \A x \in S : f[x] = g[x]
  PROVE  SumOver(f, S) = SumOver(g, S)
<1> DEFINE B == {s \in SUBSET S : SumOver(f, s) # SumOver(g, s)}
<1>1. SUFFICES ASSUME B # {} PROVE FALSE
  OBVIOUS
<1>2. PICK X \in B : \A Y \in B : Y \subseteq X => Y = X
  <2>1. B \in SUBSET SUBSET S
    OBVIOUS
  <2> HIDE DEF B
  <2> QED BY <1>1, <2>1, SmallestSet
<1>3. X \in SUBSET S /\ SumOver(f, X) # SumOver(g, X) /\ IsFiniteSet(X)
  BY <1>2, FS_Subset
<1>4. X # {}
  BY <1>3, NothingAddsUp
<1>5. /\ First(X) \in X
      /\ SumOver(f, X) = f[First(X)] + SumOver(f, X \ {First(X)})
      /\ SumOver(g, X) = g[First(X)] + SumOver(g, X \ {First(X)})
  BY <1>3, <1>4, SumFirst
<1>6. SumOver(f, X \ {First(X)}) = SumOver(g, X \ {First(X)})
  BY <1>2, <1>3, <1>5
<1>7. f[First(X)] = g[First(X)]
  BY <1>3, <1>5
<1> QED BY <1>3, <1>5, <1>6, <1>7

\* Any value can be taken first.
LEMMA SumRemove ==
  ASSUME NEW f, NEW S, IsFiniteSet(S), \A x \in S : f[x] \in Nat, NEW e \in S
  PROVE  SumOver(f, S) = f[e] + SumOver(f, S \ {e})
<1> DEFINE B == {s \in SUBSET S : \E x \in s : SumOver(f, s) # f[x] + SumOver(f, s \ {x})}
<1>1. SUFFICES ASSUME B # {} PROVE FALSE
  OBVIOUS
<1>2. PICK X \in B : \A Y \in B : Y \subseteq X => Y = X
  <2>1. B \in SUBSET SUBSET S
    OBVIOUS
  <2> HIDE DEF B
  <2> QED BY <1>1, <2>1, SmallestSet
<1>3. X \in SUBSET S /\ IsFiniteSet(X)
  BY <1>2, FS_Subset
<1>4. PICK x \in X : SumOver(f, X) # f[x] + SumOver(f, X \ {x})
  BY <1>2
<1> DEFINE c == First(X)
           rest == X \ {x, c}
<1>5. c \in X /\ SumOver(f, X) = f[c] + SumOver(f, X \ {c})
  BY <1>3, <1>4, SumFirst
<1> HIDE DEF c
<1>6. c # x
  BY <1>4, <1>5
<1>7. ASSUME NEW Y \in SUBSET X, Y # X, NEW y \in Y
      PROVE  SumOver(f, Y) = f[y] + SumOver(f, Y \ {y})
  BY <1>2, <1>3, <1>7
<1>8. SumOver(f, X \ {c}) = f[x] + SumOver(f, rest)
  <2>1. X \ {c} \in SUBSET X /\ X \ {c} # X /\ x \in X \ {c} /\ (X \ {c}) \ {x} = rest
    BY <1>4, <1>5, <1>6
  <2> HIDE DEF B, rest
  <2> QED BY <1>7, <2>1
<1>9. SumOver(f, X \ {x}) = f[c] + SumOver(f, rest)
  <2>1. X \ {x} \in SUBSET X /\ X \ {x} # X /\ c \in X \ {x} /\ (X \ {x}) \ {c} = rest
    BY <1>4, <1>5, <1>6
  <2> HIDE DEF B, rest
  <2> QED BY <1>7, <2>1
<1>10. f[c] \in Nat /\ f[x] \in Nat /\ SumOver(f, rest) \in Nat
  <2>1. IsFiniteSet(rest) /\ rest \in SUBSET S
    BY <1>3, FS_Subset
  <2> QED BY <1>3, <1>4, <1>5, <2>1, SumIsNat
<1> QED BY <1>4, <1>5, <1>8, <1>9, <1>10

\* Two parts.
LEMMA SumUnion ==
  ASSUME NEW f, NEW S, NEW T, IsFiniteSet(S), IsFiniteSet(T), S \cap T = {},
         \A x \in S \cup T : f[x] \in Nat
  PROVE  SumOver(f, S \cup T) = SumOver(f, S) + SumOver(f, T)
<1> DEFINE B == {s \in SUBSET S : SumOver(f, s \cup T) # SumOver(f, s) + SumOver(f, T)}
<1>1. SUFFICES ASSUME B # {} PROVE FALSE
  OBVIOUS
<1>2. PICK X \in B : \A Y \in B : Y \subseteq X => Y = X
  <2>1. B \in SUBSET SUBSET S
    OBVIOUS
  <2> HIDE DEF B
  <2> QED BY <1>1, <2>1, SmallestSet
<1>3. /\ X \in SUBSET S /\ IsFiniteSet(X) /\ IsFiniteSet(X \cup T)
      /\ SumOver(f, X \cup T) # SumOver(f, X) + SumOver(f, T)
  <2>1. X \in SUBSET S
    BY <1>2
  <2>2. IsFiniteSet(X)
    BY <2>1, FS_Subset
  <2>3. IsFiniteSet(X \cup T)
    BY <2>2, FS_Union
  <2> QED BY <1>2, <2>1, <2>2, <2>3
<1>4. SumOver(f, T) \in Nat
  BY SumIsNat
<1>5. CASE X = {}
  <2>1. X \cup T = T /\ SumOver(f, X) = 0
    BY <1>5, NothingAddsUp
  <2>2. SumOver(f, X \cup T) = SumOver(f, T)
    BY <2>1
  <2> QED BY <1>3, <1>4, <2>1, <2>2
<1>6. CASE X # {}
  <2>1. PICK x \in X : TRUE
    BY <1>6
  <2> DEFINE Y == X \ {x}
  <2>2. Y \in SUBSET S /\ Y \subseteq X /\ Y # X /\ IsFiniteSet(Y)
    BY <1>3, <2>1, FS_Subset
  <2>3. SumOver(f, Y \cup T) = SumOver(f, Y) + SumOver(f, T)
    BY <1>2, <2>2
  <2>4. SumOver(f, X) = f[x] + SumOver(f, Y)
    BY <1>3, <2>1, SumRemove
  <2>5. SumOver(f, X \cup T) = f[x] + SumOver(f, Y \cup T)
    <3>1. x \in X \cup T /\ (X \cup T) \ {x} = Y \cup T
      BY <1>3, <2>1
    <3>2. \A y \in X \cup T : f[y] \in Nat
      BY <1>3
    <3> HIDE DEF Y
    <3>3. SumOver(f, X \cup T) = f[x] + SumOver(f, (X \cup T) \ {x})
      BY <1>3, <3>1, <3>2, SumRemove
    <3> QED BY <3>1, <3>3
  <2>6. f[x] \in Nat /\ SumOver(f, Y) \in Nat
    BY <1>3, <2>1, <2>2, SumIsNat
  <2> QED BY <1>3, <1>4, <2>3, <2>4, <2>5, <2>6
<1> QED BY <1>5, <1>6

LEMMA SumOne ==
  ASSUME NEW f, NEW x, f[x] \in Nat
  PROVE  SumOver(f, {x}) = f[x]
<1>1. IsFiniteSet({x})
  BY FS_Singleton
<1>2. SumOver(f, {x}) = f[x] + SumOver(f, {x} \ {x})
  BY <1>1, SumRemove
<1>3. {x} \ {x} = {}
  OBVIOUS
<1> QED BY <1>2, <1>3, NothingAddsUp

\* The values can have other names.
LEMMA SumRenamed ==
  ASSUME NEW f, NEW g, NEW b, NEW S, IsFiniteSet(S),
         \A x, y \in S : b[x] = b[y] => x = y,
         \A x \in S : f[x] \in Nat /\ g[b[x]] = f[x]
  PROVE  /\ IsFiniteSet({b[x] : x \in S})
         /\ SumOver(g, {b[x] : x \in S}) = SumOver(f, S)
<1> DEFINE Image(s) == {b[x] : x \in s}
           B == {s \in SUBSET S :
                   ~ (IsFiniteSet(Image(s)) /\ SumOver(g, Image(s)) = SumOver(f, s))}
<1>1. SUFFICES ASSUME B # {} PROVE FALSE
  OBVIOUS
<1>2. PICK X \in B : \A Y \in B : Y \subseteq X => Y = X
  <2>1. B \in SUBSET SUBSET S
    OBVIOUS
  <2> HIDE DEF B
  <2> QED BY <1>1, <2>1, SmallestSet
<1>3. /\ X \in SUBSET S /\ IsFiniteSet(X)
      /\ ~ (IsFiniteSet(Image(X)) /\ SumOver(g, Image(X)) = SumOver(f, X))
  BY <1>2, FS_Subset
<1>4. CASE X = {}
  <2>1. Image(X) = {}
    BY <1>4
  <2> QED BY <1>3, <1>4, <2>1, NothingAddsUp, FS_EmptySet
<1>5. CASE X # {}
  <2>1. PICK x \in X : TRUE
    BY <1>5
  <2> DEFINE Y == X \ {x}
  <2>2. Y \in SUBSET S /\ Y \subseteq X /\ Y # X
    BY <1>3, <2>1
  <2>3. IsFiniteSet(Image(Y)) /\ SumOver(g, Image(Y)) = SumOver(f, Y)
    BY <1>2, <2>2
  <2>4. Image(X) = Image(Y) \cup {b[x]} /\ b[x] \notin Image(Y)
    BY <1>3, <2>1
  <2>5. \A z \in Image(X) : g[z] \in Nat
    BY <1>3
  <2>6. SumOver(f, X) = f[x] + SumOver(f, Y)
    BY <1>3, <2>1, SumRemove
  <2> HIDE DEF Image, Y
  <2>7. IsFiniteSet(Image(X))
    BY <2>3, <2>4, FS_AddElement
  <2>8. SumOver(g, Image(X)) = g[b[x]] + SumOver(g, Image(Y))
    <3>1. b[x] \in Image(X) /\ Image(X) \ {b[x]} = Image(Y)
      BY <2>4
    <3>2. SumOver(g, Image(X)) = g[b[x]] + SumOver(g, Image(X) \ {b[x]})
      BY <2>5, <2>7, <3>1, SumRemove
    <3> QED BY <3>1, <3>2
  <2>9. g[b[x]] = f[x]
    BY <1>3, <2>1
  <2> QED BY <1>3, <2>3, <2>6, <2>7, <2>8, <2>9
<1> QED BY <1>4, <1>5

\* U falls into groups F[m], of which h has the sums.
Groups(f, M, F, h, U) ==
  /\ IsFiniteSet(M)
  /\ \A m \in M : F[m] \subseteq U /\ IsFiniteSet(F[m]) /\ h[m] = SumOver(f, F[m])
  /\ \A m, n \in M : m # n => F[m] \cap F[n] = {}
  /\ \A x \in U : f[x] \in Nat /\ \E m \in M : x \in F[m]

LEMMA SumByGroups ==
  ASSUME NEW f, NEW M, NEW F, NEW h, NEW U, Groups(f, M, F, h, U)
  PROVE  IsFiniteSet(U) /\ SumOver(f, U) = SumOver(h, M)
<1>0. /\ IsFiniteSet(M)
      /\ \A m \in M : F[m] \subseteq U /\ IsFiniteSet(F[m]) /\ h[m] = SumOver(f, F[m])
      /\ \A m, n \in M : m # n => F[m] \cap F[n] = {}
      /\ \A x \in U : \E m \in M : x \in F[m]
      /\ \A m \in M : \A x \in F[m] : f[x] \in Nat
  BY DEF Groups
<1> DEFINE All(s) == UNION {F[m] : m \in s}
           B == {s \in SUBSET M :
                   ~ (IsFiniteSet(All(s)) /\ SumOver(f, All(s)) = SumOver(h, s))}
<1>1. SUFFICES ASSUME B # {} PROVE FALSE
  <2>1. U = All(M)
    BY <1>0
  <2>2. M \in SUBSET M
    OBVIOUS
  <2> HIDE DEF All
  <2> QED BY <2>1, <2>2
<1>2. PICK X \in B : \A Y \in B : Y \subseteq X => Y = X
  <2>1. B \in SUBSET SUBSET M
    OBVIOUS
  <2> HIDE DEF B
  <2> QED BY <1>0, <1>1, <2>1, SmallestSet
<1>3. /\ X \in SUBSET M /\ IsFiniteSet(X)
      /\ ~ (IsFiniteSet(All(X)) /\ SumOver(f, All(X)) = SumOver(h, X))
  BY <1>0, <1>2, FS_Subset
<1>4. CASE X = {}
  <2>1. All(X) = {}
    BY <1>4
  <2> QED BY <1>3, <1>4, <2>1, NothingAddsUp, FS_EmptySet
<1>5. CASE X # {}
  <2>1. PICK x \in X : TRUE
    BY <1>5
  <2> DEFINE Y == X \ {x}
  <2>2. Y \in SUBSET M /\ Y \subseteq X /\ Y # X
    BY <1>3, <2>1
  <2>3. IsFiniteSet(All(Y)) /\ SumOver(f, All(Y)) = SumOver(h, Y)
    BY <1>2, <2>2
  <2>4. All(X) = All(Y) \cup F[x]
    BY <2>1
  <2>5. All(Y) \cap F[x] = {}
    BY <1>0, <1>3, <2>1
  <2>6. \A z \in All(X) : f[z] \in Nat
    BY <1>0, <1>3
  <2>7. \A m \in X : h[m] \in Nat
    BY <1>0, <1>3, SumIsNat
  <2>8. SumOver(h, X) = h[x] + SumOver(h, Y)
    BY <1>3, <2>1, <2>7, SumRemove
  <2>9. IsFiniteSet(F[x]) /\ h[x] = SumOver(f, F[x]) /\ h[x] \in Nat
    BY <1>0, <1>3, <2>1, <2>7
  <2>10. SumOver(h, Y) \in Nat
    <3>1. IsFiniteSet(Y) /\ \A m \in Y : h[m] \in Nat
      BY <1>3, <2>2, <2>7, FS_Subset
    <3> HIDE DEF Y
    <3> QED BY <3>1, SumIsNat
  <2> HIDE DEF All, Y
  <2>11. IsFiniteSet(All(X))
    <3>1. IsFiniteSet(All(Y) \cup F[x])
      BY <2>3, <2>9, FS_Union
    <3> QED BY <2>4, <3>1
  <2>12. SumOver(f, All(X)) = SumOver(f, All(Y)) + SumOver(f, F[x])
    BY <2>3, <2>4, <2>5, <2>6, <2>9, SumUnion
  <2> QED BY <1>3, <2>3, <2>8, <2>9, <2>10, <2>11, <2>12
<1> QED BY <1>4, <1>5

=============================================================================
