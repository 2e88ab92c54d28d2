------------------------- MODULE RecruitmentProofs -------------------------
(***************************************************************************)
(* What the analytical view promises, for any players, rows and requests:  *)
(* a player of several competitions counts once across them, whatever the  *)
(* order in which the database returns the rows; nothing is offered that   *)
(* the load cannot produce; a comparison across competitions says so       *)
(* wherever it is shown; players compared side by side come with a caveat  *)
(* where they cannot be read across; screened lists are ordered by         *)
(* evidence; and the replacements that have a score were scored from the   *)
(* same parts.                                                             *)
(***************************************************************************)
EXTENDS Recruitment, FiniteSetTheorems, SequenceTheorems, WellFoundedInduction, TLAPS

-----------------------------------------------------------------------------
(* Induction over a finite set, by a least counterexample *)

LEMMA Least ==
    ASSUME NEW S \in SUBSET Nat, S # {}
    PROVE  \E m \in S : \A k \in S : m <= k
<1>1. PICK m \in S : \A k \in S : ~(<<k, m>> \in OpToRel(<, Nat))
  <2>1. \E m \in S : \A k \in S : ~(<<k, m>> \in OpToRel(<, Nat))
    BY ONLY S \in SUBSET Nat, S # {}, NatLessThanWellFounded, WFMin
  <2> QED
    BY <2>1
<1>2. \A k, n \in Nat : k < n => <<k, n>> \in OpToRel(<, Nat)
  BY DEF OpToRel
<1>3. ASSUME NEW k \in S
      PROVE  m <= k
  <2>1. k \in Nat /\ m \in Nat /\ ~(k < m)
    BY <1>1, <1>2
  <2> QED
    BY <2>1
<1> QED
  BY <1>3

\* A family of subsets that has the empty set, and a set when it has all that
\* are smaller by an element, has every subset.
LEMMA Smallest ==
    ASSUME NEW S, IsFiniteSet(S), NEW F,
           {} \in F,
           \A s \in SUBSET S : s # {} /\ (\A x \in s : s \ {x} \in F) => s \in F
    PROVE  SUBSET S \subseteq F
<1> SUFFICES ASSUME NEW bad \in SUBSET S, bad \notin F PROVE FALSE
  OBVIOUS
<1> DEFINE N == {n \in Nat : \E s \in SUBSET S : s \notin F /\ Cardinality(s) = n}
<1>1. \A s \in SUBSET S : IsFiniteSet(s) /\ Cardinality(s) \in Nat
  BY FS_Subset, FS_CardinalityType
<1>2. N # {}
  BY <1>1
<1>3. PICK m \in N : \A k \in N : m <= k
  BY <1>2, Least
<1>4. PICK s \in SUBSET S : s \notin F /\ Cardinality(s) = m
  OBVIOUS
<1>5. ASSUME NEW x \in s PROVE s \ {x} \in F
  <2>1. Cardinality(s \ {x}) = m - 1 /\ s \ {x} \in SUBSET S
    BY <1>1, <1>4, FS_RemoveElement
  <2>2. m - 1 \in Nat /\ m - 1 \notin N
    BY <1>1, <1>3, <2>1
  <2> QED
    BY <2>1, <2>2
<1> QED
  BY <1>4, <1>5

-----------------------------------------------------------------------------
(* Sums *)

\* g[s] is what w makes of s, taken in the order of the fold: a sum, or a product.
Combined(op, a, b) == IF op = "product" THEN a * b ELSE a + b

Folding(g, w, S, op, base) ==
    g = [s \in SUBSET S |->
            IF s = {} THEN base
            ELSE Combined(op, w[CHOOSE x \in s : TRUE], g[s \ {CHOOSE x \in s : TRUE}])]

\* The same for the sets of at most n elements.
Upto(S, n) == {s \in SUBSET S : Cardinality(s) <= n}
FoldingUpto(g, w, S, op, base, n) ==
    g = [s \in Upto(S, n) |->
            IF s = {} THEN base
            ELSE Combined(op, w[CHOOSE x \in s : TRUE], g[s \ {CHOOSE x \in s : TRUE}])]

LEMMA FoldingExists ==
    ASSUME NEW w, NEW S, IsFiniteSet(S), NEW op, NEW base
    PROVE  \E g : Folding(g, w, S, op, base)
<1>1. \A s \in SUBSET S : /\ IsFiniteSet(s) /\ Cardinality(s) \in Nat
                          /\ s # {} => Cardinality(s) # 0
                          /\ \A x \in s : Cardinality(s \ {x}) = Cardinality(s) - 1
  BY FS_Subset, FS_CardinalityType, FS_RemoveElement, FS_EmptySet
<1>2. \A s \in SUBSET S : s # {} => (CHOOSE x \in s : TRUE) \in s
  OBVIOUS
<1>3. \A n \in Nat : \E g : FoldingUpto(g, w, S, op, base, n)
  <2> SUFFICES ASSUME NEW bad \in Nat, \A g : ~FoldingUpto(g, w, S, op, base, bad)
               PROVE  FALSE
    OBVIOUS
  <2> DEFINE N == {n \in Nat : \A g : ~FoldingUpto(g, w, S, op, base, n)}
  <2>1. PICK m \in N : \A k \in N : m <= k
    BY Least
  <2>2. m # 0
    <3> DEFINE g == [s \in Upto(S, 0) |-> base]
    <3>1. \A s \in Upto(S, 0) : s = {}
      BY <1>1 DEF Upto
    <3>2. FoldingUpto(g, w, S, op, base, 0)
      BY <3>1 DEF FoldingUpto
    <3> QED
      BY <3>2
  <2>3. m - 1 \in Nat /\ m - 1 \notin N
    BY <2>1, <2>2
  <2>4. PICK g : FoldingUpto(g, w, S, op, base, m - 1)
    BY <2>3
  <2> DEFINE next(s, f) == IF s = {} THEN base
                           ELSE Combined(op, w[CHOOSE x \in s : TRUE], f[s \ {CHOOSE x \in s : TRUE}])
             h == [s \in Upto(S, m) |-> next(s, g)]
  <2>5. \A s \in Upto(S, m - 1) : g[s] = next(s, g)
    BY <2>4 DEF FoldingUpto
  <2>6. \A s \in Upto(S, m) : s # {} => s \ {CHOOSE x \in s : TRUE} \in Upto(S, m - 1)
    <3> TAKE s \in Upto(S, m)
    <3> HAVE s # {}
    <3>1. s \in SUBSET S /\ (CHOOSE x \in s : TRUE) \in s
      BY <1>2 DEF Upto
    <3>2. PICK x \in s : x = (CHOOSE y \in s : TRUE)
      BY <3>1
    <3>3. Cardinality(s \ {x}) = Cardinality(s) - 1 /\ Cardinality(s) \in Nat /\ s \ {x} \in SUBSET S
      BY <1>1, <3>1
    <3>4. s \ {x} \in Upto(S, m - 1)
      BY <3>3, <2>3 DEF Upto
    <3> QED
      BY <3>2, <3>4
  <2>7. \A s \in Upto(S, m - 1) : s \in Upto(S, m) /\ h[s] = g[s]
    <3> TAKE s \in Upto(S, m - 1)
    <3>1. s \in Upto(S, m)
      BY <1>1, <2>3 DEF Upto
    <3> QED
      BY <2>5, <3>1
  <2>8. \A s \in Upto(S, m) : next(s, g) = next(s, h)
    <3> TAKE s \in Upto(S, m)
    <3>1. s = {} => next(s, g) = next(s, h)
      OBVIOUS
    <3>2. s # {} => g[s \ {CHOOSE x \in s : TRUE}] = h[s \ {CHOOSE x \in s : TRUE}]
      BY <2>6, <2>7
    <3> QED
      BY <3>1, <3>2
  <2>9. FoldingUpto(h, w, S, op, base, m)
    <3>1. h = [s \in Upto(S, m) |-> next(s, h)]
      BY <2>8
    <3> HIDE DEF h
    <3> QED
      BY <3>1 DEF FoldingUpto
  <2> QED
    BY <2>9
<1>4. Cardinality(S) \in Nat /\ Upto(S, Cardinality(S)) = SUBSET S
  BY FS_CardinalityType, FS_Subset DEF Upto
<1>5. PICK g : FoldingUpto(g, w, S, op, base, Cardinality(S))
  BY <1>3, <1>4
<1> QED
  BY <1>4, <1>5 DEF FoldingUpto, Folding

Summing(g, w, S) ==
    g = [s \in SUBSET S |->
            IF s = {} THEN 0
            ELSE w[CHOOSE x \in s : TRUE] + g[s \ {CHOOSE x \in s : TRUE}]]

LEMMA SummingExists ==
    ASSUME NEW w, NEW S, IsFiniteSet(S)
    PROVE  \E g : Summing(g, w, S)
<1>1. PICK g : Folding(g, w, S, "sum", 0)
  BY FoldingExists
<1>2. Summing(g, w, S)
  BY <1>1 DEF Folding, Combined, Summing
<1> QED
  BY <1>2

LEMMA SummingIs ==
    ASSUME NEW g, NEW w, NEW S, Summing(g, w, S)
    PROVE  /\ g[{}] = 0
           /\ \A s \in SUBSET S : s # {} =>
                \E x \in s : g[s] = w[x] + g[s \ {x}]
<1>1. \A s \in SUBSET S : g[s] = IF s = {} THEN 0
            ELSE w[CHOOSE x \in s : TRUE] + g[s \ {CHOOSE x \in s : TRUE}]
  BY DEF Summing
<1>2. \A s : s # {} => (CHOOSE x \in s : TRUE) \in s
  OBVIOUS
<1> QED
  BY <1>1, <1>2

LEMMA SumIsInt ==
    ASSUME NEW g, NEW w, NEW S, IsFiniteSet(S), Summing(g, w, S), \A x \in S : w[x] \in Int
    PROVE  \A s \in SUBSET S : g[s] \in Int
<1> DEFINE F == {s \in SUBSET S : g[s] \in Int}
<1>1. {} \in F
  BY SummingIs
<1>2. ASSUME NEW s \in SUBSET S, s # {}, \A x \in s : s \ {x} \in F
      PROVE  s \in F
  <2>1. PICK x \in s : g[s] = w[x] + g[s \ {x}]
    BY <1>2, SummingIs
  <2>2. w[x] \in Int /\ g[s \ {x}] \in Int
    BY <1>2, <2>1
  <2> QED
    BY <2>1, <2>2
<1> HIDE DEF F
<1>3. SUBSET S \subseteq F
  BY <1>1, <1>2, Smallest
<1> QED
  BY <1>3 DEF F

\* The order of the fold does not matter.
LEMMA SumOfAny ==
    ASSUME NEW g, NEW w, NEW S, IsFiniteSet(S), Summing(g, w, S), \A x \in S : w[x] \in Int
    PROVE  \A s \in SUBSET S : \A x \in s : g[s] = w[x] + g[s \ {x}]
<1> DEFINE F == {s \in SUBSET S : \A x \in s : g[s] = w[x] + g[s \ {x}]}
<1>1. {} \in F
  OBVIOUS
<1>2. ASSUME NEW s \in SUBSET S, s # {}, \A x \in s : s \ {x} \in F
      PROVE  s \in F
  <2> SUFFICES ASSUME NEW x \in s PROVE g[s] = w[x] + g[s \ {x}]
    OBVIOUS
  <2>1. PICK y \in s : g[s] = w[y] + g[s \ {y}]
    BY <1>2, SummingIs
  <2>2. CASE x = y
    BY <2>1, <2>2
  <2>3. CASE x # y
    <3>1. g[s \ {y}] = w[x] + g[(s \ {y}) \ {x}]
      BY <1>2, <2>3
    <3>2. g[s \ {x}] = w[y] + g[(s \ {x}) \ {y}]
      BY <1>2, <2>3
    <3>3. (s \ {y}) \ {x} = (s \ {x}) \ {y}
      OBVIOUS
    <3>4. w[x] \in Int /\ w[y] \in Int
      BY <1>2
    <3>5. g[(s \ {x}) \ {y}] \in Int
      <4>1. (s \ {x}) \ {y} \in SUBSET S
        BY <1>2
      <4> QED
        BY <4>1, SumIsInt
    <3>6. g[s] = w[y] + (w[x] + g[(s \ {x}) \ {y}])
      BY <2>1, <3>1, <3>3
    <3> HIDE DEF F
    <3>7. w[y] + (w[x] + g[(s \ {x}) \ {y}]) = w[x] + (w[y] + g[(s \ {x}) \ {y}])
      BY <3>4, <3>5
    <3> QED
      BY <3>2, <3>6, <3>7
  <2> QED
    BY <2>2, <2>3
<1> HIDE DEF F
<1>3. SUBSET S \subseteq F
  BY <1>1, <1>2, Smallest
<1> QED
  BY <1>3 DEF F

\* What is added is never negative: a sum is not less than that of a part of it,
\* and greater when what is left out counts.
LEMMA SumOfPart ==
    ASSUME NEW g, NEW w, NEW S, IsFiniteSet(S), Summing(g, w, S), \A x \in S : w[x] \in Nat
    PROVE  \A s, t \in SUBSET S : s \subseteq t =>
                /\ g[s] \in Nat /\ g[s] <= g[t]
                /\ \A x \in t \ s : w[x] > 0 => g[s] < g[t]
<1>0. \A x \in S : w[x] \in Int
  OBVIOUS
<1> DEFINE F == {t \in SUBSET S : /\ g[t] \in Nat
                                  /\ \A s \in SUBSET t :
                                       /\ g[s] <= g[t]
                                       /\ \A x \in t \ s : w[x] > 0 => g[s] < g[t]}
<1>1. {} \in F
  <2>1. g[{}] = 0
    BY SummingIs
  <2> QED
    BY <2>1
<1>2. ASSUME NEW t \in SUBSET S, t # {}, \A x \in t : t \ {x} \in F
      PROVE  t \in F
  <2>1. \A x \in t : g[t] = w[x] + g[t \ {x}] /\ g[t \ {x}] \in Nat /\ w[x] \in Nat
    <3> TAKE x \in t
    <3>1. g[t] = w[x] + g[t \ {x}]
      BY <1>0, <1>2, SumOfAny
    <3>2. g[t \ {x}] \in Nat
      BY <1>2
    <3> QED
      BY <1>2, <3>1, <3>2
  <2>2. g[t] \in Nat
    <3>1. PICK x \in t : TRUE
      BY <1>2
    <3>2. g[t] = w[x] + g[t \ {x}] /\ g[t \ {x}] \in Nat /\ w[x] \in Nat
      BY <2>1, <3>1
    <3> HIDE DEF F
    <3> QED
      BY <3>2
  <2>3. ASSUME NEW s \in SUBSET t
        PROVE  g[s] <= g[t] /\ \A x \in t \ s : w[x] > 0 => g[s] < g[t]
    <3>1. CASE s = t
      BY <2>2, <3>1
    <3>2. CASE s # t
      <4>1. ASSUME NEW x \in t \ s
            PROVE  g[s] <= g[t] /\ (w[x] > 0 => g[s] < g[t])
        <5>1. g[s] <= g[t \ {x}] /\ s \in SUBSET S
          BY <1>2
        <5>2. g[s] \in Int
          BY <1>0, <5>1, SumIsInt
        <5> QED
          BY <2>1, <5>1, <5>2
      <4>2. \E x \in t \ s : TRUE
        BY <3>2
      <4> QED
        BY <4>1, <4>2
    <3> QED
      BY <3>1, <3>2
  <2> QED
    BY <2>2, <2>3
<1> HIDE DEF F
<1>3. SUBSET S \subseteq F
  BY <1>1, <1>2, Smallest
<1> QED
  BY <1>3 DEF F

LEMMA WeightOfIs ==
    ASSUME NEW components, NEW names, IsFiniteSet(names)
    PROVE  \E g : Summing(g, [c \in names |-> components[c].weight], names)
                    /\ WeightOf(components, names) = g[names]
<1> DEFINE w == [c \in names |-> components[c].weight]
           P(g) == g = [s \in SUBSET names |->
            IF s = {} THEN 0
            ELSE components[CHOOSE x \in s : TRUE].weight + g[s \ {CHOOSE x \in s : TRUE}]]
<1>1. WeightOf(components, names) = (CHOOSE g : P(g))[names]
  BY DEF WeightOf, MapThenSumSet, MapThenFoldSet
<1>2. ASSUME NEW g PROVE Summing(g, w, names) <=> P(g)
  <2>1. \A s \in SUBSET names : s # {} => (CHOOSE x \in s : TRUE) \in names
    OBVIOUS
  <2>. QED BY <2>1 DEF Summing
<1>3. PICK g : Summing(g, w, names)
  BY SummingExists
<1>4. P(g)
  BY <1>2, <1>3
<1> HIDE DEF P, w
<1>5. P(CHOOSE f : P(f))
  BY <1>4
<1>6. Summing(CHOOSE f : P(f), w, names)
  BY <1>2, <1>5
<1> QED
  BY <1>1, <1>6 DEF w
\* The sum of a function, and the product of one.
LEMMA SumFunctionIs ==
    ASSUME NEW f, IsFiniteSet(DOMAIN f)
    PROVE  \E g : Summing(g, f, DOMAIN f) /\ SumFunction(f) = g[DOMAIN f]
<1> DEFINE P(g) == Summing(g, f, DOMAIN f)
<1>1. SumFunction(f) = (CHOOSE g : P(g))[DOMAIN f]
  BY DEF SumFunction, SumFunctionOnSet, FoldFunctionOnSet, MapThenFoldSet, Summing
<1>2. \E g : P(g)
  BY SummingExists
<1> HIDE DEF P
<1>3. P(CHOOSE g : P(g))
  BY <1>2
<1> QED
  BY <1>1, <1>3 DEF P

LEMMA SumFunctionIsInt ==
    ASSUME NEW f, IsFiniteSet(DOMAIN f), \A x \in DOMAIN f : f[x] \in Int
    PROVE  SumFunction(f) \in Int
BY SumFunctionIs, SumIsInt

LEMMA SumFunctionIsNat ==
    ASSUME NEW f, IsFiniteSet(DOMAIN f), \A x \in DOMAIN f : f[x] \in Nat
    PROVE  SumFunction(f) \in Nat
BY SumFunctionIs, SumOfPart

LEMMA ProductIsPositive ==
    ASSUME NEW n \in Nat
    PROVE  FoldFunction(LAMBDA a, b : a * b, 1, [i \in 1 .. n |-> i]) \in Nat \ {0}
<1> DEFINE f == [i \in 1 .. n |-> i]
           P(g) == Folding(g, f, 1 .. n, "product", 1)
<1>1. FoldFunction(LAMBDA a, b : a * b, 1, f) = (CHOOSE g : P(g))[1 .. n]
  BY DEF FoldFunction, FoldFunctionOnSet, MapThenFoldSet, Folding, Combined
<1>2. IsFiniteSet(1 .. n)
  BY FS_Interval
<1>3. \E g : P(g)
  BY <1>2, FoldingExists
<1> HIDE DEF P, f
<1>4. PICK g : g = (CHOOSE h : P(h)) /\ P(g)
  BY <1>3
<1> DEFINE F == {s \in SUBSET (1 .. n) : g[s] \in Nat \ {0}}
<1>5. \A s \in SUBSET (1 .. n) :
        g[s] = IF s = {} THEN 1 ELSE f[CHOOSE x \in s : TRUE] * g[s \ {CHOOSE x \in s : TRUE}]
  <2>1. Folding(g, f, 1 .. n, "product", 1)
    BY <1>4 DEF P
  <2> QED
    BY <2>1 DEF Folding, Combined
<1>6. {} \in F
  <2>1. g[{}] = 1
    BY <1>5
  <2> QED
    BY <2>1
<1>7. ASSUME NEW s \in SUBSET (1 .. n), s # {}, \A x \in s : s \ {x} \in F
      PROVE  s \in F
  <2>1. PICK x \in s : x = CHOOSE y \in s : TRUE
    BY <1>7
  <2>2. g[s] = f[x] * g[s \ {x}] /\ f[x] = x /\ x \in Nat \ {0}
    <3>1. g[s] = f[x] * g[s \ {x}]
      BY <1>5, <1>7, <2>1
    <3>2. f[x] = x /\ x \in Nat \ {0}
      BY <1>7 DEF f
    <3> QED
      BY <3>1, <3>2
  <2>3. g[s \ {x}] \in Nat \ {0}
    BY <1>7, <2>1
  <2>4. PICK y \in Nat \ {0} : y = g[s \ {x}]
    BY <2>3
  <2>5. x * y \in Nat \ {0}
    BY <2>2, <2>4
  <2> QED
    BY <2>2, <2>4, <2>5
<1> HIDE DEF F
<1>8. SUBSET (1 .. n) \subseteq F
  <2>1. PICK S : S = 1 .. n
    OBVIOUS
  <2>2. IsFiniteSet(S) /\ \A s \in SUBSET S : s # {} /\ (\A x \in s : s \ {x} \in F) => s \in F
    BY <1>2, <1>7, <2>1
  <2>3. SUBSET S \subseteq F
    BY <1>6, <2>2, Smallest
  <2> QED
    BY <2>1, <2>3
<1>9. 1 .. n \in F
  BY <1>8
<1>10. g[1 .. n] \in Nat \ {0}
  BY <1>9 DEF F
<1> HIDE DEF F
<1>11. FoldFunction(LAMBDA a, b : a * b, 1, f) \in Nat \ {0}
  BY <1>1, <1>4, <1>10
<1> QED
  BY <1>11 DEF f

-----------------------------------------------------------------------------
(* Ranks *)

LEMMA ImageIsFinite ==
    ASSUME NEW S, IsFiniteSet(S), NEW f
    PROVE  /\ IsFiniteSet({f[x] : x \in S})
           /\ Cardinality({f[x] : x \in S}) \in Nat
           /\ Cardinality({f[x] : x \in S}) <= Cardinality(S)
<1> DEFINE T == {f[x] : x \in S}
           g == [x \in S |-> f[x]]
<1>1. g \in Surjection(S, T)
  BY DEF Surjection
<1> HIDE DEF T, g
<1>2. IsFiniteSet(T) /\ Cardinality(T) <= Cardinality(S)
  BY <1>1, FS_Surjection
<1>3. Cardinality(T) \in Nat
  BY <1>2, FS_CardinalityType
<1> QED
  BY <1>2, <1>3 DEF T

LEMMA PopulationIsFinite ==
    ASSUME NEW engine, IsFiniteSet(engine), NEW s
    PROVE  /\ IsFiniteSet({r.season.comp : r \in Peers(engine, s)})
           /\ Cardinality({r.season.comp : r \in Peers(engine, s)}) \in Nat
           /\ \A comps, m :
                /\ IsFiniteSet(Measured(Population(engine, s, comps), m))
                /\ Cardinality(Measured(Population(engine, s, comps), m)) \in Nat
<1>1. IsFiniteSet(Peers(engine, s))
  BY FS_Subset DEF Peers
<1>2. /\ IsFiniteSet({r.season.comp : r \in Peers(engine, s)})
      /\ Cardinality({r.season.comp : r \in Peers(engine, s)}) \in Nat
  <2> DEFINE f == [r \in Peers(engine, s) |-> r.season.comp]
  <2>1. {f[r] : r \in Peers(engine, s)} = {r.season.comp : r \in Peers(engine, s)}
    OBVIOUS
  <2> HIDE DEF f
  <2> QED
    BY <1>1, <2>1, ImageIsFinite
<1>3. \A comps, m : Measured(Population(engine, s, comps), m) \subseteq engine
  BY DEF Measured, Population, Peers
<1> QED
  BY <1>2, <1>3, FS_Subset, FS_CardinalityType

LEMMA PercentileIsInt ==
    ASSUME NEW v, NEW among, IsFiniteSet(among), NEW m
    PROVE  /\ Place(v, among, m) \in Int \cup {None}
           /\ Place(v, among, m) # None => v # None /\ Cardinality(among) >= MinPopulation
<1> SUFFICES ASSUME v # None, ~(Cardinality(among) < MinPopulation)
             PROVE  Percentile(v, among, m) \in Int /\ Cardinality(among) >= MinPopulation
  BY DEF Place
<1>1. PICK n \in Nat : n = Cardinality(among)
  BY FS_CardinalityType
<1>2. PICK b \in Nat : b = Cardinality({r \in among : Less(Value(r.season, m), v)})
  BY FS_Subset, FS_CardinalityType
<1>3. PICK l \in Nat : l = Cardinality({r \in among : Equal(Value(r.season, m), v)})
  BY FS_Subset, FS_CardinalityType
<1>4. n >= MinPopulation /\ 2 * n > 0
  BY <1>1, ScaleAssumption
<1>5. Hundred * (2 * b + l) \in Int
  BY ScaleAssumption
<1>6. (Hundred * (2 * b + l)) \div (2 * n) \in Int
  BY <1>4, <1>5
<1> QED
  BY <1>1, <1>2, <1>3, <1>4, <1>6 DEF Percentile

\* What every rank is: placed only if there is a value and enough to compare it
\* with, turned round or not, in a context that can be told from others.
RankMade(r) ==
    /\ r.percentile \in Int \cup {None} /\ r.oriented \in Int \cup {None}
    /\ r.oriented # None <=> r.percentile # None
    /\ r.percentile # None => r.value # None /\ r.context.size >= MinPopulation
    /\ r.context.size \in Nat
    /\ IsFiniteSet(r.context.competitions) /\ Cardinality(r.context.competitions) \in Nat

LEMMA RankIsMade ==
    ASSUME NEW engine, IsFiniteSet(engine), NEW s, NEW m,
           NEW scope \in {"competition", "global"}
    PROVE  /\ RankMade(Rank(engine, s, m, scope, {}))
           /\ Rank(engine, s, m, scope, {}).value = Value(s, m)
           /\ scope = "global" => Rank(engine, s, m, scope, {}).context.competitions
                                    = {r.season.comp : r \in Peers(engine, s)}
<1> DEFINE v == Value(s, m)
           selected == Selected(s, scope, {})
           asked == Measured(Population(engine, s, selected), m)
           wider == Measured(Population(engine, s, Everywhere), m)
           comps(c) == IF c = Everywhere THEN {r.season.comp : r \in Peers(engine, s)} ELSE c
<1>1. \A c : IsFiniteSet(Measured(Population(engine, s, c), m))
             /\ Cardinality(Measured(Population(engine, s, c), m)) \in Nat
  BY PopulationIsFinite
<1>2. /\ selected = (IF scope = "global" THEN Everywhere ELSE {s.comp})
      /\ IsFiniteSet(comps(selected)) /\ Cardinality(comps(selected)) \in Nat
      /\ IsFiniteSet(comps(Everywhere)) /\ Cardinality(comps(Everywhere)) \in Nat
  <2>1. selected = (IF scope = "global" THEN Everywhere ELSE {s.comp})
    BY DEF Selected
  <2>2. IsFiniteSet({s.comp}) /\ Cardinality({s.comp}) \in Nat
    <3>1. \A x : IsFiniteSet({x}) /\ Cardinality({x}) = 1
      BY FS_Singleton
    <3>2. IsFiniteSet({s.comp}) /\ Cardinality({s.comp}) = 1
      BY <3>1, Zenon
    <3> QED
      BY <3>2
  <2>3. comps({s.comp}) = {s.comp} \/ comps({s.comp}) = comps(Everywhere)
    OBVIOUS
  <2> QED
    BY <2>1, <2>2, <2>3, PopulationIsFinite
<1>3. ASSUME NEW sc, NEW c, NEW set,
             set = Measured(Population(engine, s, c), m),
             IsFiniteSet(comps(c)), Cardinality(comps(c)) \in Nat
      PROVE  /\ RankMade(MetricRank(v, Place(v, set, m), m,
                                    Context(engine, s, sc, c, Cardinality(set))))
             /\ MetricRank(v, Place(v, set, m), m,
                           Context(engine, s, sc, c, Cardinality(set))).value = v
             /\ MetricRank(v, Place(v, set, m), m,
                           Context(engine, s, sc, c, Cardinality(set))).context.competitions = comps(c)
  <2> DEFINE con == Context(engine, s, sc, c, Cardinality(set))
             raw == Place(v, set, m)
             r == MetricRank(v, raw, m, con)
  <2>1. con.size = Cardinality(set) /\ con.competitions = comps(c)
    BY DEF Context
  <2>2. raw \in Int \cup {None} /\ (raw # None => v # None /\ Cardinality(set) >= MinPopulation)
    BY <1>1, <1>3, PercentileIsInt
  <2>3. /\ r.value = v /\ r.percentile = raw /\ r.context = con
        /\ r.oriented = IF raw # None /\ m \in LowerIsBetter THEN Hundred - raw ELSE raw
    BY DEF MetricRank
  <2>4. r.oriented \in Int \cup {None} /\ (r.oriented # None <=> raw # None)
    BY <2>2, <2>3, ScaleAssumption, EvidenceAssumption
  <2> HIDE DEF con, raw, r
  <2>5. RankMade(r)
    BY <1>1, <1>3, <2>1, <2>2, <2>3, <2>4 DEF RankMade
  <2> QED
    BY <2>1, <2>3, <2>5 DEF con, raw, r
<1>4. Rank(engine, s, m, scope, {}) =
        IF /\ v # None /\ selected # Everywhere
           /\ Cardinality(asked) < MinPopulation /\ Cardinality(wider) >= MinPopulation
        THEN MetricRank(v, Place(v, wider, m), m,
                        Context(engine, s, "global", Everywhere, Cardinality(wider)))
        ELSE MetricRank(v, Place(v, asked, m), m,
                        Context(engine, s, scope, selected, Cardinality(asked)))
  BY DEF Rank, RankWithin, RankAmong
<1> HIDE DEF selected, asked, wider, comps, v
<1>5. asked = Measured(Population(engine, s, selected), m)
      /\ wider = Measured(Population(engine, s, Everywhere), m)
  BY DEF asked, wider
<1>6. RankMade(Rank(engine, s, m, scope, {})) /\ Rank(engine, s, m, scope, {}).value = v
  BY <1>2, <1>3, <1>4, <1>5
<1>7. scope = "global" => Rank(engine, s, m, scope, {}).context.competitions = comps(Everywhere)
  BY <1>2, <1>3, <1>4, <1>5
<1> QED
  BY <1>6, <1>7 DEF v, comps

-----------------------------------------------------------------------------
(* The widest of some contexts *)

\* Of the members of a finite set that any two of are in a transitive relation,
\* one is in that relation with all.
LEMMA Greatest ==
    ASSUME NEW S, IsFiniteSet(S), S # {}, NEW R,
           \A a, b \in S : <<a, b>> \in R \/ <<b, a>> \in R,
           \A a, b, c \in S : <<a, b>> \in R /\ <<b, c>> \in R => <<a, c>> \in R
    PROVE  \E m \in S : \A x \in S : <<m, x>> \in R
<1> DEFINE F == {s \in SUBSET S : s # {} => \E m \in s : \A x \in s : <<m, x>> \in R}
<1>1. {} \in F
  OBVIOUS
<1>2. ASSUME NEW s \in SUBSET S, s # {}, \A x \in s : s \ {x} \in F
      PROVE  s \in F
  <2>1. PICK x \in s : TRUE
    BY <1>2
  <2>2. CASE s \ {x} = {}
    <3>1. s = {x} /\ <<x, x>> \in R
      BY <2>1, <2>2
    <3> QED
      BY <2>1, <3>1
  <2>3. CASE s \ {x} # {}
    <3>1. PICK m \in s \ {x} : \A y \in s \ {x} : <<m, y>> \in R
      BY <1>2, <2>1, <2>3
    <3>2. x \in S /\ m \in S
      BY <2>1, <3>1
    <3>3. CASE <<m, x>> \in R
      BY <3>1, <3>3
    <3>4. CASE <<x, m>> \in R
      <4>1. <<x, x>> \in R
        BY <3>2
      <4>2. \A y \in s : <<x, y>> \in R
        BY <3>1, <3>2, <3>4, <4>1
      <4> QED
        BY <2>1, <4>2
    <3> QED
      BY <3>2, <3>3, <3>4
  <2> QED
    BY <2>2, <2>3
<1> HIDE DEF F
<1>3. SUBSET S \subseteq F
  BY <1>1, <1>2, Smallest
<1> QED
  BY <1>3 DEF F

Sized(c) == c.size \in Nat /\ Cardinality(c.competitions) \in Nat

LEMMA WidestIsWidest ==
    ASSUME NEW contexts, IsFiniteSet(contexts), contexts # {}, \A c \in contexts : Sized(c)
    PROVE  /\ Widest(contexts) \in contexts
           /\ \A d \in contexts : Wider(Widest(contexts), d)
<1> DEFINE R == {z \in contexts \X contexts : Wider(z[1], z[2])}
<1>1. \A a, b \in contexts : <<a, b>> \in R <=> Wider(a, b)
  OBVIOUS
<1>2. \A a, b \in contexts : Wider(a, b) \/ Wider(b, a)
  BY DEF Wider, Sized
<1>3. \A a, b, c \in contexts : Wider(a, b) /\ Wider(b, c) => Wider(a, c)
  BY DEF Wider, Sized
<1>4. \E m \in contexts : \A x \in contexts : <<m, x>> \in R
  <2> HIDE DEF R
  <2> QED
    BY <1>1, <1>2, <1>3, Greatest
<1>5. \E m \in contexts : \A x \in contexts : Wider(m, x)
  BY <1>1, <1>4
<1> QED
  BY <1>5 DEF Widest

LEMMA WiderSpreads ==
    ASSUME NEW c, NEW d, Sized(c), Sized(d), Wider(c, d), Caveat(d)
    PROVE  Caveat(c)
BY DEF Sized, Wider, Caveat

-----------------------------------------------------------------------------
(* The comparison a composite answers for *)

LEMMA ContextsAreSized ==
    ASSUME NEW ranked, IsFiniteSet(DOMAIN ranked), DOMAIN ranked # {},
           \A m \in DOMAIN ranked : RankMade(ranked[m])
    PROVE  /\ Widest(Contexts(ranked)) \in {ranked[m].context : m \in DOMAIN ranked}
           /\ Sized(Widest(Contexts(ranked)))
           /\ \A m \in DOMAIN ranked : ranked[m].percentile # None =>
                    Wider(Widest(Contexts(ranked)), ranked[m].context)
<1> DEFINE all == {ranked[m].context : m \in DOMAIN ranked}
           placed == {m \in DOMAIN ranked : ranked[m].percentile # None}
           one == CHOOSE m \in DOMAIN ranked : TRUE
<1>1. IsFiniteSet(all)
  <2> DEFINE f == [m \in DOMAIN ranked |-> ranked[m].context]
  <2>1. all = {f[m] : m \in DOMAIN ranked}
    OBVIOUS
  <2> HIDE DEF f, all
  <2> QED
    BY <2>1, ImageIsFinite
<1>2. Contexts(ranked) = IF placed # {} THEN {ranked[m].context : m \in placed}
                         ELSE {ranked[one].context}
  BY DEF Contexts
<1>3. one \in DOMAIN ranked
  OBVIOUS
<1>4. Contexts(ranked) \subseteq all /\ Contexts(ranked) # {}
  BY <1>2, <1>3
<1>5. \A c \in all : Sized(c)
  BY DEF RankMade, Sized
<1>6. IsFiniteSet(Contexts(ranked))
  BY <1>1, <1>4, FS_Subset
<1>7. /\ Widest(Contexts(ranked)) \in Contexts(ranked)
      /\ \A d \in Contexts(ranked) : Wider(Widest(Contexts(ranked)), d)
  BY <1>4, <1>5, <1>6, WidestIsWidest
<1>8. \A m \in DOMAIN ranked : ranked[m].percentile # None => ranked[m].context \in Contexts(ranked)
  BY <1>2
<1> QED
  BY <1>4, <1>5, <1>7, <1>8

LEMMA DefinitionIsValid ==
    ASSUME NEW k \in Score
    PROVE  /\ DOMAIN Definition[k].weights \subseteq Metric /\ DOMAIN Definition[k].weights # {}
           /\ IsFiniteSet(DOMAIN Definition[k].weights)
           /\ \A m \in DOMAIN Definition[k].weights : Definition[k].weights[m] \in Nat \ {0}
           /\ Definition[k].floor \in 1 .. 100
<1>1. ValidDefinition(Definition[k])
  BY ConfigurationAssumption
<1>2. IsFiniteSet(DOMAIN Definition[k].weights)
  BY <1>1, MetricAssumption, FS_Subset DEF ValidDefinition
<1> QED
  BY <1>1, <1>2 DEF ValidDefinition

LEMMA RankedAreMade ==
    ASSUME NEW engine, IsFiniteSet(engine), NEW s, NEW metrics,
           NEW scope \in {"competition", "global"}
    PROVE  /\ DOMAIN RankAll(engine, s, metrics, scope, {}) = metrics
           /\ \A m \in metrics :
                /\ RankAll(engine, s, metrics, scope, {})[m] = Rank(engine, s, m, scope, {})
                /\ RankMade(Rank(engine, s, m, scope, {}))
BY RankIsMade DEF RankAll

LEMMA ScoreContexts ==
    ASSUME NEW engine, IsFiniteSet(engine), NEW s, NEW k \in Score,
           NEW scope \in {"competition", "global"}
    PROVE  LET con == Intelligence(engine, s, k, scope, {}).context
           IN  /\ Sized(con)
               /\ \A m \in DOMAIN Definition[k].weights :
                    Rank(engine, s, m, scope, {}).percentile # None =>
                        Wider(con, Rank(engine, s, m, scope, {}).context)
               /\ scope = "global" => con.competitions = {r.season.comp : r \in Peers(engine, s)}
<1> DEFINE metrics == DOMAIN Definition[k].weights
           ranked == RankAll(engine, s, metrics, scope, {})
           con == Widest(Contexts(ranked))
<1>1. Intelligence(engine, s, k, scope, {}).context = con
  BY DEF Intelligence, ScoreOf, Composite, ScoreResult
<1>2. /\ DOMAIN ranked = metrics
      /\ \A m \in metrics : ranked[m] = Rank(engine, s, m, scope, {}) /\ RankMade(ranked[m])
  BY RankedAreMade
<1>3. metrics # {} /\ IsFiniteSet(metrics)
  BY DefinitionIsValid
<1> HIDE DEF ranked, metrics
<1>4. /\ con \in {ranked[m].context : m \in DOMAIN ranked} /\ Sized(con)
      /\ \A m \in DOMAIN ranked : ranked[m].percentile # None => Wider(con, ranked[m].context)
  BY <1>2, <1>3, ContextsAreSized
<1>5. PICK m \in metrics : con = Rank(engine, s, m, scope, {}).context
  BY <1>2, <1>4
<1>6. scope = "global" => con.competitions = {r.season.comp : r \in Peers(engine, s)}
  BY <1>5, RankIsMade
<1> HIDE DEF con
<1> QED
  BY <1>1, <1>2, <1>4, <1>6 DEF metrics

LEMMA ScoreSaysSo ==
    ASSUME IsFiniteSet(view.engine), NEW s, NEW k \in Score,
           NEW scope \in {"competition", "global"},
           Spreads(s, DOMAIN Definition[k].weights, scope)
    PROVE  Caveat(Intelligence(view.engine, s, k, scope, {}).context)
<1>1. PICK m \in DOMAIN Definition[k].weights :
            /\ Rank(view.engine, s, m, scope, {}).percentile # None
            /\ Caveat(Rank(view.engine, s, m, scope, {}).context)
  BY DEF Spreads
<1>2. PICK con : con = Intelligence(view.engine, s, k, scope, {}).context
  OBVIOUS
<1>3. Sized(con) /\ Wider(con, Rank(view.engine, s, m, scope, {}).context)
  BY <1>1, <1>2, ScoreContexts
<1>4. Sized(Rank(view.engine, s, m, scope, {}).context)
  BY RankIsMade DEF RankMade, Sized
<1> QED
  BY <1>1, <1>2, <1>3, <1>4, WiderSpreads

LEMMA RoleIsValid ==
    ASSUME NEW role \in Role
    PROVE  LET r == Configured[role] IN
           /\ DOMAIN r.metrics \subseteq Metric /\ DOMAIN r.scores \subseteq Score
           /\ IsFiniteSet(DOMAIN r.metrics) /\ IsFiniteSet(DOMAIN r.scores)
           /\ DOMAIN r.metrics \cup DOMAIN r.scores # {}
           /\ \A m \in DOMAIN r.metrics : r.metrics[m] \in Nat \ {0}
           /\ \A k \in DOMAIN r.scores : r.scores[k] \in Nat \ {0}
<1>1. ValidRole(Configured[role])
  BY ConfigurationAssumption
<1>2. IsFiniteSet(DOMAIN Configured[role].metrics) /\ IsFiniteSet(DOMAIN Configured[role].scores)
  BY <1>1, MetricAssumption, ConfigurationAssumption, FS_Subset DEF ValidRole
<1> QED
  BY <1>1, <1>2 DEF ValidRole

\* A role answers for the widest of what its metrics and its scores answer for.
LEMMA RoleSaysSo ==
    ASSUME IsFiniteSet(view.engine), NEW s, NEW role \in Role,
           Spreads(s, RoleMetrics(role), "competition")
    PROVE  Caveat(RoleScore(view.engine, s, role, "competition", {}).context)
<1> DEFINE r == Configured[role]
           ranked == RankAll(view.engine, s, DOMAIN r.metrics, "competition", {})
           inner == ScoreAll(view.engine, s, DOMAIN r.scores, "competition", {})
           own == IF DOMAIN r.metrics = {} THEN {} ELSE {Widest(Contexts(ranked))}
           theirs == {inner[k].context : k \in DOMAIN r.scores}
           con == Widest(own \cup theirs)
<1>1. RoleScore(view.engine, s, role, "competition", {}).context = con
  BY DEF RoleScore, RoleFrom, RoleOf, RoleResult, RoleContext
<1>2. \A k \in DOMAIN r.scores :
            inner[k] = Intelligence(view.engine, s, k, "competition", {}) /\ k \in Score
  BY RoleIsValid DEF ScoreAll
<1>3. /\ DOMAIN ranked = DOMAIN r.metrics
      /\ \A m \in DOMAIN r.metrics : ranked[m] = Rank(view.engine, s, m, "competition", {})
                                    /\ RankMade(ranked[m])
  BY RankedAreMade
<1>4. /\ IsFiniteSet(DOMAIN r.metrics) /\ IsFiniteSet(DOMAIN r.scores)
      /\ DOMAIN r.metrics # {} \/ DOMAIN r.scores # {}
  BY RoleIsValid
<1>5. IsFiniteSet(theirs)
  <2> DEFINE f == [k \in DOMAIN r.scores |-> inner[k].context]
  <2>1. theirs = {f[k] : k \in DOMAIN r.scores}
    OBVIOUS
  <2> HIDE DEF f, theirs
  <2> QED
    BY <1>4, <2>1, ImageIsFinite
<1> HIDE DEF ranked, inner
<1>6. \A c \in theirs : Sized(c)
  BY <1>2, ScoreContexts
<1>7. DOMAIN r.metrics # {} =>
        /\ Sized(Widest(Contexts(ranked)))
        /\ \A m \in DOMAIN r.metrics : ranked[m].percentile # None =>
                Wider(Widest(Contexts(ranked)), ranked[m].context)
  BY <1>3, <1>4, ContextsAreSized
<1>8. IsFiniteSet(own) /\ \A c \in own : Sized(c)
  BY <1>7, FS_Singleton, FS_EmptySet
<1>9. own \cup theirs # {}
  BY <1>4
<1>10. IsFiniteSet(own \cup theirs)
  BY <1>5, <1>8, FS_Union
<1>11. con \in own \cup theirs /\ \A d \in own \cup theirs : Wider(con, d)
  <2> HIDE DEF own, theirs
  <2> QED
    BY <1>6, <1>8, <1>9, <1>10, WidestIsWidest
<1>12. Sized(con)
  BY <1>6, <1>8, <1>11
<1> HIDE DEF con
<1>13. PICK m \in RoleMetrics(role) :
            /\ Rank(view.engine, s, m, "competition", {}).percentile # None
            /\ Caveat(Rank(view.engine, s, m, "competition", {}).context)
  BY DEF Spreads
<1>14. \E d \in own \cup theirs : Caveat(d)
  <2>1. CASE m \in DOMAIN r.metrics
    <3>1. Wider(Widest(Contexts(ranked)), ranked[m].context) /\ Caveat(ranked[m].context)
      BY <1>3, <1>7, <1>13, <2>1
    <3>2. Sized(ranked[m].context)
      BY <1>3, <2>1 DEF RankMade, Sized
    <3>3. Caveat(Widest(Contexts(ranked)))
      BY <1>7, <2>1, <3>1, <3>2, WiderSpreads
    <3> QED
      BY <2>1, <3>3
  <2>2. CASE \E k \in DOMAIN r.scores : m \in DOMAIN Definition[k].weights
    <3>1. PICK k \in DOMAIN r.scores : m \in DOMAIN Definition[k].weights
      BY <2>2
    <3>2. Spreads(s, DOMAIN Definition[k].weights, "competition")
      BY <1>13, <3>1 DEF Spreads
    <3>3. Caveat(inner[k].context)
      BY <1>2, <3>1, <3>2, ScoreSaysSo
    <3> QED
      BY <3>1, <3>3
  <2> QED
    BY <1>13, <2>1, <2>2 DEF RoleMetrics
<1> QED
  BY <1>1, <1>6, <1>8, <1>11, <1>12, <1>14, WiderSpreads

-----------------------------------------------------------------------------
(* Weighted scores *)

LEMMA LeastAndGreatest ==
    ASSUME NEW a \in Int, NEW b \in Int
    PROVE  /\ Min({a, b}) = IF a <= b THEN a ELSE b
           /\ Max({a, b}) = IF a >= b THEN a ELSE b
BY DEF Min, Max

LEMMA ClampedIsInt ==
    ASSUME NEW v \in Int
    PROVE  Clamped(v) \in 0 .. Hundred
<1>1. Hundred \in Nat \ {0}
  BY ScaleAssumption
<1>2. PICK n \in Int : n = Min({Hundred, v}) /\ n <= Hundred
  BY <1>1, LeastAndGreatest
<1>3. Max({0, n}) = IF 0 >= n THEN 0 ELSE n
  BY LeastAndGreatest
<1> QED
  BY <1>1, <1>2, <1>3 DEF Clamped

\* A composite as the loaders make them: finite, every weight positive, every
\* value a number or absent.
Weighable(components) ==
    /\ IsFiniteSet(DOMAIN components)
    /\ \A c \in DOMAIN components :
        /\ components[c].weight \in Nat \ {0}
        /\ components[c].value \in Int \cup {None}

LEMMA WeightsOfParts ==
    ASSUME NEW components, Weighable(components)
    PROVE  /\ \A s \in SUBSET DOMAIN components : WeightOf(components, s) \in Nat
           /\ \A s, t \in SUBSET DOMAIN components : s \subseteq t =>
                /\ WeightOf(components, s) <= WeightOf(components, t)
                /\ s # t => WeightOf(components, s) < WeightOf(components, t)
<1>1. \A t \in SUBSET DOMAIN components : IsFiniteSet(t)
  BY FS_Subset DEF Weighable
<1>2. ASSUME NEW t \in SUBSET DOMAIN components
      PROVE  \E g : Summing(g, [c \in t |-> components[c].weight], t)
                        /\ WeightOf(components, t) = g[t]
  BY <1>1, WeightOfIs
<1> DEFINE D == DOMAIN components
           w == [c \in D |-> components[c].weight]
<1>3. PICK g : Summing(g, w, D)
  BY <1>1, SummingExists
<1>4. ASSUME NEW t \in SUBSET D
      PROVE  WeightOf(components, t) = g[t]
  <2>1. PICK h : Summing(h, [c \in t |-> components[c].weight], t) /\ WeightOf(components, t) = h[t]
    BY <1>2
  <2> DEFINE F == {s \in SUBSET t : h[s] = g[s]}
  <2>2. \A s \in SUBSET t : h[s] = IF s = {} THEN 0
            ELSE [c \in t |-> components[c].weight][CHOOSE x \in s : TRUE] + h[s \ {CHOOSE x \in s : TRUE}]
    BY <2>1 DEF Summing
  <2>3. \A s \in SUBSET D : g[s] = IF s = {} THEN 0
            ELSE w[CHOOSE x \in s : TRUE] + g[s \ {CHOOSE x \in s : TRUE}]
    BY <1>3 DEF Summing
  <2>4. {} \in F
    BY <2>2, <2>3
  <2>5. ASSUME NEW s \in SUBSET t, s # {}, \A x \in s : s \ {x} \in F
        PROVE  s \in F
    <3>1. PICK x \in s : x = CHOOSE y \in s : TRUE
      BY <2>5
    <3>2. h[s] = components[x].weight + h[s \ {x}]
      BY <2>2, <2>5, <3>1
    <3>3. g[s] = components[x].weight + g[s \ {x}]
      BY <2>3, <2>5, <3>1
    <3>4. h[s \ {x}] = g[s \ {x}]
      BY <2>5, <3>1
    <3> QED
      BY <2>5, <3>2, <3>3, <3>4
  <2> HIDE DEF F
  <2>6. SUBSET t \subseteq F
    BY <1>1, <2>4, <2>5, Smallest
  <2> QED
    BY <2>1, <2>6 DEF F
<1>5. \A c \in D : w[c] \in Nat /\ w[c] > 0
  BY DEF Weighable
<1> HIDE DEF w
<1>6. \A s, t \in SUBSET D : s \subseteq t =>
            /\ g[s] \in Nat /\ g[s] <= g[t]
            /\ \A x \in t \ s : w[x] > 0 => g[s] < g[t]
  BY <1>1, <1>3, <1>5, SumOfPart
<1>7. ASSUME NEW s \in SUBSET D, NEW t \in SUBSET D, s \subseteq t
      PROVE  g[s] \in Nat /\ g[s] <= g[t] /\ (s # t => g[s] < g[t])
  <2>1. s # t => \E x \in t \ s : TRUE
    BY <1>7
  <2> QED
    BY <1>5, <1>6, <1>7, <2>1
<1> QED
  BY <1>4, <1>7

Total(components, names) ==
    MapThenSumSet(LAMBDA c : components[c].weight * Clamped(components[c].value), names)

LEMMA TotalIsInt ==
    ASSUME NEW components, Weighable(components), NEW names \in SUBSET DOMAIN components,
           \A c \in names : components[c].value \in Int
    PROVE  Total(components, names) \in Int
<1> DEFINE w == [c \in names |-> components[c].weight * Clamped(components[c].value)]
           P(g) == g = [s \in SUBSET names |->
            IF s = {} THEN 0
            ELSE components[CHOOSE x \in s : TRUE].weight
                    * Clamped(components[CHOOSE x \in s : TRUE].value)
                 + g[s \ {CHOOSE x \in s : TRUE}]]
<1>1. Total(components, names) = (CHOOSE g : P(g))[names]
  BY DEF Total, MapThenSumSet, MapThenFoldSet
<1>2. ASSUME NEW g PROVE Summing(g, w, names) <=> P(g)
  <2>1. \A s \in SUBSET names : s # {} => (CHOOSE x \in s : TRUE) \in names
    OBVIOUS
  <2> QED
    BY <2>1 DEF Summing
<1>3. IsFiniteSet(names)
  BY FS_Subset DEF Weighable
<1>4. \A c \in names : w[c] \in Int
  <2> TAKE c \in names
  <2>1. components[c].weight \in Nat /\ Clamped(components[c].value) \in Int
    BY ClampedIsInt DEF Weighable
  <2>2. components[c].weight * Clamped(components[c].value) \in Int
    BY <2>1
  <2> QED
    BY <2>2
<1> HIDE DEF w
<1>5. PICK g : Summing(g, w, names)
  BY <1>3, SummingExists
<1>6. P(g)
  BY <1>2, <1>5
<1> HIDE DEF P
<1>7. P(CHOOSE f : P(f))
  BY <1>6
<1>8. Summing(CHOOSE f : P(f), w, names)
  BY <1>2, <1>7
<1> QED
  BY <1>1, <1>3, <1>4, <1>8, SumIsInt

LEMMA WeightedIsInt ==
    ASSUME NEW components, Weighable(components), NEW floor
    PROVE  /\ Weighted(components, floor).score \in Int \cup {None}
           /\ Weighted(components, floor).score = None <=>
                Given(components) = {} \/ CoverageBelow(components, floor)
<1> DEFINE given == Given(components)
           total == Total(components, given)
           weight == WeightOf(components, given)
<1>1. Weighted(components, floor).score =
        IF given = {} \/ CoverageBelow(components, floor) THEN None
        ELSE Clamped(total \div weight)
  BY DEF Weighted, Total
<1>2. given \in SUBSET DOMAIN components /\ \A c \in given : components[c].value \in Int
  BY DEF Given, Weighable
<1>3. given # {} => weight \in Nat \ {0}
  <2>1. WeightOf(components, {}) \in Nat /\ (given # {} => WeightOf(components, {}) < weight)
    BY <1>2, WeightsOfParts
  <2>2. weight \in Nat
    BY <1>2, WeightsOfParts
  <2> QED
    BY <2>1, <2>2
<1>4. total \in Int
  BY <1>2, TotalIsInt
<1> HIDE DEF given, total, weight
<1>5. given # {} => total \div weight \in Int
  BY <1>3, <1>4
<1>6. given # {} => Clamped(total \div weight) \in Int
  BY <1>5, ClampedIsInt, ScaleAssumption
<1> QED
  BY <1>1, <1>6, EvidenceAssumption DEF given

\* What is too little for a composite is too little for one that has less.
LEMMA LessIsNoMore ==
    ASSUME NEW a, NEW b, Weighable(a), Weighable(b), DOMAIN a = DOMAIN b,
           \A c \in DOMAIN a : a[c].weight = b[c].weight,
           Given(a) \subseteq Given(b), NEW floor \in Nat,
           Weighted(b, floor).score = None
    PROVE  Weighted(a, floor).score = None
<1>1. Given(a) \in SUBSET DOMAIN a /\ Given(b) \in SUBSET DOMAIN a
  BY DEF Given
<1>2. \A s \in SUBSET DOMAIN a : WeightOf(a, s) = WeightOf(b, s)
  <2> SUFFICES ASSUME NEW s \in SUBSET DOMAIN a PROVE WeightOf(a, s) = WeightOf(b, s)
    OBVIOUS
  <2> DEFINE P(g) == g = [u \in SUBSET s |->
                IF u = {} THEN 0
                ELSE a[CHOOSE x \in u : TRUE].weight + g[u \ {CHOOSE x \in u : TRUE}]]
             Q(g) == g = [u \in SUBSET s |->
                IF u = {} THEN 0
                ELSE b[CHOOSE x \in u : TRUE].weight + g[u \ {CHOOSE x \in u : TRUE}]]
  <2>1. WeightOf(a, s) = (CHOOSE g : P(g))[s] /\ WeightOf(b, s) = (CHOOSE g : Q(g))[s]
    BY DEF WeightOf, MapThenSumSet, MapThenFoldSet
  <2>2. ASSUME NEW g PROVE P(g) <=> Q(g)
    <3>1. \A u \in SUBSET s : u # {} => (CHOOSE x \in u : TRUE) \in DOMAIN a
      OBVIOUS
    <3>2. \A u \in SUBSET s : u # {} =>
              a[CHOOSE x \in u : TRUE].weight = b[CHOOSE x \in u : TRUE].weight
      BY <3>1
    <3>3. [u \in SUBSET s |->
              IF u = {} THEN 0
              ELSE a[CHOOSE x \in u : TRUE].weight + g[u \ {CHOOSE x \in u : TRUE}]]
            = [u \in SUBSET s |->
                IF u = {} THEN 0
                ELSE b[CHOOSE x \in u : TRUE].weight + g[u \ {CHOOSE x \in u : TRUE}]]
      BY <3>2
    <3> QED
      BY <3>3
  <2> HIDE DEF P, Q
  <2> QED
    BY <2>1, <2>2
<1>3. Given(a) = {} \/ CoverageBelow(a, floor)
  <2>1. Given(b) = {} => Given(a) = {}
    OBVIOUS
  <2>2. ASSUME CoverageBelow(b, floor) PROVE CoverageBelow(a, floor)
    <3>1. /\ WeightOf(a, Given(a)) <= WeightOf(b, Given(b))
          /\ WeightOf(a, Given(a)) \in Nat /\ WeightOf(b, Given(b)) \in Nat
      BY <1>1, <1>2, WeightsOfParts
    <3>2. /\ WeightOf(a, DOMAIN a) = WeightOf(b, DOMAIN b) /\ WeightOf(a, DOMAIN a) \in Nat
      BY <1>2, WeightsOfParts
    <3>3. floor * WeightOf(a, DOMAIN a) \in Nat
      BY <3>2
    <3>4. 100 * WeightOf(b, Given(b)) < floor * WeightOf(a, DOMAIN a)
      BY <2>2, <3>2 DEF CoverageBelow
    <3> QED
      BY <3>1, <3>3, <3>4 DEF CoverageBelow
  <2> QED
    BY <2>1, <2>2, WeightedIsInt
<1> QED
  BY <1>3, WeightedIsInt

-----------------------------------------------------------------------------
(* Scores and roles *)

ScoreComponents(engine, s, k, scope) ==
    [m \in DOMAIN Definition[k].weights |->
        [weight |-> Definition[k].weights[m], value |-> Rank(engine, s, m, scope, {}).oriented]]

LEMMA ScoreIs ==
    ASSUME NEW engine, IsFiniteSet(engine), NEW s, NEW k \in Score,
           NEW scope \in {"competition", "global"}
    PROVE  /\ Weighable(ScoreComponents(engine, s, k, scope))
           /\ Intelligence(engine, s, k, scope, {}).score
                = Weighted(ScoreComponents(engine, s, k, scope), Definition[k].floor).score
           /\ Intelligence(engine, s, k, scope, {}).score \in Int \cup {None}
<1> DEFINE weights == Definition[k].weights
           ranked == RankAll(engine, s, DOMAIN weights, scope, {})
           cs == ScoreComponents(engine, s, k, scope)
<1>1. \A m \in DOMAIN weights : ranked[m] = Rank(engine, s, m, scope, {}) /\ RankMade(ranked[m])
  BY RankedAreMade
<1>2. [m \in DOMAIN weights |-> [weight |-> weights[m], value |-> ranked[m].oriented]] = cs
  BY <1>1 DEF ScoreComponents
<1>3. Intelligence(engine, s, k, scope, {}).score = Weighted(cs, Definition[k].floor).score
  BY <1>2 DEF Intelligence, ScoreOf, Composite, ScoreResult
<1>4. Weighable(cs)
  <2>1. IsFiniteSet(DOMAIN weights) /\ \A m \in DOMAIN weights : weights[m] \in Nat \ {0}
    BY DefinitionIsValid
  <2>2. \A m \in DOMAIN weights : Rank(engine, s, m, scope, {}).oriented \in Int \cup {None}
    BY <1>1 DEF RankMade
  <2>3. DOMAIN cs = DOMAIN weights
    BY DEF ScoreComponents
  <2>4. \A m \in DOMAIN weights : /\ cs[m].weight = weights[m]
                                  /\ cs[m].value = Rank(engine, s, m, scope, {}).oriented
    BY DEF ScoreComponents
  <2> QED
    BY <2>1, <2>2, <2>3, <2>4 DEF Weighable
<1> QED
  BY <1>3, <1>4, WeightedIsInt

LEMMA UnproducibleIsNone ==
    ASSUME NEW engine, IsFiniteSet(engine), NEW s, NEW present, Available(s) \subseteq present,
           NEW k \in Unproducible(present), NEW scope \in {"competition", "global"}
    PROVE  Intelligence(engine, s, k, scope, {}).score = None
<1> DEFINE weights == Definition[k].weights
           a == ScoreComponents(engine, s, k, scope)
           b == [m \in DOMAIN weights |->
                    [weight |-> weights[m],
                     value |-> IF m \in present THEN Hundred \div 2 ELSE None]]
<1>1. k \in Score /\ Weighted(b, Definition[k].floor).score = None
  BY DEF Unproducible
<1>2. /\ IsFiniteSet(DOMAIN weights) /\ \A m \in DOMAIN weights : weights[m] \in Nat \ {0}
      /\ DOMAIN weights \subseteq Metric /\ Definition[k].floor \in Nat
  BY <1>1, DefinitionIsValid
<1>3. Hundred \div 2 \in Int /\ Hundred \div 2 # None
  BY ScaleAssumption, EvidenceAssumption
<1>4. Weighable(b)
  BY <1>2, <1>3 DEF Weighable
<1>5. Weighable(a) /\ Intelligence(engine, s, k, scope, {}).score
                        = Weighted(a, Definition[k].floor).score
  BY <1>1, ScoreIs
<1>6. DOMAIN a = DOMAIN b /\ \A m \in DOMAIN a : a[m].weight = b[m].weight
  BY DEF ScoreComponents
<1>7. Given(a) \subseteq Given(b)
  <2> SUFFICES ASSUME NEW m \in Given(a) PROVE m \in Given(b)
    OBVIOUS
  <2>1. m \in DOMAIN weights /\ Rank(engine, s, m, scope, {}).oriented # None
    BY DEF Given, ScoreComponents
  <2>2. Value(s, m) # None
    BY RankIsMade, <2>1 DEF RankMade
  <2>3. m \in present
    BY <1>2, <2>1, <2>2 DEF Available
  <2> QED
    BY <1>3, <2>1, <2>3 DEF Given
<1> HIDE DEF a, b
<1> QED
  BY <1>1, <1>2, <1>4, <1>5, <1>6, <1>7, LessIsNoMore

\* A role that could be computed: its score is a number.
LEMMA RoleIs ==
    ASSUME NEW engine, IsFiniteSet(engine), NEW s, NEW role \in Role
    PROVE  /\ RoleScore(engine, s, role, "competition", {}).role = role
           /\ RoleScore(engine, s, role, "competition", {}).score \in Int \cup {None}
<1> DEFINE r == Configured[role]
           ranked == RankAll(engine, s, DOMAIN r.metrics, "competition", {})
           inner == ScoreAll(engine, s, DOMAIN r.scores, "competition", {})
           cs == RoleComponents(r, ranked, inner)
<1>1. /\ RoleScore(engine, s, role, "competition", {}).role = role
      /\ RoleScore(engine, s, role, "competition", {}).score = Weighted(cs, SecondaryFloor).score
  BY DEF RoleScore, RoleFrom, RoleOf, RoleResult
<1>2. /\ DOMAIN r.metrics \subseteq Metric /\ DOMAIN r.scores \subseteq Score
      /\ IsFiniteSet(DOMAIN r.metrics) /\ IsFiniteSet(DOMAIN r.scores)
      /\ \A m \in DOMAIN r.metrics : r.metrics[m] \in Nat \ {0}
      /\ \A k \in DOMAIN r.scores : r.scores[k] \in Nat \ {0}
  BY RoleIsValid
<1>3. \A m \in DOMAIN r.metrics : ranked[m].oriented \in Int \cup {None}
  BY RankedAreMade DEF RankMade
<1>4. \A k \in DOMAIN r.scores : inner[k].score \in Int \cup {None}
  BY <1>2, ScoreIs DEF ScoreAll
<1> HIDE DEF ranked, inner
<1>5. Weighable(cs)
  <2>1. DOMAIN cs = DOMAIN r.metrics \cup DOMAIN r.scores
    BY DEF RoleComponents
  <2>2. IsFiniteSet(DOMAIN cs)
    BY <1>2, <2>1, FS_Union
  <2>3. \A c \in DOMAIN cs : cs[c] =
            IF c \in DOMAIN r.metrics THEN [weight |-> r.metrics[c], value |-> ranked[c].oriented]
            ELSE [weight |-> r.scores[c], value |-> inner[c].score]
    BY DEF RoleComponents
  <2> HIDE DEF cs
  <2>4. ASSUME NEW c \in DOMAIN cs
        PROVE  cs[c].weight \in Nat \ {0} /\ cs[c].value \in Int \cup {None}
    <3>1. CASE c \in DOMAIN r.metrics
      <4>1. cs[c].weight = r.metrics[c] /\ cs[c].value = ranked[c].oriented
        BY <2>3, <3>1
      <4> QED
        BY <1>2, <1>3, <3>1, <4>1
    <3>2. CASE c \notin DOMAIN r.metrics
      <4>1. c \in DOMAIN r.scores
        BY <2>1, <3>2
      <4>2. cs[c].weight = r.scores[c] /\ cs[c].value = inner[c].score
        BY <2>3, <3>2
      <4> QED
        BY <1>2, <1>4, <4>1, <4>2
    <3> QED
      BY <3>1, <3>2
  <2> QED
    BY <2>2, <2>4 DEF Weighable
<1> HIDE DEF cs
<1> QED
  BY <1>1, <1>5, WeightedIsInt

\* What a player's roles are: those of its position with a score.
Fits(engine, s) ==
    {f \in {RoleScore(engine, s, r, "competition", {}) : r \in Compatible(s.group)} : f.score # None}

LEMMA FitsAre ==
    ASSUME NEW engine, IsFiniteSet(engine), NEW s
    PROVE  /\ RawFit(engine, s, "competition", {}) = Fits(engine, s)
           /\ IsFiniteSet(Fits(engine, s))
           /\ \A f \in Fits(engine, s) :
                /\ f.score \in Int /\ f.role \in Role
                /\ f = RoleScore(engine, s, f.role, "competition", {})
<1> DEFINE g == [r \in Role |-> RoleScore(engine, s, r, "competition", {})]
<1>1. RawFit(engine, s, "competition", {}) = Fits(engine, s)
  BY DEF RawFit, Fits
<1>2. Fits(engine, s) \subseteq {g[r] : r \in Role}
  BY DEF Fits, Compatible
<1>3. IsFiniteSet({g[r] : r \in Role})
  <2> HIDE DEF g
  <2> QED
    BY ConfigurationAssumption, ImageIsFinite
<1>4. IsFiniteSet(Fits(engine, s))
  BY <1>2, <1>3, FS_Subset
<1>5. ASSUME NEW f \in Fits(engine, s)
      PROVE  /\ f.score \in Int /\ f.role \in Role
             /\ f = RoleScore(engine, s, f.role, "competition", {})
  <2>1. PICK r \in Role : f = RoleScore(engine, s, r, "competition", {}) /\ f.score # None
    BY DEF Fits, Compatible
  <2> QED
    BY <2>1, RoleIs
<1> QED
  BY <1>1, <1>4, <1>5

-----------------------------------------------------------------------------
(* The best role *)

\* Roles of all players, as a view keeps them.
RolesMade(raw) ==
    /\ IsFiniteSet(DOMAIN raw)
    /\ \A p \in DOMAIN raw : IsFiniteSet(raw[p]) /\ \A f \in raw[p] : f.score \in Int

LEMMA PlacedIsInt ==
    ASSUME NEW raw, RolesMade(raw), NEW f
    PROVE  Placed(raw, f) \in Int \cup {None}
<1> DEFINE parts == {{p} \X raw[p] : p \in DOMAIN raw}
           among == Distribution(raw, f.role)
<1>1. IsFiniteSet(UNION parts)
  <2> DEFINE g == [p \in DOMAIN raw |-> {p} \X raw[p]]
  <2>1. parts = {g[p] : p \in DOMAIN raw}
    OBVIOUS
  <2>2. \A p \in DOMAIN raw : IsFiniteSet({p} \X raw[p])
    <3> TAKE p \in DOMAIN raw
    <3>1. IsFiniteSet({p}) /\ IsFiniteSet(raw[p])
      BY FS_Singleton DEF RolesMade
    <3> QED
      BY <3>1, FS_Product
  <2>3. \A T \in parts : IsFiniteSet(T)
    BY <2>2
  <2>4. IsFiniteSet(parts)
    <3> HIDE DEF g, parts
    <3> QED
      BY <2>1, ImageIsFinite DEF RolesMade
  <2> HIDE DEF parts
  <2> QED
    BY <2>3, <2>4, FS_UNION
<1>2. among \subseteq UNION parts
  BY DEF Distribution
<1> HIDE DEF among, parts
<1>3. IsFiniteSet(among)
  BY <1>1, <1>2, FS_Subset
<1>4. PICK n \in Nat : n = Cardinality(among)
  BY <1>3, FS_CardinalityType
<1>5. PICK b \in Nat : b = Cardinality({x \in among : x[2].score < f.score})
  BY <1>3, FS_Subset, FS_CardinalityType
<1>6. PICK l \in Nat : l = Cardinality({x \in among : x[2].score = f.score})
  BY <1>3, FS_Subset, FS_CardinalityType
<1>7. ~(n < MinRolePopulation) => (Hundred * (2 * b + l)) \div (2 * n) \in Int
  <2> SUFFICES ASSUME ~(n < MinRolePopulation)
               PROVE  (Hundred * (2 * b + l)) \div (2 * n) \in Int
    OBVIOUS
  <2>1. 2 * n \in Int /\ 2 * n > 0
    BY ConfigurationAssumption
  <2>2. Hundred * (2 * b + l) \in Int
    BY ScaleAssumption
  <2> QED
    BY <2>1, <2>2
<1>8. Placed(raw, f) = IF f.validity # "full" \/ n < MinRolePopulation THEN None
                       ELSE (Hundred * (2 * b + l)) \div (2 * n)
  BY <1>4, <1>5, <1>6 DEF Placed, among
<1> QED
  BY <1>7, <1>8

LEMMA BestIsAmong ==
    ASSUME NEW raw, RolesMade(raw), NEW p \in DOMAIN raw
    PROVE  BestOf(raw, p) \in raw[p] \cup {None}
<1> DEFINE full == {f \in raw[p] : f.validity = "full"}
           standing(f) == Standing(Placed(raw, f), f)
           highest == {f \in full : \A g \in full : standing(f) >= standing(g)}
<1>1. BestOf(raw, p) = IF full = {} THEN None
                       ELSE CHOOSE f \in highest : \A g \in highest : f.score >= g.score
  BY DEF BestOf
<1> SUFFICES ASSUME full # {}
             PROVE  BestOf(raw, p) \in raw[p]
  BY <1>1
<1>2. IsFiniteSet(full) /\ \A f \in full : f.score \in Int /\ standing(f) \in Int
  <2>1. \A f \in raw[p] : f.score \in Int /\ standing(f) \in Int
    BY PlacedIsInt DEF Standing, RolesMade
  <2>2. IsFiniteSet(full)
    BY FS_Subset DEF RolesMade
  <2> QED
    BY <2>1, <2>2
<1>3. highest # {}
  <2> DEFINE R == {z \in full \X full : standing(z[1]) >= standing(z[2])}
  <2>1. \A a, b \in full : <<a, b>> \in R <=> standing(a) >= standing(b)
    OBVIOUS
  <2> HIDE DEF R, full, standing
  <2>2. \A a, b \in full : <<a, b>> \in R \/ <<b, a>> \in R
    <3> TAKE a, b \in full
    <3>1. standing(a) \in Int /\ standing(b) \in Int
      BY <1>2
    <3>2. standing(a) >= standing(b) \/ standing(b) >= standing(a)
      BY <3>1
    <3> QED
      BY <2>1, <3>2
  <2>3. \A a, b, c \in full : <<a, b>> \in R /\ <<b, c>> \in R => <<a, c>> \in R
    <3> TAKE a, b, c \in full
    <3>1. standing(a) \in Int /\ standing(b) \in Int /\ standing(c) \in Int
      BY <1>2
    <3>2. standing(a) >= standing(b) /\ standing(b) >= standing(c) => standing(a) >= standing(c)
      BY <3>1
    <3> QED
      BY <2>1, <3>2
  <2>4. PICK f \in full : \A g \in full : <<f, g>> \in R
    BY <1>2, <2>2, <2>3, Greatest
  <2> QED
    BY <2>1, <2>4
<1>4. \E f \in highest : \A g \in highest : f.score >= g.score
  <2> DEFINE R == {z \in highest \X highest : z[1].score >= z[2].score}
  <2>1. \A a, b \in highest : <<a, b>> \in R <=> a.score >= b.score
    OBVIOUS
  <2>2. IsFiniteSet(highest) /\ \A f \in highest : f.score \in Int
    BY <1>2, FS_Subset
  <2> HIDE DEF R, highest
  <2>3. \A a, b \in highest : <<a, b>> \in R \/ <<b, a>> \in R
    <3> TAKE a, b \in highest
    <3>1. a.score >= b.score \/ b.score >= a.score
      BY <2>2
    <3> QED
      BY <2>1, <3>1
  <2>4. \A a, b, c \in highest : <<a, b>> \in R /\ <<b, c>> \in R => <<a, c>> \in R
    BY <2>1, <2>2
  <2>5. PICK f \in highest : \A g \in highest : <<f, g>> \in R
    BY <1>3, <2>2, <2>3, <2>4, Greatest
  <2> QED
    BY <2>1, <2>5
<1>5. (CHOOSE f \in highest : \A g \in highest : f.score >= g.score) \in highest
  <2> HIDE DEF highest
  <2> QED
    BY <1>4
<1>6. highest \subseteq raw[p]
  OBVIOUS
<1> HIDE DEF highest, full
<1> QED
  BY <1>1, <1>5, <1>6

-----------------------------------------------------------------------------
SeasonRow == UNION Universes

ReadTyped ==
    /\ unread \subseteq SeasonRow
    /\ shown \in [Player -> SeasonRow \cup {None}]
    /\ population \subseteq [season : SeasonRow, primary : BOOLEAN]
    /\ \A p \in Player : shown[p] # None => shown[p].player = p

Primary(p) == {r \in population : r.season.player = p /\ r.primary}

\* One row stands for each player that has one.
OnePrimary ==
    \A p \in Player :
        Primary(p) = IF shown[p] = None THEN {} ELSE {[season |-> shown[p], primary |-> TRUE]}

\* It is the one with the most football.
BestShown ==
    \A p \in Player : \A r \in population :
        r.season.player = p =>
            shown[p] # None /\ (r.season = shown[p] \/ NoBetter(r.season, shown[p]))

\* A view is built from all rows, and none is read after it.
BuiltOnce ==
    view # None =>
        unread = {} /\ view.engine \subseteq population /\ DOMAIN view.shown \subseteq Player

ReadInv == ReadTyped /\ OnePrimary /\ BestShown /\ BuiltOnce

-----------------------------------------------------------------------------
(* The order of rows *)

LEMMA RowNumbers ==
    ASSUME NEW row \in SeasonRow
    PROVE  /\ row # None /\ row.player \in Player \cup {None}
           /\ row.comp \in Nat /\ Known(row.minutes) \in Nat
BY UniverseAssumption DEF SeasonRow, Known

LEMMA NoBetterIsAnOrder ==
    ASSUME NEW a \in SeasonRow, NEW b \in SeasonRow, NEW c \in SeasonRow
    PROVE  /\ NoBetter(a, a)
           /\ ~NoBetter(a, b) => NoBetter(b, a)
           /\ NoBetter(a, b) /\ NoBetter(b, c) => NoBetter(a, c)
BY RowNumbers DEF NoBetter

LEMMA PopulationRows ==
    ASSUME NEW row \in SeasonRow, NEW b \in BOOLEAN
    PROVE  [season |-> row, primary |-> b] \in [season : SeasonRow, primary : BOOLEAN]
OBVIOUS

-----------------------------------------------------------------------------
(* The steps *)

LEMMA ReadShownPreserves ==
    ASSUME ReadInv, NEW row \in unread, ReadShown(row)
    PROVE  ReadInv'
<1>1. PICK q : q = row.player
  OBVIOUS
<1>2. PICK old : old = shown[q]
  OBVIOUS
<1> DEFINE new == [season |-> row, primary |-> TRUE]
           was == [season |-> old, primary |-> TRUE]
           now == [season |-> old, primary |-> FALSE]
<1>3. /\ q \in Player /\ row \in SeasonRow /\ row.player = q /\ row # None
      /\ old # None => old \in SeasonRow /\ old.player = q /\ ~NoBetter(row, old)
      /\ shown' = [shown EXCEPT ![q] = row] /\ unread' = unread \ {row}
      /\ UNCHANGED view
  <2>1. /\ row \in unread /\ row.player # None
        /\ shown[row.player] # None => ~NoBetter(row, shown[row.player])
        /\ unread' = unread \ {row} /\ shown' = [shown EXCEPT ![row.player] = row]
        /\ view' = view
    BY DEF ReadShown
  <2>2. row \in SeasonRow /\ unread \subseteq SeasonRow
    BY DEF ReadInv, ReadTyped
  <2>3. row.player \in Player /\ row # None
    BY <2>1, <2>2, RowNumbers
  <2>4. shown[q] # None => shown[q] \in SeasonRow /\ shown[q].player = q
    BY <1>1, <2>3 DEF ReadInv, ReadTyped
  <2> QED
    BY <1>1, <1>2, <2>1, <2>2, <2>3, <2>4
<1>4. population' = (IF old = None THEN population ELSE (population \ {was}) \cup {now}) \cup {new}
  BY <1>1, <1>2 DEF ReadShown, Demoted
<1>5. old # None => old # row
  BY <1>3, NoBetterIsAnOrder
<1>6. ReadTyped'
  <2>1. unread' \subseteq SeasonRow /\ shown' \in [Player -> SeasonRow \cup {None}]
    BY <1>3 DEF ReadInv, ReadTyped
  <2>2. population' \subseteq [season : SeasonRow, primary : BOOLEAN]
    <3>1. new \in [season : SeasonRow, primary : BOOLEAN]
      BY <1>3, PopulationRows
    <3>2. old # None => now \in [season : SeasonRow, primary : BOOLEAN]
      BY <1>3, PopulationRows
    <3> HIDE DEF new, now
    <3> QED
      BY <1>4, <3>1, <3>2 DEF ReadInv, ReadTyped
  <2>3. \A p \in Player : shown'[p] # None => shown'[p].player = p
    BY <1>3 DEF ReadInv, ReadTyped
  <2> QED
    BY <2>1, <2>2, <2>3 DEF ReadTyped
<1>7. OnePrimary'
  <2> SUFFICES ASSUME NEW p \in Player
               PROVE  Primary(p)' = IF shown'[p] = None THEN {}
                                    ELSE {[season |-> shown'[p], primary |-> TRUE]}
    BY DEF OnePrimary
  <2>1. Primary(p)' = {r \in population' : r.season.player = p /\ r.primary}
    BY DEF Primary
  <2>2. Primary(p) = {r \in population : r.season.player = p /\ r.primary}
    BY DEF Primary
  <2>3. Primary(p) = IF shown[p] = None THEN {} ELSE {[season |-> shown[p], primary |-> TRUE]}
    BY DEF ReadInv, OnePrimary
  <2>4. shown'[p] = IF p = q THEN row ELSE shown[p]
    BY <1>3 DEF ReadInv, ReadTyped
  <2>5. CASE p = q
    <3>1. Primary(p) = IF old = None THEN {} ELSE {was}
      BY <1>2, <2>3, <2>5
    <3>2. Primary(p)' = {new}
      BY <1>3, <1>4, <2>1, <2>2, <2>5, <3>1
    <3> QED
      BY <1>3, <2>4, <2>5, <3>2
  <2>6. CASE p # q
    <3>1. Primary(p)' = Primary(p)
      BY <1>3, <1>4, <2>1, <2>2, <2>6
    <3> QED
      BY <2>3, <2>4, <2>6, <3>1
  <2> QED
    BY <2>5, <2>6
<1>8. BestShown'
  <2> SUFFICES ASSUME NEW p \in Player, NEW r \in population', r.season.player = p
               PROVE  shown'[p] # None /\ (r.season = shown'[p] \/ NoBetter(r.season, shown'[p]))
    BY DEF BestShown
  <2>1. CASE p # q
    BY <1>3, <1>4, <2>1 DEF ReadInv, ReadTyped, BestShown
  <2>2. CASE p = q /\ old = None
    <3>1. r \notin population
      BY <1>2, <2>2 DEF ReadInv, BestShown
    <3> QED
      BY <1>3, <1>4, <2>2, <3>1 DEF ReadInv, ReadTyped
  <2>3. CASE p = q /\ old # None
    <3>1. NoBetter(old, row)
      BY <1>3, <2>3, NoBetterIsAnOrder
    <3>2. CASE r \in population
      <4>1. r.season \in SeasonRow /\ (r.season = old \/ NoBetter(r.season, old))
        BY <1>2, <2>3, <3>2 DEF ReadInv, ReadTyped, BestShown
      <4>2. NoBetter(r.season, row)
        BY <1>3, <2>3, <3>1, <4>1, NoBetterIsAnOrder
      <4> QED
        BY <1>3, <2>3, <4>2 DEF ReadInv, ReadTyped
    <3>3. CASE r = now \/ r = new
      BY <1>3, <2>3, <3>1, <3>3 DEF ReadInv, ReadTyped
    <3> QED
      BY <1>4, <2>3, <3>2, <3>3
  <2> QED
    BY <2>1, <2>2, <2>3
<1>9. BuiltOnce'
  BY <1>3 DEF ReadInv, BuiltOnce
<1> QED
  BY <1>6, <1>7, <1>8, <1>9 DEF ReadInv

LEMMA ReadSupersededPreserves ==
    ASSUME ReadInv, NEW row \in unread, ReadSuperseded(row)
    PROVE  ReadInv'
<1> DEFINE new == [season |-> row, primary |-> FALSE]
<1>1. PICK q : q = row.player
  OBVIOUS
<1>2. /\ q # None /\ shown[q] # None /\ NoBetter(row, shown[q]) /\ row.player = q
      /\ population' = population \cup {new} /\ unread' = unread \ {row}
      /\ UNCHANGED <<shown, view>>
  BY <1>1 DEF ReadSuperseded
<1>3. row \in SeasonRow /\ q \in Player
  BY <1>2, RowNumbers DEF ReadInv, ReadTyped
<1>4. ReadTyped'
  <2>1. new \in [season : SeasonRow, primary : BOOLEAN]
    BY <1>3, PopulationRows
  <2> HIDE DEF new
  <2> QED
    BY <1>2, <2>1 DEF ReadInv, ReadTyped
<1>5. OnePrimary'
  <2>1. \A p \in Player : Primary(p)' = Primary(p)
    BY <1>2 DEF Primary
  <2> QED
    BY <1>2, <2>1 DEF ReadInv, OnePrimary
<1>6. BestShown'
  BY <1>2 DEF ReadInv, BestShown
<1>7. BuiltOnce'
  BY <1>2 DEF ReadInv, BuiltOnce
<1> QED
  BY <1>4, <1>5, <1>6, <1>7 DEF ReadInv

LEMMA BuildPreserves ==
    ASSUME ReadInv, Build
    PROVE  ReadInv'
<1>1. unread = {} /\ UNCHANGED <<unread, shown, population>>
  BY DEF Build
<1>2. view'.engine = Engine(population) /\ DOMAIN view'.shown = {q \in Player : shown[q] # None}
  BY DEF Build, View
<1>3. BuiltOnce'
  BY <1>1, <1>2 DEF BuiltOnce, Engine
<1>4. ReadTyped' /\ OnePrimary' /\ BestShown'
  BY <1>1 DEF ReadInv, ReadTyped, OnePrimary, Primary, BestShown
<1> QED
  BY <1>3, <1>4 DEF ReadInv

\* A request changes nothing that was read, nor does a row that is left out.
LEMMA OthersPreserve ==
    ASSUME ReadInv, UNCHANGED <<shown, population, view>>, unread' \subseteq unread
    PROVE  ReadInv'
BY DEF ReadInv, ReadTyped, OnePrimary, Primary, BestShown, BuiltOnce

LEMMA ReadNext ==
    ASSUME ReadInv, [Next]_vars
    PROVE  ReadInv'
<1>1. ASSUME NEW row \in unread,
             SkipUnknown(row) \/ SkipWithoutPosition(row) \/ ReadShown(row) \/ ReadSuperseded(row)
      PROVE  ReadInv'
  <2>1. CASE SkipUnknown(row) \/ SkipWithoutPosition(row)
    BY <2>1, OthersPreserve DEF SkipUnknown, SkipWithoutPosition
  <2>2. CASE ReadShown(row)
    BY <2>2, ReadShownPreserves
  <2>3. CASE ReadSuperseded(row)
    BY <2>3, ReadSupersededPreserves
  <2> QED
    BY <1>1, <2>1, <2>2, <2>3
<1>2. CASE Build
  BY <1>2, BuildPreserves
<1>3. CASE UNCHANGED <<unread, shown, population, view>>
  BY <1>3, OthersPreserve
<1>4. ASSUME NEW f,
             \/ \E weights \in Weighting \cup Presets : RecruitmentSearch(weights, f)
             \/ \E p \in Player : ReplacementSearch(p, f)
             \/ \E sort \in Sorts : List(f, sort)
      PROVE  UNCHANGED <<unread, shown, population, view>>
  BY <1>4 DEF RecruitmentSearch, ReplacementSearch, List
<1>5. ASSUME \/ (\E c \in Screen : Opportunities(c)) \/ (\E p \in Player : Profile(p)) \/ Scores
             \/ \E selected \in SUBSET Player, scope \in Scopes : Compare(selected, scope)
      PROVE  UNCHANGED <<unread, shown, population, view>>
  BY <1>5 DEF Opportunities, Profile, Scores, Compare
<1>6. UNCHANGED vars => UNCHANGED <<unread, shown, population, view>>
  BY DEF vars
<1> QED
  BY <1>1, <1>2, <1>3, <1>4, <1>5, <1>6 DEF Next

-----------------------------------------------------------------------------

\* What a comparison across competitions is made of.
LEMMA OncePerPlayer ==
    ASSUME ReadInv, view # None, NEW s, NEW q \in Player
    PROVE  Cardinality({r \in Population(view.engine, s, Everywhere) : r.season.player = q}) <= 1
<1> DEFINE mine == {r \in Population(view.engine, s, Everywhere) : r.season.player = q}
           one == {[season |-> shown[q], primary |-> TRUE]}
<1>1. mine \subseteq Primary(q)
  BY DEF ReadInv, BuiltOnce, Population, Peers, Primary
<1>2. mine \subseteq one
  BY <1>1 DEF ReadInv, OnePrimary
<1>3. IsFiniteSet(one) /\ Cardinality(one) = 1
  BY FS_Singleton
<1> HIDE DEF mine, one
<1>4. Cardinality(mine) <= 1
  BY <1>2, <1>3, FS_Subset
<1> QED
  BY <1>4 DEF mine

\* In whatever order the rows of a load are returned (analytics_service.py
\* build_view), a player is represented by the row with the most minutes, that row
\* alone stands for it where competitions are compared with each other, and a
\* player of several competitions is in such a comparison once.
THEOREM PlayersAreRankedOnce == Spec => []RankedOnce
<1>1. Init => ReadInv
  <2> SUFFICES ASSUME Init PROVE ReadInv
    OBVIOUS
  <2>1. /\ unread \in Universes /\ shown = [p \in Player |-> None]
        /\ population = {} /\ view = None
    BY DEF Init
  <2> QED
    BY <2>1 DEF ReadInv, ReadTyped, OnePrimary, Primary, BestShown, BuiltOnce, SeasonRow
<1>2. ReadInv /\ [Next]_vars => ReadInv'
  BY ReadNext
<1>3. ReadInv => RankedOnce
  <2> SUFFICES ASSUME ReadInv PROVE RankedOnce
    OBVIOUS
  <2>1. ASSUME NEW p \in Player
        PROVE  /\ {r \in {x \in population : x.season.player = p} : r.primary}
                    = IF shown[p] = None THEN {} ELSE {[season |-> shown[p], primary |-> TRUE]}
               /\ \A r \in {x \in population : x.season.player = p} :
                    r.season = shown[p] \/ NoBetter(r.season, shown[p])
    <3>1. {r \in {x \in population : x.season.player = p} : r.primary} = Primary(p)
      BY DEF Primary
    <3> QED
      BY <3>1 DEF ReadInv, OnePrimary, BestShown
  <2>2. ASSUME view # None, NEW p \in DOMAIN view.shown, NEW q \in DOMAIN view.shown
        PROVE  Cardinality({r \in Population(view.engine, view.shown[p], Everywhere) :
                                r.season.player = q}) <= 1
    <3>1. q \in Player
      BY <2>2 DEF ReadInv, BuiltOnce
    <3> QED
      BY <2>2, <3>1, OncePerPlayer
  <2> QED
    BY <2>1, <2>2 DEF RankedOnce
<1> QED
  BY <1>1, <1>2, <1>3, PTL DEF Spec

-----------------------------------------------------------------------------
(* What is answered, and from which view *)

\* What is shown once all rows are read.
Showing == [p \in {q \in Player : shown[q] # None} |-> shown[p]]

ViewIs ==
    /\ IsFiniteSet(population)
    /\ \A p \in Player : shown[p] # None => shown[p].group # None
    /\ view # None => unread = {} /\ view = View(population, Showing)

\* Every answer is that of its handler for the view that was built.
AnswerIs ==
    \/ /\ answer.kind = "search"
       /\ \E weights \in Weighting \cup Presets, f \in Filter :
            (\E k \in Score : weights[k] > 0) /\ answer = SearchAnswer(view, weights, f)
    \/ /\ answer.kind = "replacement"
       /\ \E p \in DOMAIN view.shown, f \in Filter : answer = ReplacementAnswer(view, p, f)
    \/ /\ answer.kind = "opportunities"
       /\ \E c \in Screen : answer = OpportunitiesAnswer(view, c)
    \/ /\ answer.kind = "profile"
       /\ \E p \in DOMAIN view.shown : answer.page = ProfilePage(view, p, Limit)
    \/ answer.kind = "scores" /\ answer.blocked = Blocked(view)
    \/ /\ answer.kind = "comparison"
       /\ \E chosen \in SUBSET DOMAIN view.shown, scope \in {"competition", "global"} :
            answer = ComparisonPage(view, chosen, scope)
    \/ answer.kind \in {"list", "error"}

AnswerInv ==
    /\ ReadInv /\ ViewIs
    /\ answer # None => view # None /\ AnswerIs

LEMMA AnswerKinds ==
    ASSUME NEW v
    PROVE  /\ \A weights, f : SearchAnswer(v, weights, f).kind = "search"
           /\ \A p, f : ReplacementAnswer(v, p, f).kind = "replacement"
           /\ \A c : OpportunitiesAnswer(v, c).kind = "opportunities"
<1>1. ASSUME NEW weights, NEW f PROVE SearchAnswer(v, weights, f).kind = "search"
  BY DEF SearchAnswer, SearchScored, SearchListed, SearchRanked, SearchResults
<1>2. ASSUME NEW p, NEW f PROVE ReplacementAnswer(v, p, f).kind = "replacement"
  BY DEF ReplacementAnswer, Replacements, ReplacementsOrdered
<1>3. ASSUME NEW c PROVE OpportunitiesAnswer(v, c).kind = "opportunities"
  BY DEF OpportunitiesAnswer
<1> QED
  BY <1>1, <1>2, <1>3

\* A request answers from the view, which stays.
LEMMA AnswersAre ==
    ASSUME AnswerInv, view # None, UNCHANGED <<unread, shown, population, view>>, AnswerIs'
    PROVE  AnswerInv'
<1>1. ReadInv'
  BY OthersPreserve DEF AnswerInv
<1>2. Showing' = Showing
  BY DEF Showing
<1>3. ViewIs'
  BY <1>2 DEF AnswerInv, ViewIs, View
<1> QED
  BY <1>1, <1>3 DEF AnswerInv

LEMMA ReadingAnswersNothing ==
    ASSUME AnswerInv, view = None, UNCHANGED <<view, answer>>, ReadInv', IsFiniteSet(population'),
           \A p \in Player : shown'[p] # None => shown'[p] = shown[p] \/ shown'[p].group # None
    PROVE  AnswerInv'
BY DEF AnswerInv, ViewIs

LEMMA SingletonsAdded ==
    ASSUME NEW S, IsFiniteSet(S), NEW x
    PROVE  IsFiniteSet(S \cup {x})
BY FS_AddElement

LEMMA AnswerNext ==
    ASSUME AnswerInv, [Next]_vars
    PROVE  AnswerInv'
<1>0. ReadInv'
  BY ReadNext DEF AnswerInv
<1>1. ASSUME NEW row \in unread,
             SkipUnknown(row) \/ SkipWithoutPosition(row) \/ ReadShown(row) \/ ReadSuperseded(row)
      PROVE  AnswerInv'
  <2>1. view = None /\ UNCHANGED <<view, answer>>
    BY <1>1 DEF AnswerInv, ViewIs, SkipUnknown, SkipWithoutPosition, ReadShown, ReadSuperseded
  <2>2. IsFiniteSet(population)
    BY DEF AnswerInv, ViewIs
  <2>3. CASE SkipUnknown(row) \/ SkipWithoutPosition(row)
    <3>1. population' = population /\ shown' = shown
      BY <2>3 DEF SkipUnknown, SkipWithoutPosition
    <3> QED
      BY <1>0, <2>1, <2>2, <3>1, ReadingAnswersNothing
  <2>4. CASE ReadShown(row)
    <3>1. PICK a : a = (IF shown[row.player] = None THEN population
                        ELSE population \ {[season |-> shown[row.player], primary |-> TRUE]})
      OBVIOUS
    <3>2. IsFiniteSet(a)
      BY <2>2, <3>1, FS_Subset
    <3>3. \/ population' = a \cup {[season |-> row, primary |-> TRUE]}
          \/ population' = (a \cup {[season |-> shown[row.player], primary |-> FALSE]})
                              \cup {[season |-> row, primary |-> TRUE]}
      BY <2>4, <3>1 DEF ReadShown, Demoted
    <3>4. \A S, x : IsFiniteSet(S) => IsFiniteSet(S \cup {x})
      BY SingletonsAdded
    <3>5. IsFiniteSet(population')
      <4>1. CASE population' = a \cup {[season |-> row, primary |-> TRUE]}
        BY <3>2, <3>4, <4>1, Zenon
      <4>2. CASE population' = (a \cup {[season |-> shown[row.player], primary |-> FALSE]})
                                  \cup {[season |-> row, primary |-> TRUE]}
        <5>1. IsFiniteSet(a \cup {[season |-> shown[row.player], primary |-> FALSE]})
          BY <3>2, <3>4, Zenon
        <5> QED
          BY <3>4, <4>2, <5>1, Zenon
      <4> QED
        BY <3>3, <4>1, <4>2
    <3>6. \A p \in Player : shown'[p] = shown[p] \/ shown'[p].group # None
      <4>1. shown' = [shown EXCEPT ![row.player] = row] /\ row.group # None
        BY <2>4 DEF ReadShown
      <4>2. DOMAIN shown = Player
        BY DEF AnswerInv, ReadInv, ReadTyped
      <4> QED
        BY <4>1, <4>2
    <3> QED
      BY <1>0, <2>1, <3>5, <3>6, ReadingAnswersNothing
  <2>5. CASE ReadSuperseded(row)
    <3>1. population' = population \cup {[season |-> row, primary |-> FALSE]} /\ shown' = shown
      BY <2>5 DEF ReadSuperseded
    <3>2. \A S, x : IsFiniteSet(S) => IsFiniteSet(S \cup {x})
      BY SingletonsAdded
    <3>3. IsFiniteSet(population')
      BY <2>2, <3>1, <3>2, Zenon
    <3>4. \A p \in Player : shown'[p] # None => shown'[p] = shown[p]
      BY <3>1
    <3> QED
      BY <1>0, <2>1, <3>3, <3>4, ReadingAnswersNothing
  <2> QED
    BY <1>1, <2>3, <2>4, <2>5
<1>2. CASE Build
  <2>1. view' = View(population, Showing) /\ unread = {} /\ view = None
        /\ UNCHANGED <<unread, shown, population, answer>>
    BY <1>2 DEF Build, Showing
  <2>2. answer = None
    BY <2>1 DEF AnswerInv
  <2>3. Showing' = Showing
    BY <2>1 DEF Showing
  <2>4. ViewIs'
    BY <2>1, <2>3 DEF AnswerInv, ViewIs
  <2> QED
    BY <1>0, <2>1, <2>2, <2>4 DEF AnswerInv
<1>3. ASSUME NEW f \in Filter, NEW weights \in Weighting \cup Presets, RecruitmentSearch(weights, f)
      PROVE  AnswerInv'
  <2>1. /\ view # None /\ UNCHANGED <<unread, shown, population, view>>
        /\ \E k \in Score : weights[k] > 0
        /\ answer' = SearchAnswer(view, weights, f)
    BY <1>3 DEF RecruitmentSearch, Asked
  <2>2. answer'.kind = "search" /\ answer' = SearchAnswer(view', weights, f)
    BY <2>1, AnswerKinds
  <2>3. AnswerIs'
    BY <2>1, <2>2 DEF AnswerIs
  <2> QED
    BY <2>1, <2>3, AnswersAre
<1>4. ASSUME NEW f \in Filter, NEW p \in Player, ReplacementSearch(p, f)
      PROVE  AnswerInv'
  <2>1. /\ view # None /\ p \in DOMAIN view.shown /\ UNCHANGED <<unread, shown, population, view>>
        /\ answer' = ReplacementAnswer(view, p, f)
    BY <1>4 DEF ReplacementSearch, Asked
  <2>2. answer'.kind = "replacement" /\ answer' = ReplacementAnswer(view', p, f)
    BY <2>1, AnswerKinds
  <2>3. AnswerIs'
    BY <2>1, <2>2 DEF AnswerIs
  <2> QED
    BY <2>1, <2>3, AnswersAre
<1>5. ASSUME NEW f \in Filter, NEW sort \in Sorts, List(f, sort)
      PROVE  AnswerInv'
  <2>1. view # None /\ UNCHANGED <<unread, shown, population, view>> /\ answer'.kind = "list"
    BY <1>5 DEF List, Asked
  <2>2. AnswerIs'
    BY <2>1 DEF AnswerIs
  <2> QED
    BY <2>1, <2>2, AnswersAre
<1>6. ASSUME NEW c \in Screen, Opportunities(c)
      PROVE  AnswerInv'
  <2>1. /\ view # None /\ UNCHANGED <<unread, shown, population, view>>
        /\ answer'.kind = "error" \/ answer' = OpportunitiesAnswer(view, c)
    <3>1. /\ view # None /\ UNCHANGED <<unread, shown, population, view>>
          /\ answer' = [kind |-> "error"] \/ answer' = OpportunitiesAnswer(view, c)
      BY <1>6 DEF Opportunities, Asked
    <3> QED
      BY <3>1
  <2>2. AnswerIs'
    <3>1. CASE answer'.kind = "error"
      BY <3>1 DEF AnswerIs
    <3>2. CASE answer' = OpportunitiesAnswer(view, c)
      <4>1. answer'.kind = "opportunities" /\ answer' = OpportunitiesAnswer(view', c)
        BY <2>1, <3>2, AnswerKinds
      <4> QED
        BY <4>1 DEF AnswerIs
    <3> QED
      BY <2>1, <3>1, <3>2
  <2> QED
    BY <2>1, <2>2, AnswersAre
<1>7. ASSUME NEW p \in Player, Profile(p)
      PROVE  AnswerInv'
  <2>1. /\ view # None /\ p \in DOMAIN view.shown /\ UNCHANGED <<unread, shown, population, view>>
        /\ answer'.kind = "profile" /\ answer'.page = ProfilePage(view, p, Limit)
    BY <1>7 DEF Profile, Asked
  <2>2. answer'.page = ProfilePage(view', p, Limit) /\ p \in DOMAIN view'.shown
    BY <2>1
  <2>3. AnswerIs'
    BY <2>1, <2>2 DEF AnswerIs
  <2> QED
    BY <2>1, <2>3, AnswersAre
<1>8. CASE Scores
  <2>1. /\ view # None /\ UNCHANGED <<unread, shown, population, view>>
        /\ answer'.kind = "scores" /\ answer'.blocked = Blocked(view)
    BY <1>8 DEF Scores, Asked
  <2>2. answer'.blocked = Blocked(view')
    BY <2>1
  <2>3. AnswerIs'
    BY <2>1, <2>2 DEF AnswerIs
  <2> QED
    BY <2>1, <2>3, AnswersAre
<1>9. ASSUME NEW selected \in SUBSET Player, NEW scope \in Scopes, Compare(selected, scope)
      PROVE  AnswerInv'
  <2> DEFINE chosen == selected \cap DOMAIN view.shown
  <2>1. view # None /\ UNCHANGED <<unread, shown, population, view>>
    BY <1>9 DEF Compare, Asked
  <2>2. CASE scope = "league_group"
    <3>1. answer' = [kind |-> "error"]
      BY <1>9, <2>2 DEF Compare
    <3>2. AnswerIs'
      BY <3>1 DEF AnswerIs
    <3> QED
      BY <2>1, <3>2, AnswersAre
  <2>3. CASE scope # "league_group"
    <3>1. answer' = ComparisonPage(view', chosen, scope) /\ scope \in {"competition", "global"}
      BY <1>9, <2>1, <2>3 DEF Compare, Scopes
    <3>2. answer'.kind = "comparison"
      BY <3>1 DEF ComparisonPage
    <3>3. chosen \in SUBSET DOMAIN view'.shown
      BY <2>1
    <3> HIDE DEF chosen
    <3>4. AnswerIs'
      BY <3>1, <3>2, <3>3 DEF AnswerIs
    <3> QED
      BY <2>1, <3>4, AnswersAre
  <2> QED
    BY <2>2, <2>3
<1>10. CASE UNCHANGED vars
  <2>1. UNCHANGED <<unread, shown, population, view, answer>>
    BY <1>10 DEF vars
  <2>2. Showing' = Showing /\ (AnswerIs' <=> AnswerIs)
    BY <2>1 DEF Showing, AnswerIs
  <2> QED
    BY <1>0, <2>1, <2>2 DEF AnswerInv, ViewIs
<1> QED
  BY <1>1, <1>2, <1>3, <1>4, <1>5, <1>6, <1>7, <1>8, <1>9, <1>10 DEF Next

LEMMA AnswerInit == Init => AnswerInv
<1> SUFFICES ASSUME Init PROVE AnswerInv
  OBVIOUS
<1>1. /\ unread \in Universes /\ shown = [p \in Player |-> None]
      /\ population = {} /\ view = None /\ answer = None
  BY DEF Init
<1>2. ReadInv
  BY <1>1 DEF ReadInv, ReadTyped, OnePrimary, Primary, BestShown, BuiltOnce, SeasonRow
<1> QED
  BY <1>1, <1>2, FS_EmptySet DEF AnswerInv, ViewIs

\* What the proofs about answers need of the view.
LEMMA ViewFacts ==
    ASSUME AnswerInv, view # None
    PROVE  /\ view.shown = Showing /\ IsFiniteSet(view.engine)
           /\ DOMAIN view.shown \subseteq Player /\ IsFiniteSet(DOMAIN view.shown)
           /\ \A p \in DOMAIN view.shown :
                /\ view.shown[p] \in SeasonRow /\ view.shown[p].player = p
                /\ view.shown[p].group \in Group
           /\ view.fits = NormaliseFits([p \in DOMAIN view.shown |-> Fits(view.engine, view.shown[p])])
<1>1. view = View(population, Showing) /\ IsFiniteSet(population)
  BY DEF AnswerInv, ViewIs
<1>2. view.shown = Showing /\ view.engine = Engine(population)
  BY <1>1 DEF View
<1>3. IsFiniteSet(view.engine)
  BY <1>1, <1>2, FS_Subset DEF Engine
<1>4. DOMAIN Showing = {q \in Player : shown[q] # None} /\ \A p \in DOMAIN Showing : Showing[p] = shown[p]
  BY DEF Showing
<1>5. DOMAIN view.shown \subseteq Player /\ IsFiniteSet(DOMAIN view.shown)
  BY <1>2, <1>4, FS_Subset, UniverseAssumption
<1>6. \A p \in DOMAIN view.shown :
            /\ view.shown[p] \in SeasonRow /\ view.shown[p].player = p
            /\ view.shown[p].group \in Group
  <2> TAKE p \in DOMAIN view.shown
  <2>1. /\ view.shown[p] \in SeasonRow /\ view.shown[p].player = p
        /\ view.shown[p].group # None
    BY <1>2, <1>4 DEF AnswerInv, ReadInv, ReadTyped, ViewIs
  <2>2. view.shown[p].group \in Group \cup {None}
    BY <2>1, UniverseAssumption DEF SeasonRow
  <2> QED
    BY <2>1, <2>2
<1>7. view.fits = NormaliseFits([p \in DOMAIN view.shown |-> Fits(view.engine, view.shown[p])])
  <2>1. view.fits = NormaliseFits([p \in DOMAIN Showing |->
                        RawFit(Engine(population), Showing[p], "competition", {})])
    BY <1>1 DEF View
  <2>2. \A p \in DOMAIN Showing : RawFit(Engine(population), Showing[p], "competition", {})
                                    = Fits(Engine(population), Showing[p])
    BY <1>2, <1>3, FitsAre
  <2>3. [p \in DOMAIN Showing |-> RawFit(Engine(population), Showing[p], "competition", {})]
            = [p \in DOMAIN Showing |-> Fits(Engine(population), Showing[p])]
    BY <2>2
  <2> QED
    BY <1>2, <2>1, <2>3
<1> QED
  BY <1>2, <1>3, <1>5, <1>6, <1>7

-----------------------------------------------------------------------------
(* Presets: their weights are numbers *)

LEMMA NearestIsNat ==
    ASSUME NEW x \in Nat, NEW d \in Nat \ {0}
    PROVE  Nearest(x, d) \in Nat
<1>1. PICK w : w = x \div d
  OBVIOUS
<1>2. w \in Nat
  BY <1>1
<1> QED
  BY <1>1, <1>2 DEF Nearest

LEMMA RoundedIsInt ==
    ASSUME NEW weights, DOMAIN weights = Score, \A k \in Score : weights[k] \in Nat,
           SumFunction(weights) # 0
    PROVE  \A k \in Score : RoundToStep(weights)[k] \in Int
<1>1. IsFiniteSet(Score)
  BY ConfigurationAssumption
<1>2. PICK all \in Nat : all = SumFunction(weights) /\ all # 0
  BY <1>1, SumFunctionIsNat
<1> DEFINE rounded == [k \in DOMAIN weights |-> PresetStep * Nearest(100 * weights[k], PresetStep * all)]
           residue == 100 - SumFunction(rounded)
           largest == CHOOSE k \in DOMAIN rounded : \A j \in DOMAIN rounded : rounded[k] >= rounded[j]
<1>3. RoundToStep(weights) = [rounded EXCEPT ![largest] = Max({PresetStep, @ + residue})]
  BY <1>2 DEF RoundToStep
<1>4. DOMAIN rounded = Score /\ \A k \in Score : rounded[k] \in Nat
  <2>1. ASSUME NEW k \in Score PROVE PresetStep * Nearest(100 * weights[k], PresetStep * all) \in Nat
    <3>1. 100 * weights[k] \in Nat /\ PresetStep * all \in Nat \ {0}
      BY <1>2 DEF PresetStep
    <3>2. Nearest(100 * weights[k], PresetStep * all) \in Nat
      BY <3>1, NearestIsNat
    <3> QED
      BY <3>2 DEF PresetStep
  <2> QED
    BY <2>1
<1> HIDE DEF rounded
<1>5. residue \in Int
  <2>1. SumFunction(rounded) \in Nat
    BY <1>1, <1>4, SumFunctionIsNat
  <2> QED
    BY <2>1
<1> HIDE DEF residue, largest
<1>6. ASSUME NEW k \in Score PROVE RoundToStep(weights)[k] \in Int
  <2>1. CASE k = largest
    <3>1. RoundToStep(weights)[k] = Max({PresetStep, rounded[k] + residue})
      BY <1>3, <1>4, <2>1
    <3>2. rounded[k] + residue \in Int /\ PresetStep \in Int
      BY <1>4, <1>5 DEF PresetStep
    <3>3. PICK n \in Int : n = rounded[k] + residue
      BY <3>2
    <3> HIDE DEF PresetStep
    <3> QED
      BY <3>1, <3>2, <3>3, LeastAndGreatest
  <2>2. CASE k # largest
    <3>1. RoundToStep(weights)[k] = rounded[k]
      BY <1>3, <1>4, <2>2
    <3> QED
      BY <1>4, <3>1
  <2> QED
    BY <2>1, <2>2
<1> QED
  BY <1>6

LEMMA PresetsAreWhole ==
    ASSUME NEW weights \in Presets
    PROVE  \A k \in Score : weights[k] \in Int
<1>1. PICK role \in Role : weights = Derive(role) /\ weights # None
  BY DEF Presets
<1> DEFINE r == Configured[role]
           Parts == FoldFunction(LAMBDA a, b : a * b, 1, [i \in 1 .. Cardinality(Score) |-> i])
           share(m) == (Parts * r.metrics[m]) \div Cardinality(Owners(m))
           through(k) == [m \in {n \in DOMAIN r.metrics : k \in Owners(n)} |-> share(m)]
           own(k) == IF k \in DOMAIN r.scores THEN Parts * r.scores[k] ELSE 0
           carried == [k \in Score |-> SumFunction(through(k)) + own(k)]
           total == SumFunction(r.metrics) + SumFunction(r.scores)
           all == SumFunction(carried)
<1>2. Derive(role) = IF all = 0 \/ 100 * all < MinimumExpressible * Parts * total THEN None
                     ELSE RoundToStep(carried)
  BY DEF Derive
<1>3. all # 0 /\ weights = RoundToStep(carried)
  BY <1>1, <1>2
<1>4. IsFiniteSet(Score) /\ Cardinality(Score) \in Nat
  BY ConfigurationAssumption, FS_CardinalityType
<1>5. Parts \in Nat \ {0}
  BY <1>4, ProductIsPositive
<1>6. /\ IsFiniteSet(DOMAIN r.metrics) /\ \A m \in DOMAIN r.metrics : r.metrics[m] \in Nat
      /\ \A k \in DOMAIN r.scores : r.scores[k] \in Nat
  BY RoleIsValid
<1> HIDE DEF Parts, r
<1>7. ASSUME NEW k \in Score PROVE carried[k] \in Nat
  <2>1. ASSUME NEW m \in DOMAIN r.metrics, k \in Owners(m) PROVE share(m) \in Nat
    <3>1. IsFiniteSet(Owners(m)) /\ Owners(m) # {}
      BY <1>4, <2>1, FS_Subset DEF Owners
    <3>2. Cardinality(Owners(m)) \in Nat \ {0}
      BY <3>1, FS_CardinalityType, FS_EmptySet
    <3>3. PICK d \in Nat \ {0} : d = Cardinality(Owners(m))
      BY <3>2
    <3>4. Parts * r.metrics[m] \in Nat
      BY <1>5, <1>6
    <3>5. (Parts * r.metrics[m]) \div d \in Nat
      BY <3>4
    <3> QED
      BY <3>3, <3>5
  <2>2. DOMAIN through(k) = {n \in DOMAIN r.metrics : k \in Owners(n)}
        /\ \A m \in DOMAIN through(k) : through(k)[m] = share(m)
    OBVIOUS
  <2> HIDE DEF share, through
  <2>3. IsFiniteSet(DOMAIN through(k)) /\ \A m \in DOMAIN through(k) : through(k)[m] \in Nat
    BY <1>6, <2>1, <2>2, FS_Subset
  <2>4. SumFunction(through(k)) \in Nat
    BY <2>3, SumFunctionIsNat
  <2>5. own(k) \in Nat
    BY <1>5, <1>6
  <2> HIDE DEF own
  <2>6. SumFunction(through(k)) + own(k) \in Nat
    BY <2>4, <2>5
  <2> QED
    BY <2>6
<1>8. DOMAIN carried = Score
  OBVIOUS
<1> HIDE DEF carried
<1> QED
  BY <1>3, <1>7, <1>8, RoundedIsInt

LEMMA RequestedAreWhole ==
    ASSUME NEW weights \in Weighting \cup Presets
    PROVE  \A k \in Score : weights[k] \in Int
BY RequestAssumption, PresetsAreWhole

-----------------------------------------------------------------------------
(* Searches *)

Used(weights) == {k \in Score : weights[k] > 0}
SearchComponents(v, weights, p) ==
    [k \in Used(weights) |->
        [weight |-> weights[k], value |-> Intelligence(v.engine, v.shown[p], k, "global", {}).score]]
SearchScore(v, weights, p) == Weighted(SearchComponents(v, weights, p), 100).score
Found(v, weights, f) ==
    {p \in DOMAIN v.shown : PassesFilters(v.shown[p], f) /\ SearchScore(v, weights, p) # None}
SearchList(v, weights, f) ==
    [p \in Found(v, weights, f) |->
        [value |-> SearchScore(v, weights, p), minutes |-> v.shown[p].minutes]]

LEMMA SearchIs ==
    ASSUME NEW v, NEW weights, NEW f, Used(weights) # {}
    PROVE  LET a == SearchAnswer(v, weights, f)
               list == SearchList(v, weights, f)
           IN  /\ a.used = Used(weights)
               /\ a.items = {[ player |-> p, raw |-> list[p].value, minutes |-> list[p].minutes,
                               ranked |-> RankByEvidence(list, None)[p] ] : p \in DOMAIN list}
               /\ a.caveat <=> \E x \in a.items :
                    Caveat(Intelligence(v.engine, v.shown[x.player], CHOOSE k \in Used(weights) : TRUE,
                                        "global", {}).context)
               /\ a.kind = "search"
<1> DEFINE used == Used(weights)
           considered == {q \in DOMAIN v.shown : PassesFilters(v.shown[q], f)}
           scores == [p \in considered |-> ScoresIn(v, p, used, "global")]
           result(p) == Weighted([k \in used |->
                            [weight |-> weights[k], value |-> scores[p][k].score]], 100)
           list == [p \in {q \in DOMAIN scores : result(q).score # None} |->
                        [value |-> result(p).score, minutes |-> v.shown[p].minutes]]
<1>1. SearchAnswer(v, weights, f) = SearchListed(used, scores, list)
  BY DEF SearchAnswer, SearchScored, Used
<1>2. \A p \in considered : \A k \in used :
        scores[p][k] = Intelligence(v.engine, v.shown[p], k, "global", {})
  BY DEF ScoresIn, ScoreAll
<1>3. \A p \in considered : result(p).score = SearchScore(v, weights, p)
  <2> TAKE p \in considered
  <2>1. [k \in used |-> [weight |-> weights[k], value |-> scores[p][k].score]]
            = SearchComponents(v, weights, p)
    BY <1>2 DEF SearchComponents
  <2> HIDE DEF scores, used
  <2> QED
    BY <2>1 DEF SearchScore
<1>4. list = SearchList(v, weights, f)
  <2>1. {q \in DOMAIN scores : result(q).score # None} = Found(v, weights, f)
    BY <1>3 DEF Found
  <2>2. Found(v, weights, f) \subseteq considered
    BY DEF Found
  <2> HIDE DEF considered, scores, result
  <2>3. list = [p \in Found(v, weights, f) |->
                    [value |-> result(p).score, minutes |-> v.shown[p].minutes]]
    BY <2>1
  <2> QED
    BY <1>3, <2>2, <2>3 DEF SearchList
<1> HIDE DEF list, result
<1> DEFINE final == SearchList(v, weights, f)
           items == {[ player |-> p, raw |-> final[p].value, minutes |-> final[p].minutes,
                               ranked |-> RankByEvidence(final, None)[p] ] : p \in DOMAIN final}
           a == SearchAnswer(v, weights, f)
<1>5. /\ a.used = used /\ a.items = items /\ a.kind = "search"
      /\ a.caveat = \E x \in items : Caveat(scores[x.player][CHOOSE k \in used : TRUE].context)
  BY <1>1, <1>4 DEF SearchListed, SearchRanked, SearchResults
<1>6. DOMAIN final \subseteq considered
  BY DEF SearchList, Found
<1>7. ASSUME NEW x \in items
      PROVE  scores[x.player][CHOOSE k \in used : TRUE]
                = Intelligence(v.engine, v.shown[x.player], CHOOSE k \in used : TRUE, "global", {})
  <2>1. PICK p \in DOMAIN final : x.player = p
    OBVIOUS
  <2> HIDE DEF final
  <2>2. p \in considered
    BY <1>6
  <2>3. scores[p] = [k \in used |-> Intelligence(v.engine, v.shown[p], k, "global", {})]
    BY <2>2 DEF ScoresIn, ScoreAll
  <2>4. (CHOOSE k \in used : TRUE) \in used
    OBVIOUS
  <2> QED
    BY <2>1, <2>3, <2>4
<1> QED
  BY <1>5, <1>7

\* What is searched by is made of numbers, and what was found is one.
LEMMA SearchIsMade ==
    ASSUME AnswerInv, view # None, NEW weights \in Weighting \cup Presets, NEW p \in DOMAIN view.shown
    PROVE  /\ Weighable(SearchComponents(view, weights, p))
           /\ SearchScore(view, weights, p) \in Int \cup {None}
<1>1. IsFiniteSet(view.engine)
  BY ViewFacts
<1>2. IsFiniteSet(Used(weights)) /\ \A k \in Used(weights) : k \in Score /\ weights[k] \in Nat \ {0}
  <2>1. IsFiniteSet(Used(weights))
    BY ConfigurationAssumption, FS_Subset DEF Used
  <2>2. \A k \in Used(weights) : k \in Score /\ weights[k] > 0 /\ weights[k] \in Int
    BY RequestedAreWhole DEF Used
  <2> QED
    BY <2>1, <2>2
<1>3. \A k \in Used(weights) :
        Intelligence(view.engine, view.shown[p], k, "global", {}).score \in Int \cup {None}
  BY <1>1, <1>2, ScoreIs
<1>4. Weighable(SearchComponents(view, weights, p))
  BY <1>2, <1>3 DEF SearchComponents, Weighable
<1> QED
  BY <1>4, WeightedIsInt DEF SearchScore

\* A search is for all that it asks: a score that is missing leaves nothing.
LEMMA AllAreNeeded ==
    ASSUME NEW components, Weighable(components), NEW c \in DOMAIN components,
           components[c].value = None
    PROVE  Weighted(components, 100).score = None
<1>1. Given(components) \subseteq DOMAIN components /\ Given(components) # DOMAIN components
  BY DEF Given
<1>2. /\ WeightOf(components, Given(components)) \in Nat
      /\ WeightOf(components, DOMAIN components) \in Nat
      /\ WeightOf(components, Given(components)) < WeightOf(components, DOMAIN components)
  BY <1>1, WeightsOfParts
<1>3. CoverageBelow(components, 100)
  BY <1>2 DEF CoverageBelow
<1> QED
  BY <1>3, WeightedIsInt

\* What the builder is told cannot be produced (analytics_service.py
\* unproducible_scores, routes list_recruitment_scores) is given to no player of
\* the load, in its own competition or across all of them, and a search that asks
\* for it ranks nobody.
THEOREM UnproducibleAreNobodys == Spec => []UnproducibleIsNobodys
<1>1. AnswerInv => UnproducibleIsNobodys
  <2> SUFFICES ASSUME AnswerInv, answer # None PROVE UnproducibleIsNobodys
    BY DEF UnproducibleIsNobodys
  <2>1. view # None /\ AnswerIs
    BY DEF AnswerInv
  <2>2. IsFiniteSet(view.engine)
    BY <2>1, ViewFacts
  <2>3. ASSUME NEW k \in Blocked(view), NEW p \in DOMAIN view.shown,
               NEW scope \in {"competition", "global"}
        PROVE  k \in Score /\ Intelligence(view.engine, view.shown[p], k, scope, {}).score = None
    <3> DEFINE present == UNION {Available(view.shown[q]) : q \in DOMAIN view.shown}
    <3>1. k \in Unproducible(present) /\ Available(view.shown[p]) \subseteq present
      BY DEF Blocked
    <3> HIDE DEF present
    <3>2. k \in Score
      BY <3>1 DEF Unproducible
    <3> QED
      BY <2>2, <3>1, <3>2, UnproducibleIsNone
  <2>4. CASE answer.kind = "scores"
    <3>1. answer.blocked = Blocked(view)
      BY <2>1, <2>4 DEF AnswerIs
    <3> QED
      BY <2>3, <2>4, <3>1 DEF UnproducibleIsNobodys
  <2>5. CASE answer.kind = "search"
    <3>1. PICK weights \in Weighting \cup Presets, f \in Filter :
            (\E k \in Score : weights[k] > 0) /\ answer = SearchAnswer(view, weights, f)
      BY <2>1, <2>5 DEF AnswerIs
    <3>2. Used(weights) # {}
      BY <3>1 DEF Used
    <3> DEFINE list == SearchList(view, weights, f)
    <3>3. /\ answer.used = Used(weights)
          /\ answer.items = {[ player |-> p, raw |-> list[p].value, minutes |-> list[p].minutes,
                               ranked |-> RankByEvidence(list, None)[p] ] : p \in DOMAIN list}
      BY <3>1, <3>2, SearchIs
    <3> SUFFICES ASSUME NEW k \in Used(weights), k \in Blocked(view)
                 PROVE  answer.items = {}
      BY <2>5, <3>3 DEF UnproducibleIsNobodys
    <3>4. DOMAIN list = {}
      <4> SUFFICES ASSUME NEW p \in DOMAIN list PROVE FALSE
        OBVIOUS
      <4>1. p \in DOMAIN view.shown /\ SearchScore(view, weights, p) # None
        BY DEF SearchList, Found
      <4>2. SearchComponents(view, weights, p)[k].value = None
            /\ k \in DOMAIN SearchComponents(view, weights, p)
        BY <2>3, <4>1 DEF SearchComponents
      <4> QED
        BY <2>1, <4>1, <4>2, SearchIsMade, AllAreNeeded DEF SearchScore
    <3> HIDE DEF list
    <3> QED
      BY <3>3, <3>4
  <2> QED
    BY <2>4, <2>5 DEF UnproducibleIsNobodys
<1> QED
  BY <1>1, AnswerInit, AnswerNext, PTL DEF Spec

-----------------------------------------------------------------------------
(* The profile *)

LEMMA BestIs ==
    ASSUME AnswerInv, view # None, NEW p \in DOMAIN view.shown
    PROVE  /\ view.fits[p].best = Best(view, p)
           /\ Best(view, p) # None =>
                /\ Best(view, p).score \in Int /\ Best(view, p).role \in Role
                /\ Best(view, p)
                    = RoleScore(view.engine, view.shown[p], Best(view, p).role, "competition", {})
<1> DEFINE raw == [q \in DOMAIN view.shown |-> Fits(view.engine, view.shown[q])]
<1>1. view.fits = NormaliseFits(raw) /\ IsFiniteSet(view.engine) /\ IsFiniteSet(DOMAIN view.shown)
  BY ViewFacts
<1>2. DOMAIN raw = DOMAIN view.shown /\ \A q \in DOMAIN raw : raw[q] = Fits(view.engine, view.shown[q])
  OBVIOUS
<1> HIDE DEF raw
<1>3. RolesMade(raw)
  BY <1>1, <1>2, FitsAre DEF RolesMade
<1>4. Best(view, p) = BestOf(raw, p)
  BY <1>1, <1>2 DEF Best, NormaliseFits, Fitted
<1>5. Best(view, p) # None => Best(view, p) \in Fits(view.engine, view.shown[p])
  BY <1>2, <1>3, <1>4, BestIsAmong
<1> QED
  BY <1>1, <1>5, FitsAre DEF Best

\* The comparison a page names is that of a metric which was placed.
LEMMA PageContext ==
    ASSUME NEW ranked, NEW m \in ToSet(ProfileMetrics), ranked[m].percentile # None
    PROVE  \E n \in ToSet(ProfileMetrics) :
                ranked[n].percentile # None /\ FirstContext(ranked) = ranked[n].context
<1>1. PICK i \in DOMAIN ProfileMetrics : m = ProfileMetrics[i]
  BY DEF ToSet
<1> DEFINE placed == PlacedOnPage(ranked)
<1>2. placed # {} /\ placed \in SUBSET Nat /\ placed \subseteq DOMAIN ProfileMetrics
  BY <1>1, ProfileAssumption DEF PlacedOnPage
<1>3. Min(placed) \in placed
  <2>1. \E x \in placed : \A y \in placed : x <= y
    BY <1>2, Least
  <2> HIDE DEF placed
  <2> QED
    BY <2>1 DEF Min
<1>4. PICK j \in placed : j = Min(placed)
  BY <1>3
<1>5. ranked[ProfileMetrics[j]].percentile # None /\ j \in DOMAIN ProfileMetrics
  BY <1>4 DEF PlacedOnPage
<1>6. FirstContext(ranked) = ranked[ProfileMetrics[j]].context
  BY <1>2, <1>4 DEF FirstContext
<1> QED
  BY <1>5, <1>6 DEF ToSet

LEMMA ProfileIs ==
    ASSUME NEW v, NEW p
    PROVE  LET page == ProfilePage(v, p, Limit)
               ranked == RankIn(v, p, ToSet(ProfileMetrics), "competition")
           IN  /\ page.player = p /\ page.roles.best = v.fits[p].best
               /\ \A k \in Score : page.stats.scores[k].context
                        = Intelligence(v.engine, v.shown[p], k, "competition", {}).context
               /\ DOMAIN page.stats.metrics \subseteq DOMAIN ranked
               /\ \A m \in DOMAIN page.stats.metrics : page.stats.metrics[m].here = ranked[m].oriented
               /\ page.stats.context = FirstContext(ranked)
<1> DEFINE page == ProfilePage(v, p, Limit)
           here == RankIn(v, p, ToSet(ProfileMetrics), "competition")
           wide == RankIn(v, p, ToSet(ProfileMetrics), "global")
           scores == ScoresIn(v, p, Score, "competition")
           stats == StatsPage(v, p, "competition")
<1>1. page.player = p /\ page.roles = RolesPage(v, p) /\ page.stats = stats
  BY DEF ProfilePage, Assembled
<1>2. RolesPage(v, p).best = v.fits[p].best
  BY DEF RolesPage, RolesShown
<1>3. /\ stats.metrics = [m \in {n \in DOMAIN here : here[n].value # None} |->
                            ToMetric(here[m], wide[m], "competition")]
      /\ stats.context = FirstContext(here)
      /\ stats.scores = [k \in Score |-> ToScore(scores[k], k, v.shown[p])]
  BY DEF StatsPage, StatsShown
<1>4. \A k \in Score : scores[k] = Intelligence(v.engine, v.shown[p], k, "competition", {})
  BY DEF ScoresIn, ScoreAll
<1>5. \A k \in Score : stats.scores[k].context
                        = Intelligence(v.engine, v.shown[p], k, "competition", {}).context
  BY <1>3, <1>4 DEF ToScore
<1>6. /\ DOMAIN stats.metrics \subseteq DOMAIN here
      /\ \A m \in DOMAIN stats.metrics : stats.metrics[m].here = here[m].oriented
  BY <1>3 DEF ToMetric
<1> HIDE DEF page, here, wide, scores, stats
<1> QED
  BY <1>1, <1>2, <1>3, <1>5, <1>6 DEF page, here

\* A comparison across competitions is never shown without saying so: not by a
\* score, not by a role however deep in it the comparison is, not by a search
\* (percentiles.py rank, intelligence.py and roles.py widest_context, recruitment.py
\* recruitment_search); and a profile that shows a percentile names a comparison
\* that had enough in it (players.py get_player_stats).
THEOREM CaveatsTravel == Spec => []CaveatTravels
<1>1. AnswerInv => CaveatTravels
  <2> SUFFICES ASSUME AnswerInv, answer # None PROVE CaveatTravels
    BY DEF CaveatTravels
  <2>1. view # None /\ AnswerIs
    BY DEF AnswerInv
  <2>2. IsFiniteSet(view.engine)
    BY <2>1, ViewFacts
  <2>3. CASE answer.kind = "search"
    <3>1. PICK weights \in Weighting \cup Presets, f \in Filter :
            (\E k \in Score : weights[k] > 0) /\ answer = SearchAnswer(view, weights, f)
      BY <2>1, <2>3 DEF AnswerIs
    <3> DEFINE first == CHOOSE k \in Used(weights) : TRUE
               said(x, k) == Intelligence(view.engine, view.shown[x.player], k, "global", {}).context
    <3>2. Used(weights) # {} /\ first \in Used(weights) /\ Used(weights) \subseteq Score
      BY <3>1 DEF Used
    <3>3. answer.used = Used(weights) /\ (answer.caveat <=> \E x \in answer.items : Caveat(said(x, first)))
      BY <3>1, <3>2, SearchIs
    <3>4. ASSUME NEW x \in answer.items, NEW k \in answer.used,
                 Spreads(view.shown[x.player], DOMAIN Definition[k].weights, "global")
          PROVE  answer.caveat
      <4>1. Caveat(said(x, k))
        BY <2>2, <3>2, <3>3, <3>4, ScoreSaysSo
      <4>2. said(x, k).competitions = said(x, first).competitions
        <5>1. k \in Score /\ first \in Score
          BY <3>2, <3>3
        <5>2. \A j \in Score : Intelligence(view.engine, view.shown[x.player], j, "global", {}).context.competitions
                    = {r.season.comp : r \in Peers(view.engine, view.shown[x.player])}
          BY <2>2, ScoreContexts
        <5> HIDE DEF first
        <5> QED
          BY <5>1, <5>2
      <4>3. Caveat(said(x, first))
        BY <4>1, <4>2 DEF Caveat
      <4> HIDE DEF said
      <4> QED
        BY <3>3, <4>3
    <3> QED
      BY <2>3, <3>4 DEF CaveatTravels
  <2>4. CASE answer.kind = "profile"
    <3>1. PICK p \in DOMAIN view.shown : answer.page = ProfilePage(view, p, Limit)
      BY <2>1, <2>4 DEF AnswerIs
    <3> DEFINE page == answer.page
               s == view.shown[p]
               ranked == RankIn(view, p, ToSet(ProfileMetrics), "competition")
    <3>2. /\ page.player = p /\ page.roles.best = view.fits[p].best
          /\ \A k \in Score : page.stats.scores[k].context
                   = Intelligence(view.engine, s, k, "competition", {}).context
          /\ DOMAIN page.stats.metrics \subseteq DOMAIN ranked
          /\ \A m \in DOMAIN page.stats.metrics : page.stats.metrics[m].here = ranked[m].oriented
          /\ page.stats.context = FirstContext(ranked)
      BY <3>1, ProfileIs
    <3>3. ASSUME NEW k \in Score, Spreads(s, DOMAIN Definition[k].weights, "competition")
          PROVE  Caveat(page.stats.scores[k].context)
      BY <2>2, <3>2, <3>3, ScoreSaysSo
    <3>4. ASSUME page.roles.best # None,
                 Spreads(s, RoleMetrics(page.roles.best.role), "competition")
          PROVE  Caveat(page.roles.best.context)
      <4>1. PICK best : best = page.roles.best
        OBVIOUS
      <4>2. best # None /\ Spreads(s, RoleMetrics(best.role), "competition") /\ best = Best(view, p)
        BY <3>2, <3>4, <4>1 DEF Best
      <4>3. best.role \in Role /\ best = RoleScore(view.engine, s, best.role, "competition", {})
        BY <2>1, <4>2, BestIs
      <4>4. Caveat(RoleScore(view.engine, s, best.role, "competition", {}).context)
        BY <2>2, <4>2, <4>3, RoleSaysSo
      <4> QED
        BY <4>1, <4>3, <4>4
    <3>5. ASSUME NEW m \in DOMAIN page.stats.metrics, page.stats.metrics[m].here # None
          PROVE  page.stats.context.size >= MinPopulation
      <4>1. /\ DOMAIN ranked = ToSet(ProfileMetrics)
            /\ \A n \in ToSet(ProfileMetrics) : RankMade(ranked[n])
        BY <2>2, RankedAreMade DEF RankIn
      <4> HIDE DEF ranked, page
      <4>2. m \in ToSet(ProfileMetrics) /\ ranked[m].percentile # None
        BY <3>2, <3>5, <4>1 DEF RankMade
      <4>3. PICK n \in ToSet(ProfileMetrics) :
                ranked[n].percentile # None /\ FirstContext(ranked) = ranked[n].context
        BY <4>2, PageContext
      <4> QED
        BY <3>2, <4>1, <4>3 DEF RankMade
    <3> QED
      BY <2>4, <3>2, <3>3, <3>4, <3>5 DEF CaveatTravels
  <2> QED
    BY <2>3, <2>4 DEF CaveatTravels
<1> QED
  BY <1>1, AnswerInit, AnswerNext, PTL DEF Spec

-----------------------------------------------------------------------------
(* Players side by side *)

\* Too few in the competition, and enough across all.
Few(engine, s, m) ==
    /\ Cardinality(Measured(Population(engine, s, {s.comp}), m)) < MinPopulation
    /\ Cardinality(Measured(Population(engine, s, Everywhere), m)) >= MinPopulation

\* Where a rank was taken: everywhere, when that was asked for or there were too
\* few; in the player's own competition otherwise.
LEMMA RankedWhere ==
    ASSUME NEW engine, NEW s, NEW m, NEW scope \in {"competition", "global"}, {s.comp} # None
    PROVE  LET c == Rank(engine, s, m, scope, {}).context
           IN /\ scope = "global" \/ (Value(s, m) # None /\ Few(engine, s, m))
                    => c.scope = "global"
              /\ ~(scope = "global" \/ (Value(s, m) # None /\ Few(engine, s, m)))
                    => c.scope = "competition" /\ c.competitions = {s.comp}
<1> DEFINE v == Value(s, m)
           selected == Selected(s, scope, {})
           asked == Measured(Population(engine, s, selected), m)
           wider == Measured(Population(engine, s, Everywhere), m)
           r == Rank(engine, s, m, scope, {})
<1>1. selected = (IF scope = "global" THEN Everywhere ELSE {s.comp})
  BY DEF Selected
<1>2. r = IF /\ v # None /\ selected # Everywhere
             /\ Cardinality(asked) < MinPopulation /\ Cardinality(wider) >= MinPopulation
          THEN MetricRank(v, Place(v, wider, m), m,
                          Context(engine, s, "global", Everywhere, Cardinality(wider)))
          ELSE MetricRank(v, Place(v, asked, m), m,
                          Context(engine, s, scope, selected, Cardinality(asked)))
  BY DEF Rank, RankWithin, RankAmong
<1>3. \A raw, sc, c, n :
        /\ MetricRank(v, raw, m, Context(engine, s, sc, c, n)).context.scope = sc
        /\ c # Everywhere
             => MetricRank(v, raw, m, Context(engine, s, sc, c, n)).context.competitions = c
  BY DEF MetricRank, Context
<1>4. scope = "competition" =>
        /\ selected # Everywhere
        /\ (Cardinality(asked) < MinPopulation /\ Cardinality(wider) >= MinPopulation)
             <=> Few(engine, s, m)
  BY <1>1 DEF Few, Everywhere
<1> HIDE DEF v, selected, asked, wider, r
<1>5. scope = "global" => r.context.scope = "global"
  BY <1>1, <1>2, <1>3
<1>6. scope = "competition" /\ v # None /\ Few(engine, s, m) => r.context.scope = "global"
  BY <1>2, <1>3, <1>4
<1>7. scope = "competition" /\ ~(v # None /\ Few(engine, s, m))
        => r.context.scope = "competition" /\ r.context.competitions = selected
  BY <1>2, <1>3, <1>4
<1> QED
  BY <1>1, <1>5, <1>6, <1>7 DEF v, r

\* Seasons of one position, year and competition are compared with the same.
LEMMA FewAlike ==
    ASSUME NEW engine, NEW s, NEW t, NEW m,
           s.group = t.group, s.year = t.year, s.comp = t.comp
    PROVE  Few(engine, s, m) <=> Few(engine, t, m)
<1>1. Peers(engine, s) = Peers(engine, t)
  BY DEF Peers
<1>2. \A c : Population(engine, s, c) = Population(engine, t, c)
  BY <1>1 DEF Population
<1>3. \A c : Measured(Population(engine, s, c), m) = Measured(Population(engine, t, c), m)
  BY <1>2
<1> QED
  BY <1>3 DEF Few

LEMMA TwoAreMore ==
    ASSUME NEW S, IsFiniteSet(S)
    PROVE  Cardinality(S) > 1 <=> \E x, y \in S : x # y
<1>1. ASSUME NEW x \in S, NEW y \in S, x # y
      PROVE  Cardinality(S) > 1
  <2>1. {x, y} \subseteq S /\ {x, y} = {x} \cup {y} /\ y \notin {x}
    BY <1>1
  <2>2. IsFiniteSet({x}) /\ Cardinality({x}) = 1
    BY FS_Singleton
  <2>3. Cardinality({x} \cup {y}) = 2
    BY <2>1, <2>2, FS_AddElement
  <2>4. Cardinality({x, y}) <= Cardinality(S) /\ Cardinality(S) \in Nat
    BY <2>1, FS_Subset, FS_CardinalityType
  <2> QED
    BY <2>1, <2>3, <2>4
<1>2. ASSUME Cardinality(S) > 1
      PROVE  \E x, y \in S : x # y
  <2>1. S # {}
    BY <1>2, FS_EmptySet
  <2>2. PICK x \in S : TRUE
    BY <2>1
  <2>3. Cardinality({x}) = 1
    BY FS_Singleton
  <2>4. S # {x}
    BY <1>2, <2>3
  <2> QED
    BY <2>2, <2>4
<1> QED
  BY <1>1, <1>2

LEMMA CaveatsSay ==
    ASSUME NEW v, NEW chosen, IsFiniteSet(chosen), NEW scope
    PROVE  LET caveats == ComparisonCaveats({v.shown[p] : p \in chosen}, scope)
           IN /\ caveats \subseteq {"positions", "competitions"}
              /\ "positions" \in caveats
                    <=> \E p, q \in chosen : v.shown[p].group # v.shown[q].group
              /\ "competitions" \in caveats
                    <=> /\ scope = "competition"
                        /\ \E p, q \in chosen : v.shown[p].comp # v.shown[q].comp
<1> DEFINE seasons == {v.shown[p] : p \in chosen}
           caveats == ComparisonCaveats(seasons, scope)
           f == [p \in chosen |-> v.shown[p].group]
           g == [p \in chosen |-> v.shown[p].comp]
<1>1. {s.group : s \in seasons} = {f[p] : p \in chosen}
      /\ {s.comp : s \in seasons} = {g[p] : p \in chosen}
  OBVIOUS
<1>2. \A p \in chosen : f[p] = v.shown[p].group /\ g[p] = v.shown[p].comp
  OBVIOUS
<1>3. "positions" \in caveats <=> Cardinality({s.group : s \in seasons}) > 1
  BY DEF ComparisonCaveats
<1>4. "competitions" \in caveats
        <=> Cardinality({s.comp : s \in seasons}) > 1 /\ scope = "competition"
  BY DEF ComparisonCaveats
<1>5. caveats \subseteq {"positions", "competitions"}
  BY DEF ComparisonCaveats
<1> HIDE DEF f, g, caveats, seasons
<1>6. IsFiniteSet({f[p] : p \in chosen}) /\ IsFiniteSet({g[p] : p \in chosen})
  BY ImageIsFinite
<1>7. Cardinality({f[p] : p \in chosen}) > 1 <=> \E p, q \in chosen : f[p] # f[q]
  BY <1>6, TwoAreMore
<1>8. Cardinality({g[p] : p \in chosen}) > 1 <=> \E p, q \in chosen : g[p] # g[q]
  BY <1>6, TwoAreMore
<1>9. "positions" \in caveats
        <=> \E p, q \in chosen : v.shown[p].group # v.shown[q].group
  BY <1>1, <1>2, <1>3, <1>7
<1>10. "competitions" \in caveats
        <=> /\ scope = "competition"
            /\ \E p, q \in chosen : v.shown[p].comp # v.shown[q].comp
  BY <1>1, <1>2, <1>4, <1>8
<1> QED
  BY <1>5, <1>9, <1>10 DEF caveats, seasons

\* Players of one season who are ranked on some metric against different
\* populations are shown with the caveat that says in what they differ; and a
\* caveat is shown only where two of them differ in it and can be read across on
\* nothing, but for the ranks that were widened to one population: for any load,
\* players and scope (shortlists.py compare, _comparison_caveat; percentiles.py
\* rank).
THEOREM ComparisonsAreQualified == Spec => []ComparisonQualified
<1>1. AnswerInv => ComparisonQualified
  <2> SUFFICES ASSUME AnswerInv, answer # None, answer.kind = "comparison"
               PROVE  ComparisonQualified
    BY DEF ComparisonQualified
  <2>1. view # None /\ AnswerIs
    BY DEF AnswerInv
  <2>2. PICK chosen \in SUBSET DOMAIN view.shown, scope \in {"competition", "global"} :
            answer = ComparisonPage(view, chosen, scope)
    BY <2>1 DEF AnswerIs
  <2> DEFINE s(p) == view.shown[p]
             rank(p, m) == Rank(view.engine, s(p), m, scope, {})
             few(p, m) == Few(view.engine, s(p), m)
  <2>3. /\ answer.scope = scope /\ DOMAIN answer.columns = chosen
        /\ answer.caveats = ComparisonCaveats({view.shown[p] : p \in chosen}, scope)
        /\ \A p \in chosen :
             answer.columns[p] = ComparisonColumn(RankIn(view, p, ToSet(ProfileMetrics), scope))
    BY <2>2 DEF ComparisonPage
  <2>4. \A p \in chosen : {s(p).comp} # None
    BY <2>1, ViewFacts, UniverseAssumption DEF SeasonRow
  <2>5. /\ IsFiniteSet(view.engine) /\ IsFiniteSet(chosen)
    BY <2>1, ViewFacts, FS_Subset
  <2>6. ASSUME NEW p \in chosen, NEW m \in RankedOn(p)
        PROVE  /\ answer.columns[p][m] = rank(p, m) /\ Value(s(p), m) # None
               /\ scope = "global" \/ few(p, m)
                    => RankedAgainst(p, m) = <<s(p).group, s(p).year, Everywhere>>
               /\ scope = "competition" /\ few(p, m) => Widened(p, m)
               /\ ~(scope = "global" \/ few(p, m))
                    => RankedAgainst(p, m) = <<s(p).group, s(p).year, {s(p).comp}>>
    <3>1. /\ m \in DOMAIN answer.columns[p]
          /\ answer.columns[p][m].percentile # None
      BY <2>6, <2>3 DEF RankedOn
    <3>2. /\ answer.columns[p][m] = rank(p, m)
          /\ RankMade(rank(p, m)) /\ rank(p, m).value = Value(s(p), m)
      <4> DEFINE ranked == RankIn(view, p, ToSet(ProfileMetrics), scope)
      <4>1. /\ DOMAIN ranked = ToSet(ProfileMetrics)
            /\ \A n \in ToSet(ProfileMetrics) :
                  ranked[n] = rank(p, n) /\ RankMade(rank(p, n))
        BY <2>5, RankedAreMade DEF RankIn
      <4>2. answer.columns[p] = ComparisonColumn(ranked)
        BY <2>3
      <4>3. rank(p, m).value = Value(s(p), m)
        BY <2>5, RankIsMade
      <4> HIDE DEF ranked, rank, s
      <4>4. m \in DOMAIN ranked /\ answer.columns[p][m] = ranked[m]
        BY <3>1, <4>2 DEF ComparisonColumn
      <4>5. answer.columns[p][m] = rank(p, m) /\ RankMade(rank(p, m))
        BY <4>1, <4>4
      <4> QED
        BY <4>3, <4>5
    <3>3. Value(s(p), m) # None
      BY <3>1, <3>2 DEF RankMade
    <3>4. /\ scope = "global" \/ few(p, m) => rank(p, m).context.scope = "global"
          /\ ~(scope = "global" \/ few(p, m))
               => rank(p, m).context.scope = "competition"
                  /\ rank(p, m).context.competitions = {s(p).comp}
      BY <2>4, <3>3, RankedWhere
    <3> HIDE DEF few, rank
    <3> QED
      BY <2>3, <3>2, <3>3, <3>4 DEF RankedAgainst, Widened
  <2> DEFINE caveats == answer.caveats
  <2>7. /\ caveats \subseteq {"positions", "competitions"}
        /\ "positions" \in caveats <=> \E p, q \in chosen : s(p).group # s(q).group
        /\ "competitions" \in caveats
             <=> scope = "competition" /\ \E p, q \in chosen : s(p).comp # s(q).comp
    BY <2>3, <2>5, CaveatsSay
  <2>8. \A m : \A p, q \in chosen :
           s(p).group = s(q).group /\ s(p).year = s(q).year /\ s(p).comp = s(q).comp
             => (few(p, m) <=> few(q, m))
    BY FewAlike
  <2> HIDE DEF s, few, rank, caveats
  <2>9. ASSUME NEW p \in chosen, NEW q \in chosen, s(p).year = s(q).year,
               NEW m \in RankedOn(p) \cap RankedOn(q), RankedAgainst(p, m) # RankedAgainst(q, m)
        PROVE  \/ "positions" \in caveats /\ s(p).group # s(q).group
               \/ "competitions" \in caveats /\ s(p).comp # s(q).comp
    <3> SUFFICES ASSUME s(p).group = s(q).group
                 PROVE  "competitions" \in caveats /\ s(p).comp # s(q).comp
      BY <2>7
    <3>1. m \in RankedOn(p) /\ m \in RankedOn(q)
      OBVIOUS
    <3>2. scope = "competition"
      BY <2>6, <2>9, <3>1
    <3>3. s(p).comp # s(q).comp
      BY <2>6, <2>8, <2>9, <3>1
    <3> QED
      BY <2>7, <3>2, <3>3
  <2>10. ASSUME NEW p \in chosen, NEW q \in chosen, s(p).group # s(q).group,
                NEW m \in RankedOn(p) \cap RankedOn(q)
         PROVE  RankedAgainst(p, m) # RankedAgainst(q, m)
    <3>1. \A x, y, z, a, b, c : x # a => <<x, y, z>> # <<a, b, c>>
      OBVIOUS
    <3>2. RankedAgainst(p, m)[1] = s(p).group /\ RankedAgainst(q, m)[1] = s(q).group
      BY DEF RankedAgainst, s
    <3> QED
      BY <2>10, <3>2
  <2>11. ASSUME NEW p \in chosen, NEW q \in chosen, s(p).comp # s(q).comp, scope = "competition",
                NEW m \in RankedOn(p) \cap RankedOn(q), RankedAgainst(p, m) = RankedAgainst(q, m)
         PROVE  Widened(p, m) /\ Widened(q, m)
    <3>1. m \in RankedOn(p) /\ m \in RankedOn(q)
      OBVIOUS
    <3>2. {s(p).comp} # {s(q).comp} /\ {s(p).comp} # Everywhere /\ {s(q).comp} # Everywhere
      BY <2>4, <2>11 DEF Everywhere
    <3>3. few(p, m) /\ few(q, m)
      BY <2>6, <2>11, <3>1, <3>2
    <3> QED
      BY <2>6, <2>11, <3>1, <3>3
  <2>12. /\ \A p, q \in chosen :
              /\ s(p).year = s(q).year
              /\ \E m \in RankedOn(p) \cap RankedOn(q) : RankedAgainst(p, m) # RankedAgainst(q, m)
              => \/ "positions" \in caveats /\ s(p).group # s(q).group
                 \/ "competitions" \in caveats /\ s(p).comp # s(q).comp
         /\ "positions" \in caveats =>
              \E p, q \in chosen :
                  /\ s(p).group # s(q).group
                  /\ \A m \in RankedOn(p) \cap RankedOn(q) : RankedAgainst(p, m) # RankedAgainst(q, m)
         /\ "competitions" \in caveats =>
              \E p, q \in chosen :
                  /\ s(p).comp # s(q).comp
                  /\ \A m \in RankedOn(p) \cap RankedOn(q) :
                        RankedAgainst(p, m) # RankedAgainst(q, m) \/ (Widened(p, m) /\ Widened(q, m))
    <3>1. "competitions" \in caveats =>
              \E p, q \in chosen :
                  /\ s(p).comp # s(q).comp
                  /\ \A m \in RankedOn(p) \cap RankedOn(q) :
                        RankedAgainst(p, m) # RankedAgainst(q, m) \/ (Widened(p, m) /\ Widened(q, m))
      BY <2>7, <2>11
    <3>2. "positions" \in caveats =>
              \E p, q \in chosen :
                  /\ s(p).group # s(q).group
                  /\ \A m \in RankedOn(p) \cap RankedOn(q) : RankedAgainst(p, m) # RankedAgainst(q, m)
      BY <2>7, <2>10
    <3> QED
      BY <2>9, <3>1, <3>2
  <2> DEFINE differ(kind, p, q) ==
                IF kind = "positions" THEN view.shown[p].group # view.shown[q].group
                ELSE view.shown[p].comp # view.shown[q].comp
  <2>13. ASSUME NEW p \in chosen, NEW q \in chosen, view.shown[p].year = view.shown[q].year,
                \E m \in RankedOn(p) \cap RankedOn(q) : RankedAgainst(p, m) # RankedAgainst(q, m)
         PROVE  \E kind \in answer.caveats : differ(kind, p, q)
    <3>1. \/ "positions" \in answer.caveats /\ view.shown[p].group # view.shown[q].group
          \/ "competitions" \in answer.caveats /\ view.shown[p].comp # view.shown[q].comp
      BY <2>12, <2>13 DEF s, caveats
    <3> QED
      BY <3>1
  <2>14. ASSUME NEW kind \in answer.caveats
         PROVE  \E p, q \in chosen :
                    /\ differ(kind, p, q)
                    /\ \A m \in RankedOn(p) \cap RankedOn(q) :
                          \/ RankedAgainst(p, m) # RankedAgainst(q, m)
                          \/ Widened(p, m) /\ Widened(q, m)
    <3>1. CASE kind = "positions"
      BY <2>12, <3>1 DEF s, caveats
    <3>2. CASE kind = "competitions"
      BY <2>12, <3>2 DEF s, caveats
    <3> QED
      BY <2>7, <3>1, <3>2 DEF caveats
  <2> QED
    BY <2>3, <2>13, <2>14 DEF ComparisonQualified
<1> QED
  BY <1>1, AnswerInit, AnswerNext, PTL DEF Spec

-----------------------------------------------------------------------------
(* The order of fractions, and of values read by their evidence *)

LEMMA TimesKeepsOrder ==
    ASSUME NEW a \in Int, NEW b \in Int, NEW c \in Int, c > 0
    PROVE  /\ a * c < b * c <=> a < b
           /\ a <= b => a * c <= b * c
OBVIOUS

LEMMA LargerParts ==
    ASSUME NEW a \in Int, NEW b \in Int, NEW v \in Int, NEW w \in Int,
           a >= b, b >= 0, v >= w, w >= 0
    PROVE  v * a >= w * b
<1>1. v * a >= w * a
  OBVIOUS
<1>2. w * a >= w * b
  OBVIOUS
<1>3. v * a \in Int /\ w * a \in Int /\ w * b \in Int
  OBVIOUS
<1> QED
  BY <1>1, <1>2, <1>3

LEMMA EvidenceWeightIs ==
    ASSUME NEW minutes \in Nat \cup {None}
    PROVE  EvidenceWeight(minutes) \in 0 .. Established
BY EvidenceAssumption DEF EvidenceWeight

\* A mean, as a fraction.
Mean(m) == m[1] \in Int /\ m[2] \in Nat \ {0}

LEMMA FullSeasonsKeepOrder ==
    ASSUME NEW a \in Int, NEW b \in Int, NEW m, NEW n, Mean(m), Mean(n)
    PROVE  Less(Shrunk(a, m, Established), Shrunk(b, n, Established)) <=> a < b
<1>1. PICK E \in Nat : E = Established /\ E > 0
  BY EvidenceAssumption
<1>2. PICK m1 \in Int, m2 \in Nat : m1 = m[1] /\ m2 = m[2] /\ m2 > 0
  BY DEF Mean
<1>3. PICK n1 \in Int, n2 \in Nat : n1 = n[1] /\ n2 = n[2] /\ n2 > 0
  BY DEF Mean
<1>4. PICK c \in Nat : c = m2 * E /\ c > 0
  <2>1. m2 * E \in Nat /\ m2 * E > 0
    BY <1>1, <1>2
  <2> QED
    BY <2>1
<1>5. PICK d \in Nat : d = n2 * E /\ d > 0
  <2>1. n2 * E \in Nat /\ n2 * E > 0
    BY <1>1, <1>3
  <2> QED
    BY <2>1
<1>6. Shrunk(a, m, Established) = <<c * a, c>>
  <2>1. m1 * (E - E) + m2 * E * a = c * a
    BY <1>4
  <2> QED
    BY <1>1, <1>2, <1>4, <2>1 DEF Shrunk
<1>7. Shrunk(b, n, Established) = <<d * b, d>>
  <2>1. n1 * (E - E) + n2 * E * b = d * b
    BY <1>5
  <2> QED
    BY <1>1, <1>3, <1>5, <2>1 DEF Shrunk
<1>8. Less(<<c * a, c>>, <<d * b, d>>) <=> (c * a) * d < (d * b) * c
  BY DEF Less
<1>9. (c * a) * d = a * (c * d) /\ (d * b) * c = b * (c * d)
  OBVIOUS
<1>10. c * d \in Int /\ c * d > 0
  BY <1>4, <1>5
<1>11. a * (c * d) < b * (c * d) <=> a < b
  BY <1>10, TimesKeepsOrder
<1> QED
  BY <1>6, <1>7, <1>8, <1>9, <1>11

LEMMA NeverBehind ==
    ASSUME NEW a \in Int, NEW b \in Int, NEW m, Mean(m),
           NEW v \in 0 .. Established, NEW w \in 0 .. Established,
           a >= b, v >= w, ~Less(<<b, 1>>, m)
    PROVE  ~Less(Shrunk(a, m, v), Shrunk(b, m, w))
<1>1. PICK E \in Nat : E = Established /\ E > 0
  BY EvidenceAssumption
<1>2. PICK m1 \in Int, m2 \in Nat : m1 = m[1] /\ m2 = m[2] /\ m2 > 0
  BY DEF Mean
<1>3. v \in Nat /\ w \in Nat
  OBVIOUS
<1>4. PICK x \in Int : x = m2 * a - m1
  OBVIOUS
<1>5. PICK y \in Int : y = m2 * b - m1
  OBVIOUS
<1>6. y >= 0
  <2>1. ~(b * m2 < m1 * 1)
    BY <1>2 DEF Less
  <2>2. b * m2 = m2 * b /\ m2 * b \in Int
    OBVIOUS
  <2> QED
    BY <1>5, <2>1, <2>2
<1>7. x >= y
  <2>1. m2 * a >= m2 * b /\ m2 * a \in Int /\ m2 * b \in Int
    BY <1>2
  <2> QED
    BY <1>4, <1>5, <2>1
<1>8. v * x >= w * y
  BY <1>3, <1>6, <1>7, LargerParts
<1>9. PICK p \in Int : p = m1 * (E - v) + m2 * v * a
  BY <1>3
<1>10. PICK q \in Int : q = m1 * (E - w) + m2 * w * b
  BY <1>3
<1>11. p = m1 * E + v * x
  BY <1>3, <1>4, <1>9
<1>12. q = m1 * E + w * y
  BY <1>3, <1>5, <1>10
<1>13. p >= q
  <2>1. m1 * E \in Int /\ v * x \in Int /\ w * y \in Int
    BY <1>3
  <2> QED
    BY <1>8, <1>11, <1>12, <2>1
<1>14. PICK d \in Int : d = m2 * E /\ d > 0
  <2>1. m2 * E \in Int /\ m2 * E > 0
    BY <1>1, <1>2
  <2> QED
    BY <2>1
<1>15. Shrunk(a, m, v) = <<p, d>> /\ Shrunk(b, m, w) = <<q, d>>
  BY <1>1, <1>2, <1>9, <1>10, <1>14 DEF Shrunk
<1>16. ~(p * d < q * d)
  BY <1>13, <1>14, TimesKeepsOrder
<1> QED
  BY <1>15, <1>16 DEF Less

LEMMA PopulationMeanIs ==
    ASSUME NEW list, IsFiniteSet(DOMAIN list), NEW c \in DOMAIN list,
           \A d \in DOMAIN list : list[d].value \in Int
    PROVE  Mean(PopulationMean(list, c))
<1> DEFINE others == IF Cardinality(DOMAIN list) > 1 THEN DOMAIN list \ {c} ELSE DOMAIN list
           f == [d \in others |-> list[d].value]
<1>1. PopulationMean(list, c) = <<SumFunction(f), Cardinality(others)>>
  BY DEF PopulationMean
<1>2. others \subseteq DOMAIN list /\ DOMAIN f = others /\ \A d \in others : f[d] = list[d].value
  OBVIOUS
<1>3. Cardinality(others) \in Nat \ {0}
  <2>1. /\ Cardinality(DOMAIN list) \in Nat /\ Cardinality(DOMAIN list) # 0
        /\ Cardinality(DOMAIN list \ {c}) = Cardinality(DOMAIN list) - 1
    BY FS_CardinalityType, FS_EmptySet, FS_RemoveElement
  <2> QED
    BY <2>1
<1> HIDE DEF others, f
<1>4. SumFunction(f) \in Int
  BY <1>2, FS_Subset, SumFunctionIsInt
<1> QED
  BY <1>1, <1>3, <1>4 DEF Mean

LEMMA RankedByEvidence ==
    ASSUME NEW list, IsFiniteSet(DOMAIN list), NEW mean, mean = None \/ (Mean(mean) /\ mean # None),
           \A d \in DOMAIN list : list[d].value \in Int
    PROVE  \A c \in DOMAIN list : \E m :
                /\ Mean(m) /\ (mean # None => m = mean)
                /\ RankByEvidence(list, mean)[c]
                    = Shrunk(list[c].value, m, EvidenceWeight(list[c].minutes))
<1> TAKE c \in DOMAIN list
<1> DEFINE m == IF mean = None THEN PopulationMean(list, c) ELSE mean
<1>1. RankByEvidence(list, mean)[c] = Shrunk(list[c].value, m, EvidenceWeight(list[c].minutes))
  BY DEF RankByEvidence
<1>2. Mean(m)
  BY PopulationMeanIs
<1> QED
  BY <1>1, <1>2

LEMMA SurvivorsAreShown ==
    ASSUME NEW v, NEW c
    PROVE  Surviving(v, c)[Len(Steps(v, c))] \subseteq DOMAIN v.shown
<1>1. Len(Steps(v, c)) = 5
  BY DEF Steps
<1> QED
  BY <1>1 DEF Surviving

Priced(v, c) ==
    {p \in Surviving(v, c)[Len(Steps(v, c))] : Best(v, p) # None /\ v.shown[p].value # None}
PricedList(v, c) ==
    [p \in Priced(v, c) |-> [value |-> Best(v, p).score, minutes |-> v.shown[p].minutes]]

LEMMA OpportunitiesAre ==
    ASSUME NEW v, NEW c
    PROVE  LET a == OpportunitiesAnswer(v, c)
               list == PricedList(v, c)
           IN  /\ a.mean = OrdinaryRoleFit(v) /\ a.kind = "opportunities"
               /\ a.items = {[ player |-> p, raw |-> list[p].value, minutes |-> list[p].minutes,
                               ranked |-> RankByEvidence(list, OrdinaryRoleFit(v))[p] ] : p \in DOMAIN list}
<1> DEFINE list == PricedList(v, c)
           adjusted == RankByEvidence(list, OrdinaryRoleFit(v))
           a == OpportunitiesAnswer(v, c)
<1>1. /\ a.mean = OrdinaryRoleFit(v) /\ a.kind = "opportunities"
      /\ a.items = {[ player |-> p, raw |-> Best(v, p).score, minutes |-> v.shown[p].minutes,
                      ranked |-> adjusted[p] ] : p \in Priced(v, c)}
  BY DEF OpportunitiesAnswer, Priced, PricedList
<1>2. DOMAIN list = Priced(v, c)
  BY DEF PricedList
<1>3. \A p \in Priced(v, c) : list[p].value = Best(v, p).score /\ list[p].minutes = v.shown[p].minutes
  BY DEF PricedList
<1> HIDE DEF list, adjusted, a
<1>4. a.items = {[ player |-> p, raw |-> list[p].value, minutes |-> list[p].minutes,
                   ranked |-> adjusted[p] ] : p \in DOMAIN list}
  BY <1>1, <1>2, <1>3
<1> QED
  BY <1>1, <1>4 DEF list, adjusted, a

LEMMA OrdinaryIsAMean ==
    ASSUME AnswerInv, view # None
    PROVE  Mean(OrdinaryRoleFit(view)) /\ OrdinaryRoleFit(view) # None
<1> DEFINE fitted == {p \in DOMAIN view.shown : Best(view, p) # None}
           f == [p \in fitted |-> Best(view, p).score]
<1>1. OrdinaryRoleFit(view) = IF fitted = {} THEN <<0, 1>> ELSE <<SumFunction(f), Cardinality(fitted)>>
  BY DEF OrdinaryRoleFit
<1>2. IsFiniteSet(fitted)
  BY ViewFacts, FS_Subset
<1>3. DOMAIN f = fitted /\ \A p \in fitted : f[p] \in Int
  BY BestIs
<1> HIDE DEF fitted, f
<1>4. SumFunction(f) \in Int
  BY <1>2, <1>3, SumFunctionIsInt
<1>5. Cardinality(fitted) \in Nat /\ (fitted # {} => Cardinality(fitted) # 0)
  BY <1>2, FS_CardinalityType, FS_EmptySet
<1>6. OrdinaryRoleFit(view) \in Int \X (Nat \ {0})
  BY <1>1, <1>4, <1>5
<1>7. OrdinaryRoleFit(view) \in Int \X Int
  BY <1>6
<1>8. OrdinaryRoleFit(view) # None
  BY <1>7, EvidenceAssumption
<1> QED
  BY <1>6, <1>8 DEF Mean

\* A list of candidates as the searches make them.
Candidates(list) ==
    /\ IsFiniteSet(DOMAIN list)
    /\ \A d \in DOMAIN list : list[d].value \in Int /\ list[d].minutes \in Nat \cup {None}

LEMMA ShownMinutes ==
    ASSUME AnswerInv, view # None, NEW p \in DOMAIN view.shown
    PROVE  view.shown[p].minutes \in Nat \cup {None} /\ view.shown[p].value \in Nat \cup {None}
<1>1. view.shown[p] \in SeasonRow
  BY ViewFacts
<1> QED
  BY <1>1, UniverseAssumption DEF SeasonRow

LEMMA SearchListIs ==
    ASSUME AnswerInv, view # None, NEW weights \in Weighting \cup Presets, NEW f
    PROVE  Candidates(SearchList(view, weights, f))
<1> DEFINE list == SearchList(view, weights, f)
<1>1. DOMAIN list = Found(view, weights, f) /\ Found(view, weights, f) \subseteq DOMAIN view.shown
  BY DEF SearchList, Found
<1>2. IsFiniteSet(DOMAIN list)
  BY <1>1, ViewFacts, FS_Subset
<1>3. ASSUME NEW d \in DOMAIN list
      PROVE  list[d].value \in Int /\ list[d].minutes \in Nat \cup {None}
  <2>1. /\ list[d].value = SearchScore(view, weights, d) /\ list[d].minutes = view.shown[d].minutes
        /\ SearchScore(view, weights, d) # None /\ d \in DOMAIN view.shown
    BY <1>1 DEF SearchList, Found
  <2>2. SearchScore(view, weights, d) \in Int
    BY <2>1, SearchIsMade
  <2> QED
    BY <2>1, <2>2, ShownMinutes
<1> QED
  BY <1>2, <1>3 DEF Candidates

LEMMA PricedListIs ==
    ASSUME AnswerInv, view # None, NEW c
    PROVE  Candidates(PricedList(view, c))
<1> DEFINE list == PricedList(view, c)
<1>1. DOMAIN list = Priced(view, c) /\ Priced(view, c) \subseteq DOMAIN view.shown
  BY SurvivorsAreShown DEF PricedList, Priced
<1>2. IsFiniteSet(DOMAIN list)
  BY <1>1, ViewFacts, FS_Subset
<1>3. ASSUME NEW d \in DOMAIN list
      PROVE  list[d].value \in Int /\ list[d].minutes \in Nat \cup {None}
  <2>1. /\ list[d].value = Best(view, d).score /\ list[d].minutes = view.shown[d].minutes
        /\ Best(view, d) # None /\ d \in DOMAIN view.shown
    BY <1>1 DEF PricedList, Priced
  <2> QED
    BY <2>1, BestIs, ShownMinutes
<1> QED
  BY <1>2, <1>3 DEF Candidates

\* How two on one list are ordered.
LEMMA ListOrder ==
    ASSUME NEW list, Candidates(list), NEW mean, mean = None \/ (Mean(mean) /\ mean # None),
           NEW a \in DOMAIN list, NEW b \in DOMAIN list
    PROVE  LET r == RankByEvidence(list, mean)
               v == EvidenceWeight(list[a].minutes)
               w == EvidenceWeight(list[b].minutes)
           IN  /\ v = Established /\ w = Established =>
                    (Less(r[a], r[b]) <=> list[a].value < list[b].value)
               /\ (mean # None /\ v >= w /\ list[a].value >= list[b].value
                        /\ ~Less(<<list[b].value, 1>>, mean))
                    => ~Less(r[a], r[b])
<1> DEFINE r == RankByEvidence(list, mean)
           v == EvidenceWeight(list[a].minutes)
           w == EvidenceWeight(list[b].minutes)
<1>1. IsFiniteSet(DOMAIN list) /\ \A d \in DOMAIN list : list[d].value \in Int
  BY DEF Candidates
<1>2. PICK m : Mean(m) /\ (mean # None => m = mean) /\ r[a] = Shrunk(list[a].value, m, v)
  BY <1>1, RankedByEvidence
<1>3. PICK n : Mean(n) /\ (mean # None => n = mean) /\ r[b] = Shrunk(list[b].value, n, w)
  BY <1>1, RankedByEvidence
<1>4. v \in 0 .. Established /\ w \in 0 .. Established
  BY EvidenceWeightIs DEF Candidates
<1>5. PICK x \in Int : x = list[a].value
  BY <1>1
<1>6. PICK y \in Int : y = list[b].value
  BY <1>1
<1> HIDE DEF r, v, w
<1>7. v = Established /\ w = Established => (Less(r[a], r[b]) <=> x < y)
  <2> HAVE v = Established /\ w = Established
  <2>1. r[a] = Shrunk(x, m, Established) /\ r[b] = Shrunk(y, n, Established)
    BY <1>2, <1>3, <1>5, <1>6
  <2> QED
    BY <1>2, <1>3, <2>1, FullSeasonsKeepOrder
<1>8. mean # None /\ v >= w /\ x >= y /\ ~Less(<<y, 1>>, mean) => ~Less(r[a], r[b])
  <2> HAVE mean # None /\ v >= w /\ x >= y /\ ~Less(<<y, 1>>, mean)
  <2>1. r[a] = Shrunk(x, mean, v) /\ r[b] = Shrunk(y, mean, w) /\ Mean(mean)
    BY <1>2, <1>3, <1>5, <1>6
  <2> QED
    BY <1>4, <2>1, NeverBehind
<1>9. v = Established /\ w = Established =>
        (Less(r[a], r[b]) <=> list[a].value < list[b].value)
  BY <1>5, <1>6, <1>7, Zenon
<1>10. (mean # None /\ v >= w /\ list[a].value >= list[b].value
            /\ ~Less(<<list[b].value, 1>>, mean)) => ~Less(r[a], r[b])
  BY <1>5, <1>6, <1>8, Zenon
<1> QED
  BY <1>9, <1>10 DEF r, v, w

\* Where candidates were screened first (market_opportunities, rank_by_evidence with
\* the average of all as its centre), having played less is never a reason to come
\* first among those at or above that average; and in every discovery list those
\* with a full season keep the order of their raw values.
THEOREM EvidenceOrders == Spec => []EvidenceOrder
<1>1. AnswerInv => EvidenceOrder
  <2> SUFFICES ASSUME AnswerInv, answer # None, answer.kind \in {"opportunities", "search"},
                      NEW x \in answer.items, NEW y \in answer.items
               PROVE  /\ answer.kind = "opportunities" /\ AboveMean(y, answer.mean)
                            /\ x.raw >= y.raw /\ Fuller(x, y)
                         => ~Less(x.ranked, y.ranked)
                      /\ EvidenceWeight(x.minutes) = Established
                            /\ EvidenceWeight(y.minutes) = Established
                         => (Less(x.ranked, y.ranked) <=> x.raw < y.raw)
    BY DEF EvidenceOrder
  <2>1. view # None /\ AnswerIs
    BY DEF AnswerInv
  <2>2. CASE answer.kind = "search"
    <3>1. PICK weights \in Weighting \cup Presets, f \in Filter :
            (\E k \in Score : weights[k] > 0) /\ answer = SearchAnswer(view, weights, f)
      BY <2>1, <2>2 DEF AnswerIs
    <3> DEFINE list == SearchList(view, weights, f)
    <3>2. Used(weights) # {}
      BY <3>1 DEF Used
    <3>3. answer.items = {[ player |-> p, raw |-> list[p].value, minutes |-> list[p].minutes,
                            ranked |-> RankByEvidence(list, None)[p] ] : p \in DOMAIN list}
      BY <3>1, <3>2, SearchIs
    <3>4. Candidates(list)
      BY <2>1, SearchListIs
    <3> HIDE DEF list
    <3>5. PICK a \in DOMAIN list : x = [ player |-> a, raw |-> list[a].value,
                minutes |-> list[a].minutes, ranked |-> RankByEvidence(list, None)[a] ]
      BY <3>3
    <3>6. PICK b \in DOMAIN list : y = [ player |-> b, raw |-> list[b].value,
                minutes |-> list[b].minutes, ranked |-> RankByEvidence(list, None)[b] ]
      BY <3>3
    <3>7. EvidenceWeight(list[a].minutes) = Established /\ EvidenceWeight(list[b].minutes) = Established
            => (Less(RankByEvidence(list, None)[a], RankByEvidence(list, None)[b])
                    <=> list[a].value < list[b].value)
      <4>1. PICK n : n = None
        OBVIOUS
      <4>2. EvidenceWeight(list[a].minutes) = Established /\ EvidenceWeight(list[b].minutes) = Established
            => (Less(RankByEvidence(list, n)[a], RankByEvidence(list, n)[b])
                    <=> list[a].value < list[b].value)
        BY <3>4, <4>1, ListOrder
      <4> QED
        BY <4>1, <4>2
    <3> QED
      BY <2>2, <3>5, <3>6, <3>7
  <2>3. CASE answer.kind = "opportunities"
    <3>1. PICK c \in Screen : answer = OpportunitiesAnswer(view, c)
      BY <2>1, <2>3 DEF AnswerIs
    <3> DEFINE list == PricedList(view, c)
    <3>2. PICK mean : mean = OrdinaryRoleFit(view)
      OBVIOUS
    <3>3. answer.mean = mean /\ Mean(mean) /\ mean # None
      BY <2>1, <3>1, <3>2, OpportunitiesAre, OrdinaryIsAMean
    <3>4. answer.items = {[ player |-> p, raw |-> list[p].value, minutes |-> list[p].minutes,
                            ranked |-> RankByEvidence(list, mean)[p] ] : p \in DOMAIN list}
      BY <3>1, <3>2, OpportunitiesAre
    <3>5. Candidates(list)
      BY <2>1, PricedListIs
    <3> HIDE DEF list
    <3>6. PICK a \in DOMAIN list : x = [ player |-> a, raw |-> list[a].value,
                minutes |-> list[a].minutes, ranked |-> RankByEvidence(list, mean)[a] ]
      BY <3>4
    <3>7. PICK b \in DOMAIN list : y = [ player |-> b, raw |-> list[b].value,
                minutes |-> list[b].minutes, ranked |-> RankByEvidence(list, mean)[b] ]
      BY <3>4
    <3>8. /\ EvidenceWeight(list[a].minutes) = Established /\ EvidenceWeight(list[b].minutes) = Established
            => (Less(RankByEvidence(list, mean)[a], RankByEvidence(list, mean)[b])
                    <=> list[a].value < list[b].value)
          /\ (EvidenceWeight(list[a].minutes) >= EvidenceWeight(list[b].minutes)
                /\ list[a].value >= list[b].value /\ ~Less(<<list[b].value, 1>>, mean))
               => ~Less(RankByEvidence(list, mean)[a], RankByEvidence(list, mean)[b])
      BY <3>3, <3>5, ListOrder
    <3> QED
      BY <3>3, <3>6, <3>7, <3>8 DEF AboveMean, Fuller
  <2> QED
    BY <2>2, <2>3
<1> QED
  BY <1>1, AnswerInit, AnswerNext, PTL DEF Spec

-----------------------------------------------------------------------------
(* Lists in order, and their pages *)

\* Something that can be ordered: by a fraction with a denominator above zero.
Rankable(x) == x.ranked[1] \in Int /\ x.ranked[2] \in Nat \ {0}

\* Not behind: at least as high.
LEMMA NotBehind ==
    ASSUME NEW x, NEW y, NEW z, Rankable(x), Rankable(y), Rankable(z)
    PROVE  /\ ~Less(x.ranked, y.ranked) \/ ~Less(y.ranked, x.ranked)
           /\ (~Less(x.ranked, y.ranked) /\ ~Less(y.ranked, z.ranked)) => ~Less(x.ranked, z.ranked)
<1>1. PICK a \in Int, b \in Nat : a = x.ranked[1] /\ b = x.ranked[2] /\ b > 0
  BY DEF Rankable
<1>2. PICK c \in Int, d \in Nat : c = y.ranked[1] /\ d = y.ranked[2] /\ d > 0
  BY DEF Rankable
<1>3. PICK e \in Int, f \in Nat : e = z.ranked[1] /\ f = z.ranked[2] /\ f > 0
  BY DEF Rankable
<1>4. /\ Less(x.ranked, y.ranked) <=> a * d < c * b
      /\ Less(y.ranked, x.ranked) <=> c * b < a * d
      /\ Less(y.ranked, z.ranked) <=> c * f < e * d
      /\ Less(x.ranked, z.ranked) <=> a * f < e * b
  BY <1>1, <1>2, <1>3 DEF Less
<1>5. a * d \in Int /\ c * b \in Int /\ c * f \in Int /\ e * d \in Int /\ a * f \in Int /\ e * b \in Int
  OBVIOUS
<1>6. ASSUME c * b <= a * d, e * d <= c * f
      PROVE  e * b <= a * f
  <2>1. (e * d) * b <= (c * f) * b
    BY <1>1, <1>5, <1>6, TimesKeepsOrder
  <2>2. (c * b) * f <= (a * d) * f
    BY <1>3, <1>5, <1>6, TimesKeepsOrder
  <2>3. (e * d) * b = (e * b) * d /\ (c * f) * b = (c * b) * f /\ (a * d) * f = (a * f) * d
    OBVIOUS
  <2>4. PICK u \in Int : u = e * b
    BY <1>5
  <2>5. PICK v \in Int : v = a * f
    BY <1>5
  <2>6. (c * b) * f \in Int /\ u * d \in Int /\ v * d \in Int
    OBVIOUS
  <2>7. u * d <= v * d
    BY <2>1, <2>2, <2>3, <2>4, <2>5, <2>6
  <2>8. v < u => v * d < u * d
    BY <1>2, TimesKeepsOrder
  <2> QED
    BY <2>4, <2>5, <2>6, <2>7, <2>8
<1> QED
  BY <1>4, <1>5, <1>6

InOrderOf(list) == \A i, j \in DOMAIN list : i < j => ~Less(list[i].ranked, list[j].ranked)

LEMMA OrderExists ==
    ASSUME NEW S, IsFiniteSet(S), \A x \in S : Rankable(x)
    PROVE  \E list \in SetToSeqs(S) : InOrderOf(list)
<1> DEFINE F == {s \in SUBSET S : \E list \in SetToSeqs(s) : InOrderOf(list)}
           R == {z \in S \X S : ~Less(z[2].ranked, z[1].ranked)}
<1>1. {} \in F
  <2>1. Cardinality({}) = 0
    BY FS_EmptySet
  <2> DEFINE none == [i \in 1 .. 0 |-> 0]
  <2>2. none \in SetToSeqs({}) /\ InOrderOf(none)
    BY <2>1 DEF SetToSeqs, InOrderOf
  <2> HIDE DEF none
  <2> QED
    BY <2>2
<1>2. \A a, b \in S : <<a, b>> \in R <=> ~Less(b.ranked, a.ranked)
  OBVIOUS
<1> HIDE DEF R
<1>3. \A a, b \in S : <<a, b>> \in R \/ <<b, a>> \in R
  BY <1>2, NotBehind
<1>4. \A a, b, c \in S : <<a, b>> \in R /\ <<b, c>> \in R => <<a, c>> \in R
  BY <1>2, NotBehind
<1>5. ASSUME NEW s \in SUBSET S, s # {}, \A x \in s : s \ {x} \in F
      PROVE  s \in F
  <2>1. IsFiniteSet(s)
    BY FS_Subset
  <2>2. PICK m \in s : \A x \in s : <<m, x>> \in R
    <3>1. /\ \A a, b \in s : <<a, b>> \in R \/ <<b, a>> \in R
          /\ \A a, b, c \in s : <<a, b>> \in R /\ <<b, c>> \in R => <<a, c>> \in R
      BY <1>3, <1>4
    <3> QED
      BY <1>5, <2>1, <3>1, Greatest
  <2>3. PICK l \in SetToSeqs(s \ {m}) : InOrderOf(l)
    BY <1>5
  <2>4. PICK n \in Nat : Cardinality(s) = n + 1 /\ Cardinality(s \ {m}) = n
    <3>1. Cardinality(s) \in Nat /\ Cardinality(s \ {m}) = Cardinality(s) - 1
          /\ Cardinality(s \ {m}) \in Nat
      BY <2>1, FS_CardinalityType, FS_RemoveElement, FS_Subset
    <3> QED
      BY <3>1
  <2>5. l \in [1 .. n -> s \ {m}] /\ \A i, j \in 1 .. n : i # j => l[i] # l[j]
    BY <2>3, <2>4 DEF SetToSeqs
  <2> DEFINE list == [i \in 1 .. n + 1 |-> IF i <= n THEN l[i] ELSE m]
  <2>6. /\ DOMAIN list = 1 .. n + 1 /\ \A i \in 1 .. n : i \in 1 .. n + 1 /\ list[i] = l[i]
        /\ list[n + 1] = m /\ \A i \in 1 .. n + 1 : i = n + 1 \/ i \in 1 .. n
    OBVIOUS
  <2> HIDE DEF list
  <2>7. \A i \in 1 .. n + 1 : list[i] \in s
    BY <2>5, <2>6
  <2>8. \A i, j \in 1 .. n + 1 : i # j => list[i] # list[j]
    <3> TAKE i, j \in 1 .. n + 1
    <3>1. CASE i \in 1 .. n /\ j \in 1 .. n
      BY <2>5, <2>6, <3>1
    <3>2. CASE i = n + 1 /\ j \in 1 .. n
      BY <2>5, <2>6, <3>2
    <3>3. CASE i \in 1 .. n /\ j = n + 1
      BY <2>5, <2>6, <3>3
    <3>4. i = n + 1 \/ i \in 1 .. n
      BY <2>6
    <3>5. j = n + 1 \/ j \in 1 .. n
      BY <2>6
    <3> QED
      BY <3>1, <3>2, <3>3, <3>4, <3>5
  <2>9. list \in SetToSeqs(s)
    <3>1. list = [i \in 1 .. n + 1 |-> list[i]]
      BY DEF list
    <3>2. list \in [1 .. n + 1 -> s]
      BY <2>7, <3>1
    <3> QED
      BY <2>4, <2>8, <3>2 DEF SetToSeqs
  <2>10. InOrderOf(list)
    <3> SUFFICES ASSUME NEW i \in 1 .. n + 1, NEW j \in 1 .. n + 1, i < j
                 PROVE  ~Less(list[i].ranked, list[j].ranked)
      BY <2>6 DEF InOrderOf
    <3>1. i \in 1 .. n
      OBVIOUS
    <3>2. CASE j \in 1 .. n
      <4>1. ~Less(l[i].ranked, l[j].ranked)
        BY <2>3, <2>5, <3>1, <3>2 DEF InOrderOf
      <4> QED
        BY <2>6, <3>1, <3>2, <4>1
    <3>3. CASE j = n + 1
      <4>1. <<m, l[i]>> \in R /\ l[i] \in S /\ m \in S
        BY <2>2, <2>5, <3>1
      <4>2. ~Less(l[i].ranked, m.ranked)
        BY <1>2, <4>1
      <4> QED
        BY <2>6, <3>1, <3>3, <4>2
    <3> QED
      BY <2>6, <3>2, <3>3
  <2> QED
    BY <2>9, <2>10
<1> HIDE DEF F
<1>6. SUBSET S \subseteq F
  BY <1>1, <1>5, Smallest
<1> QED
  BY <1>6 DEF F

LEMMA InOrderIs ==
    ASSUME NEW S, IsFiniteSet(S), \A x \in S : Rankable(x)
    PROVE  InOrder(S) \in Seq(S) /\ InOrderOf(InOrder(S))
<1>1. InOrder(S) \in SetToSeqs(S) /\ InOrderOf(InOrder(S))
  BY OrderExists DEF InOrder, InOrderOf
<1>2. Cardinality(S) \in Nat /\ InOrder(S) \in [1 .. Cardinality(S) -> S]
  BY <1>1, FS_CardinalityType DEF SetToSeqs
<1>3. PICK n \in Nat : InOrder(S) \in [1 .. n -> S]
  BY <1>2
<1> QED
  BY <1>1, <1>3

LEMMA PageIs ==
    ASSUME NEW S, NEW list \in Seq(S), NEW limit \in Nat
    PROVE  LET page == Page(list, 0, limit) IN
           /\ page \in Seq(S) /\ Len(page) <= Len(list)
           /\ \A i \in DOMAIN page : i \in DOMAIN list /\ page[i] = list[i]
<1>1. PICK n \in Nat : n = Min({0 + limit, Len(list)}) /\ n <= Len(list)
  <2>1. Len(list) \in Nat
    OBVIOUS
  <2>2. PICK k \in Nat : k = Len(list)
    BY <2>1
  <2>3. PICK j \in Nat : j = 0 + limit
    OBVIOUS
  <2>4. Min({j, k}) = IF j <= k THEN j ELSE k
    BY LeastAndGreatest
  <2> QED
    BY <2>2, <2>3, <2>4
<1>2. Page(list, 0, limit) = SubSeq(list, 1, n)
  BY <1>1 DEF Page
<1>3. \A i \in 1 .. n : list[i] \in S /\ i \in DOMAIN list
  BY <1>1
<1>4. /\ SubSeq(list, 1, n) \in Seq(S)
      /\ Len(SubSeq(list, 1, n)) = IF 1 <= n THEN n - 1 + 1 ELSE 0
      /\ \A i \in 1 .. n - 1 + 1 : SubSeq(list, 1, n)[i] = list[1 + i - 1]
  BY <1>3, SubSeqProperties
<1>5. PICK page \in Seq(S) : page = SubSeq(list, 1, n)
  BY <1>4
<1>6. Len(page) = n /\ \A i \in 1 .. n : page[i] = list[i]
  BY <1>4, <1>5
<1>7. DOMAIN page = 1 .. n
  BY <1>6
<1> QED
  BY <1>1, <1>2, <1>3, <1>5, <1>6, <1>7

-----------------------------------------------------------------------------
(* Similarity *)

\* A profile: numbers, for some of the metrics.
Direction(v) == DOMAIN v \subseteq Metric /\ \A m \in DOMAIN v : v[m] \in Int

LEMMA DotIsInt ==
    ASSUME NEW v, NEW w, Direction(v), Direction(w), NEW shared \in SUBSET (DOMAIN v \cap DOMAIN w)
    PROVE  Dot(v, w, shared) \in Int
<1> DEFINE f == [m \in shared |-> v[m] * w[m]]
<1>1. Dot(v, w, shared) = SumFunction(f)
  BY DEF Dot
<1>2. IsFiniteSet(shared)
  BY MetricAssumption, FS_Subset DEF Direction
<1>3. DOMAIN f = shared /\ \A m \in shared : f[m] \in Int
  <2>1. ASSUME NEW m \in shared PROVE v[m] * w[m] \in Int
    <3>1. v[m] \in Int /\ w[m] \in Int
      BY DEF Direction
    <3> QED
      BY <3>1
  <2> QED
    BY <2>1
<1> HIDE DEF f
<1> QED
  BY <1>1, <1>2, <1>3, SumFunctionIsInt

\* The greatest of some whole numbers up to a hundred.
LEMMA GreatestPercent ==
    ASSUME NEW K \in SUBSET (0 .. 100), K # {}
    PROVE  Max(K) \in K
<1> DEFINE rest == {n \in Nat : \E k \in K : n = 100 - k}
<1>1. PICK k \in K : TRUE
  OBVIOUS
<1>2. 100 - k \in rest
  BY <1>1
<1>3. PICK n \in rest : \A j \in rest : n <= j
  BY <1>2, Least
<1>4. PICK g \in K : n = 100 - g
  BY <1>3
<1>5. ASSUME NEW j \in K PROVE j <= g
  <2>1. 100 - j \in rest
    OBVIOUS
  <2>2. n <= 100 - j
    BY <1>3, <2>1
  <2> HIDE DEF rest
  <2> QED
    BY <1>4, <2>2
<1>6. \E x \in K : \A y \in K : x >= y
  BY <1>4, <1>5
<1> QED
  BY <1>6 DEF Max

LEMMA IndexIsInt ==
    ASSUME NEW v, NEW w, Direction(v), Direction(w)
    PROVE  Index(v, w, Shared(v, w)) \in Int
<1> DEFINE shared == Shared(v, w)
<1>1. shared = DOMAIN v \cap DOMAIN w
  BY DEF Shared
<1>2. PICK dot \in Int : dot = Dot(v, w, shared)
  BY <1>1, DotIsInt
<1>3. PICK a \in Int : a = Dot(v, v, shared)
  BY <1>1, DotIsInt
<1>4. PICK b \in Int : b = Dot(w, w, shared)
  BY <1>1, DotIsInt
<1> DEFINE K == {k \in 0 .. 100 : k * k * (a * b) <= 10000 * dot * dot}
<1>5. Index(v, w, shared) = IF dot <= 0 THEN 0 ELSE Max(K)
  BY <1>2, <1>3, <1>4 DEF Index
<1>6. 0 \in K
  <2>1. 0 * 0 * (a * b) = 0
    OBVIOUS
  <2>2. 10000 * dot * dot >= 0
    <3>1. dot * dot >= 0 /\ dot * dot \in Int
      OBVIOUS
    <3>2. 10000 * dot * dot = 10000 * (dot * dot)
      OBVIOUS
    <3> QED
      BY <3>1, <3>2
  <2> QED
    BY <2>1, <2>2
<1> HIDE DEF shared
<1>7. K \in SUBSET (0 .. 100) /\ (\A k \in K : k \in Int)
  OBVIOUS
<1> HIDE DEF K
<1>8. Max(K) \in Int
  BY <1>6, <1>7, GreatestPercent
<1> QED
  BY <1>5, <1>8 DEF shared

LEMMA VectorIs ==
    ASSUME NEW engine, IsFiniteSet(engine), NEW s, s.group \in Group
    PROVE  Direction(Vector(engine, s))
<1> DEFINE metrics == Features[s.group]
           ranked == RankAll(engine, s, metrics, "global", {})
           v == Vector(engine, s)
<1>1. metrics \subseteq Metric
  BY FeaturesAssumption DEF ValidFeatures
<1>2. DOMAIN ranked = metrics /\ \A m \in metrics : RankMade(ranked[m])
  BY RankedAreMade
<1>3. v = [m \in {n \in DOMAIN ranked : ranked[n].percentile # None} |->
            (24 * ranked[m].percentile) \div Hundred - 12]
  BY DEF Vector, Centred
<1> HIDE DEF ranked, v, metrics
<1>4. DOMAIN v = {n \in metrics : ranked[n].percentile # None}
  BY <1>2, <1>3
<1>5. ASSUME NEW m \in DOMAIN v PROVE v[m] \in Int
  <2>1. PICK p \in Int : p = ranked[m].percentile
    BY <1>2, <1>4 DEF RankMade
  <2>2. (24 * p) \div Hundred \in Int
    BY ScaleAssumption
  <2>3. v[m] = (24 * p) \div Hundred - 12
    BY <1>2, <1>3, <1>4, <2>1
  <2> QED
    BY <2>2, <2>3
<1> QED
  BY <1>1, <1>4, <1>5 DEF v, Direction

LEMMA ShrunkIsAFraction ==
    ASSUME NEW value \in Int, NEW m, Mean(m), NEW weight \in 0 .. Established
    PROVE  Shrunk(value, m, weight)[1] \in Int /\ Shrunk(value, m, weight)[2] \in Nat \ {0}
<1>1. PICK E \in Nat : E = Established /\ E > 0
  BY EvidenceAssumption
<1>2. PICK a \in Int, b \in Nat : a = m[1] /\ b = m[2] /\ b > 0
  BY DEF Mean
<1>3. weight \in Int
  BY <1>1
<1>4. a * (E - weight) + b * weight * value \in Int
  BY <1>3
<1>5. b * E \in Nat /\ b * E > 0
  BY <1>1, <1>2
<1> QED
  BY <1>1, <1>2, <1>4, <1>5 DEF Shrunk

\* Everything that is ranked by its evidence can be ordered.
LEMMA EvidenceIsAFraction ==
    ASSUME NEW list, Candidates(list), NEW c \in DOMAIN list
    PROVE  RankByEvidence(list, None)[c][1] \in Int /\ RankByEvidence(list, None)[c][2] \in Nat \ {0}
<1>1. PICK none : none = None
  OBVIOUS
<1>2. IsFiniteSet(DOMAIN list) /\ \A d \in DOMAIN list : list[d].value \in Int
  BY DEF Candidates
<1>3. PICK m : Mean(m) /\ RankByEvidence(list, none)[c]
                    = Shrunk(list[c].value, m, EvidenceWeight(list[c].minutes))
  BY <1>1, <1>2, RankedByEvidence
<1>4. EvidenceWeight(list[c].minutes) \in 0 .. Established
  BY EvidenceWeightIs DEF Candidates
<1> QED
  BY <1>1, <1>2, <1>3, <1>4, ShrunkIsAFraction

\* Who resembles a player: finitely many, with an index and a rank each.
SimilarMade(x) == x.similarity \in Int /\ x.player \in DOMAIN view.shown /\ Rankable(x)

LEMMA SimilarAre ==
    ASSUME AnswerInv, view # None, NEW p \in DOMAIN view.shown, NEW f, NEW minMinutes
    PROVE  LET found == SimilarTo(view.engine, view.shown, view.shown[p], f, minMinutes) IN
           IsFiniteSet(found) /\ \A x \in found : SimilarMade(x)
<1> DEFINE vectors == [q \in DOMAIN view.shown |-> Vector(view.engine, view.shown[q])]
           compared == ComparedWith(view.shown, vectors, view.shown[p], f, minMinutes)
           index == Indices(vectors[p], vectors, compared)
           list == [q \in DOMAIN index |->
                        [value |-> index[q], minutes |-> RecordedMinutes(view.shown[q])]]
           ranked == RankByEvidence(list, None)
           ones == SimilarOnes(vectors[p], vectors, index, ranked)
<1>1. \A q \in DOMAIN vectors : Direction(vectors[q])
  BY ViewFacts, VectorIs
<1>2. compared \subseteq DOMAIN view.shown /\ IsFiniteSet(compared)
  BY ViewFacts, FS_Subset DEF ComparedWith
<1>3. \/ SimilarTo(view.engine, view.shown, view.shown[p], f, minMinutes) = {}
      \/ SimilarTo(view.engine, view.shown, view.shown[p], f, minMinutes) = ones
  <2>1. view.shown[p].player = p
    BY ViewFacts
  <2> QED
    BY <2>1 DEF SimilarTo, SimilarAmong, SimilarByEvidence
<1>4. /\ DOMAIN index = compared
      /\ \A q \in compared : index[q] = Index(vectors[p], vectors[q], Shared(vectors[p], vectors[q]))
  BY DEF Indices
<1>5. DOMAIN vectors = DOMAIN view.shown
  OBVIOUS
<1> HIDE DEF vectors, compared, index
<1>6. \A q \in compared : index[q] \in Int
  BY <1>1, <1>2, <1>4, <1>5, IndexIsInt
<1>7. Candidates(list)
  <2>1. ASSUME NEW q \in compared PROVE RecordedMinutes(view.shown[q]) \in Nat \cup {None}
    <3>1. view.shown[q] \in SeasonRow
      BY <1>2, ViewFacts
    <3> QED
      BY <3>1, UniverseAssumption DEF SeasonRow, RecordedMinutes
  <2>2. DOMAIN list = compared /\ \A q \in compared : list[q].value = index[q]
                /\ list[q].minutes = RecordedMinutes(view.shown[q])
    BY <1>4
  <2> HIDE DEF list
  <2> QED
    BY <1>2, <1>6, <2>1, <2>2 DEF Candidates
<1>8. DOMAIN list = compared
  BY <1>4
<1> HIDE DEF list
<1>9. \A q \in compared : ranked[q][1] \in Int /\ ranked[q][2] \in Nat \ {0}
  BY <1>7, <1>8, EvidenceIsAFraction
<1> DEFINE one(q) == [ player |-> q, similarity |-> index[q], ranked |-> ranked[q],
                       comparable |-> Comparable(vectors[p], vectors[q], Shared(vectors[p], vectors[q])) ]
           alike == {q \in compared : index[q] >= MinimumSimilarity}
<1>10. ones = {one(q) : q \in alike}
  BY <1>4 DEF SimilarOnes
<1> HIDE DEF ranked, ones
<1>11. \A x \in ones : SimilarMade(x)
  <2> SUFFICES ASSUME NEW q \in alike PROVE SimilarMade(one(q))
    BY <1>10
  <2>1. q \in compared
    OBVIOUS
  <2>2. one(q).similarity = index[q] /\ one(q).player = q /\ one(q).ranked = ranked[q]
    OBVIOUS
  <2> HIDE DEF one, alike
  <2> QED
    BY <1>2, <1>6, <1>9, <2>1, <2>2 DEF SimilarMade, Rankable
<1>12. IsFiniteSet(ones)
  <2> DEFINE g == [q \in alike |-> one(q)]
  <2>1. IsFiniteSet(alike)
    BY <1>2, FS_Subset
  <2>2. ones = {g[q] : q \in alike}
    BY <1>10
  <2> HIDE DEF g, alike
  <2> QED
    BY <2>1, <2>2, ImageIsFinite
<1>13. IsFiniteSet({})
  BY FS_EmptySet
<1> QED
  BY <1>3, <1>11, <1>12, <1>13

-----------------------------------------------------------------------------
(* Replacements *)

\* What is raised to nothing at least.
LEMMA AtLeastNothing == \A n \in Int : Max({0, n}) \in Int
<1> TAKE n \in Int
<1>1. Max({0, n}) = IF 0 >= n THEN 0 ELSE n
  BY LeastAndGreatest
<1> QED
  BY <1>1

LEMMA MarketFitIs ==
    ASSUME NEW s, s.value \in Nat \cup {None}, NEW budget \in Nat \cup {None}
    PROVE  /\ MarketFit(s, budget) \in Int \cup {None}
           /\ MarketFit(s, budget) # None => Known(budget) # 0
<1> SUFFICES ASSUME Known(budget) # 0, s.value # None
             PROVE  MarketFit(s, budget) \in Int
  BY DEF MarketFit
<1>1. PICK b \in Nat : b = budget /\ b > 0
  BY DEF Known
<1>2. PICK value \in Nat : value = s.value
  OBVIOUS
<1>3. PICK n \in Int : n = Hundred - (Hundred * value) \div b
  <2>1. Hundred * value \in Int
    BY ScaleAssumption
  <2>2. (Hundred * value) \div b \in Int
    BY <1>1, <2>1
  <2>3. Hundred - (Hundred * value) \div b \in Int
    BY <2>2, ScaleAssumption
  <2> QED
    BY <2>3
<1>4. MarketFit(s, budget) = Max({0, n})
  BY <1>1, <1>2, <1>3 DEF MarketFit
<1> QED
  BY <1>3, <1>4, AtLeastNothing

LEMMA FitForIs ==
    ASSUME AnswerInv, view # None, NEW s, NEW role \in Role \cup {None}
    PROVE  /\ FitFor(view, s, role) \in Int \cup {None}
           /\ FitFor(view, s, role) # None => role # None
<1>1. IsFiniteSet(view.engine)
  BY ViewFacts
<1>2. role # None => RoleScore(view.engine, s, role, "competition", {}).score \in Int \cup {None}
  BY <1>1, RoleIs
<1> QED
  BY <1>2 DEF FitFor

LEMMA PartOf ==
    \A part, w, v : part = [weight |-> w, value |-> v] => part.weight = w /\ part.value = v
OBVIOUS

\* A replacement's parts can be weighed, and what is given of them beside the
\* similarity is never more than what is required.
LEMMA PartsAre ==
    ASSUME NEW similarity \in Int, NEW roleFit \in Int \cup {None}, NEW marketFit \in Int \cup {None}
    PROVE  LET parts == ReplacementParts(similarity, roleFit, marketFit) IN
           /\ Weighable(parts)
           /\ Given(parts) \subseteq {"similarity", "role fit", "affordability"}
           /\ "role fit" \in Given(parts) => roleFit # None
           /\ "affordability" \in Given(parts) => marketFit # None
<1> DEFINE parts == ReplacementParts(similarity, roleFit, marketFit)
           names == {"similarity", "role fit", "affordability"}
<1>1. (Hundred * similarity) \div 100 \in Int
  BY ScaleAssumption
<1>2. /\ DOMAIN parts = names
      /\ parts["similarity"] = [weight |-> SimilarityWeight, value |-> (Hundred * similarity) \div 100]
      /\ parts["role fit"] = [weight |-> RoleWeight, value |-> roleFit]
      /\ parts["affordability"] = [weight |-> MarketWeight, value |-> marketFit]
  BY DEF ReplacementParts
<1> HIDE DEF parts
<1>20. /\ parts["similarity"].weight = SimilarityWeight
       /\ parts["similarity"].value = (Hundred * similarity) \div 100
       /\ parts["role fit"].weight = RoleWeight /\ parts["role fit"].value = roleFit
       /\ parts["affordability"].weight = MarketWeight /\ parts["affordability"].value = marketFit
  <2>1. \A part, w, v : part = [weight |-> w, value |-> v] => part.weight = w /\ part.value = v
    BY PartOf
  <2>2. parts["similarity"] = [weight |-> SimilarityWeight, value |-> (Hundred * similarity) \div 100]
    BY <1>2
  <2>3. parts["role fit"] = [weight |-> RoleWeight, value |-> roleFit]
    BY <1>2
  <2>4. parts["affordability"] = [weight |-> MarketWeight, value |-> marketFit]
    BY <1>2
  <2>5. parts["similarity"].weight = SimilarityWeight
        /\ parts["similarity"].value = (Hundred * similarity) \div 100
    <3>1. PICK n \in Int : n = (Hundred * similarity) \div 100
      BY <1>1
    <3>2. parts["similarity"] = [weight |-> SimilarityWeight, value |-> n]
      BY <2>2, <3>1
    <3>3. parts["similarity"].weight = SimilarityWeight /\ parts["similarity"].value = n
      BY <2>1, <3>2, Zenon
    <3> QED
      BY <3>1, <3>3
  <2>6. parts["role fit"].weight = RoleWeight /\ parts["role fit"].value = roleFit
    BY <2>1, <2>3, Zenon
  <2>7. parts["affordability"].weight = MarketWeight /\ parts["affordability"].value = marketFit
    BY <2>1, <2>4, Zenon
  <2> QED
    BY <2>5, <2>6, <2>7
<1>21. /\ SimilarityWeight \in Nat \ {0} /\ RoleWeight \in Nat \ {0} /\ MarketWeight \in Nat \ {0}
  BY DEF SimilarityWeight, RoleWeight, MarketWeight
<1>22. /\ (Hundred * similarity) \div 100 \in Int \cup {None}
       /\ roleFit \in Int \cup {None} /\ marketFit \in Int \cup {None}
  BY <1>1
<1>3. IsFiniteSet(names)
  <2>1. \A S, x : IsFiniteSet(S) => IsFiniteSet(S \cup {x})
    BY SingletonsAdded
  <2>2. names = (({} \cup {"similarity"}) \cup {"role fit"}) \cup {"affordability"}
    OBVIOUS
  <2>3. IsFiniteSet({})
    BY FS_EmptySet
  <2>4. IsFiniteSet((({} \cup {"similarity"}) \cup {"role fit"}) \cup {"affordability"})
    BY <2>1, <2>3, Zenon
  <2> QED
    BY <2>2, <2>4
<1>4. \A c \in names : parts[c].weight \in Nat \ {0} /\ parts[c].value \in Int \cup {None}
  BY <1>20, <1>21, <1>22, Zenon
<1>5. Weighable(parts)
  <2> HIDE DEF names
  <2> QED
    BY <1>2, <1>3, <1>4 DEF Weighable
<1>6. /\ Given(parts) \subseteq names
      /\ "role fit" \in Given(parts) => roleFit # None
      /\ "affordability" \in Given(parts) => marketFit # None
  <2>1. Given(parts) = {c \in names : parts[c].value # None}
    BY <1>2 DEF Given
  <2> QED
    BY <1>20, <2>1, Zenon
<1> QED
  BY <1>5, <1>6 DEF parts

\* A candidate as the search makes it: with a score, everything required is there
\* and nothing else.
CandidateMade(c, required) ==
    /\ c.similarity \in Int /\ c.minutes \in Nat \cup {None}
    /\ c.overall \in Int \cup {None}
    /\ c.overall # None => c.given = required

LEMMA ReplacementIs ==
    ASSUME AnswerInv, view # None, NEW x, SimilarMade(x), NEW role \in Role \cup {None},
           NEW budget \in Nat \cup {None}
    PROVE  CandidateMade(Replacement(view, x, role, budget), RequiredComponents(role, budget))
<1> DEFINE s == view.shown[x.player]
           fit == FitFor(view, s, role)
           market == MarketFit(s, budget)
           parts == ReplacementParts(x.similarity, fit, market)
           required == RequiredComponents(role, budget)
           c == Replacement(view, x, role, budget)
<1>1. x.player \in DOMAIN view.shown /\ x.similarity \in Int
  BY DEF SimilarMade
<1>2. s.minutes \in Nat \cup {None} /\ s.value \in Nat \cup {None}
  BY <1>1, ShownMinutes
<1>3. c = [ player |-> x.player, similarity |-> x.similarity,
            given |-> Given(parts) \ {"similarity"}, minutes |-> s.minutes,
            overall |-> IF required \subseteq Given(parts)
                        THEN Weighted(parts, SimilarityWeight).score ELSE None ]
  BY DEF Replacement, ReplacementFrom
<1> HIDE DEF s, c, required
<1>4. fit \in Int \cup {None} /\ (fit # None => role # None)
  BY FitForIs
<1>5. market \in Int \cup {None} /\ (market # None => Known(budget) # 0)
  BY <1>2, MarketFitIs
<1> HIDE DEF fit, market
<1>6. /\ Weighable(parts) /\ Given(parts) \subseteq {"similarity", "role fit", "affordability"}
      /\ "role fit" \in Given(parts) => fit # None
      /\ "affordability" \in Given(parts) => market # None
  BY <1>1, <1>4, <1>5, PartsAre
<1> HIDE DEF parts
<1>7. Weighted(parts, SimilarityWeight).score \in Int \cup {None}
  BY <1>6, WeightedIsInt
<1>8. required \subseteq Given(parts) => Given(parts) \ {"similarity"} = required
  BY <1>4, <1>5, <1>6 DEF required, RequiredComponents
<1>9. /\ c.similarity = x.similarity /\ c.minutes = s.minutes
      /\ c.given = Given(parts) \ {"similarity"}
      /\ c.overall = IF required \subseteq Given(parts)
                     THEN Weighted(parts, SimilarityWeight).score ELSE None
  BY <1>3
<1>10. CandidateMade(c, required)
  BY <1>1, <1>2, <1>7, <1>8, <1>9 DEF CandidateMade
<1> QED
  BY <1>10 DEF c, required

\* One group of candidates in order: each is one of the group.
LEMMA GroupIs ==
    ASSUME NEW value, IsFiniteSet(DOMAIN value),
           \A c \in DOMAIN value : value[c] \in Int /\ c.minutes \in Nat \cup {None}
    PROVE  \E S : /\ OrderedByEvidence(value) \in Seq(S)
                  /\ \A x \in S : \E c \in DOMAIN value : x.overall = c.overall /\ x.given = c.given
<1> DEFINE list == [c \in DOMAIN value |-> [value |-> value[c], minutes |-> c.minutes]]
           adjusted == RankByEvidence(list, None)
           one(c) == [ player |-> c.player, raw |-> value[c], minutes |-> c.minutes,
                       overall |-> c.overall, given |-> c.given, ranked |-> adjusted[c] ]
           S == {one(c) : c \in DOMAIN value}
<1>1. OrderedByEvidence(value) = InOrder(S)
  BY DEF OrderedByEvidence
<1>2. Candidates(list) /\ DOMAIN list = DOMAIN value
  BY DEF Candidates
<1> HIDE DEF list
<1>3. \A c \in DOMAIN value : adjusted[c][1] \in Int /\ adjusted[c][2] \in Nat \ {0}
  BY <1>2, EvidenceIsAFraction
<1> HIDE DEF adjusted
<1>4. \A c \in DOMAIN value : Rankable(one(c)) /\ one(c).overall = c.overall /\ one(c).given = c.given
  BY <1>3 DEF Rankable
<1>5. IsFiniteSet(S)
  <2> DEFINE g == [c \in DOMAIN value |-> one(c)]
  <2>1. S = {g[c] : c \in DOMAIN value}
    OBVIOUS
  <2> HIDE DEF g, S
  <2> QED
    BY <2>1, ImageIsFinite
<1>6. \A x \in S : Rankable(x) /\ \E c \in DOMAIN value : x.overall = c.overall /\ x.given = c.given
  <2> HIDE DEF one
  <2> QED
    BY <1>4
<1> HIDE DEF S
<1>7. InOrder(S) \in Seq(S)
  BY <1>5, <1>6, InOrderIs
<1> QED
  BY <1>1, <1>6, <1>7

Ranked(candidates) ==
    Page(OrderedByEvidence([c \in {d \in candidates : d.overall # None} |-> c.overall])
         \o OrderedByEvidence([c \in {d \in candidates : d.overall = None} |-> c.similarity]), 0, Limit)

LEMMA ReplacementsAre ==
    ASSUME NEW candidates, IsFiniteSet(candidates), NEW required,
           \A c \in candidates : CandidateMade(c, required)
    PROVE  LET items == Ranked(candidates) IN
           /\ \A i \in DOMAIN items : items[i].overall # None => items[i].given = required
           /\ \A i, j \in DOMAIN items :
                i < j /\ items[i].overall = None => items[j].overall = None
<1> DEFINE complete == {c \in candidates : c.overall # None}
           incomplete == {c \in candidates : c.overall = None}
           value == [c \in complete |-> c.overall]
           alike == [c \in incomplete |-> c.similarity]
<1>1. /\ IsFiniteSet(complete) /\ IsFiniteSet(incomplete)
      /\ DOMAIN value = complete /\ DOMAIN alike = incomplete
  BY FS_Subset
<1>2. /\ \A c \in complete : value[c] \in Int /\ c.minutes \in Nat \cup {None}
      /\ \A c \in incomplete : alike[c] \in Int /\ c.minutes \in Nat \cup {None}
  BY DEF CandidateMade
<1>3. Ranked(candidates) = Page(OrderedByEvidence(value) \o OrderedByEvidence(alike), 0, Limit)
  BY DEF Ranked
<1> HIDE DEF value, alike
<1>4. PICK S : /\ OrderedByEvidence(value) \in Seq(S)
               /\ \A x \in S : \E c \in complete : x.overall = c.overall /\ x.given = c.given
  BY <1>1, <1>2, GroupIs
<1>5. PICK T : /\ OrderedByEvidence(alike) \in Seq(T)
               /\ \A x \in T : \E c \in incomplete : x.overall = c.overall /\ x.given = c.given
  BY <1>1, <1>2, GroupIs
<1>6. PICK first \in Seq(S) : first = OrderedByEvidence(value)
  BY <1>4
<1>7. PICK last \in Seq(T) : last = OrderedByEvidence(alike)
  BY <1>5
<1>8. \A x \in S : x.overall # None /\ x.given = required
  BY <1>4 DEF CandidateMade
<1>9. \A x \in T : x.overall = None
  BY <1>5
<1>10. first \in Seq(S \cup T) /\ last \in Seq(S \cup T)
  BY <1>6, <1>7
<1>11. /\ first \o last \in Seq(S \cup T)
       /\ Len(first \o last) = Len(first) + Len(last)
       /\ \A i \in 1 .. Len(first) + Len(last) : (first \o last)[i] =
                IF i <= Len(first) THEN first[i] ELSE last[i - Len(first)]
  BY <1>10, ConcatProperties
<1>12. PICK all \in Seq(S \cup T) : all = first \o last
  BY <1>11
<1>13. \A i \in DOMAIN all : /\ i <= Len(first) => all[i] \in S
                             /\ i > Len(first) => all[i] \in T
  <2> TAKE i \in DOMAIN all
  <2>1. i \in 1 .. Len(first) + Len(last) /\ Len(first) \in Nat /\ Len(last) \in Nat
    BY <1>11, <1>12
  <2>2. CASE i <= Len(first)
    <3>1. all[i] = first[i] /\ i \in 1 .. Len(first)
      BY <1>11, <1>12, <2>1, <2>2
    <3> QED
      BY <2>2, <3>1
  <2>3. CASE i > Len(first)
    <3>1. all[i] = last[i - Len(first)] /\ i - Len(first) \in 1 .. Len(last)
      BY <1>11, <1>12, <2>1, <2>3
    <3>2. last[i - Len(first)] \in T
      BY <3>1
    <3> QED
      BY <2>1, <2>3, <3>1, <3>2
  <2> QED
    BY <2>1, <2>2, <2>3
<1> DEFINE items == Page(all, 0, Limit)
<1>14. items \in Seq(S \cup T) /\ \A i \in DOMAIN items : i \in DOMAIN all /\ items[i] = all[i]
  BY RequestAssumption, PageIs
<1>15. \A i \in DOMAIN all : i \in Nat
  OBVIOUS
<1>16. Ranked(candidates) = items
  BY <1>3, <1>6, <1>7, <1>12
<1> HIDE DEF items
<1>17. \A i \in DOMAIN items : items[i].overall # None => items[i].given = required
  <2> TAKE i \in DOMAIN items
  <2>1. items[i] \in S \/ items[i] \in T
    BY <1>13, <1>14, <1>15
  <2> QED
    BY <1>8, <1>9, <2>1
<1>18. \A i, j \in DOMAIN items : i < j /\ items[i].overall = None => items[j].overall = None
  <2> TAKE i, j \in DOMAIN items
  <2> HAVE i < j /\ items[i].overall = None
  <2>1. items[i] \notin S
    BY <1>8
  <2>2. i \in DOMAIN all /\ j \in DOMAIN all /\ items[i] = all[i] /\ items[j] = all[j]
    BY <1>14
  <2>3. ~(i <= Len(first))
    BY <1>13, <2>1, <2>2
  <2>4. j > Len(first)
    BY <1>15, <2>2, <2>3
  <2>5. items[j] \in T
    BY <1>13, <2>2, <2>4
  <2> QED
    BY <1>9, <2>5
<1> QED
  BY <1>16, <1>17, <1>18

\* All replacements that have a score were scored from the same parts, so that one
\* is not above another for lack of a part; and those whose score was withheld come
\* after all of them (recruitment.py replacement_search, _required_components).
THEOREM ReplacementsAreComparable == Spec => []ReplacementComparable
<1>1. AnswerInv => ReplacementComparable
  <2> SUFFICES ASSUME AnswerInv, answer # None, answer.kind = "replacement"
               PROVE  ReplacementComparable
    BY DEF ReplacementComparable
  <2>1. view # None /\ AnswerIs
    BY DEF AnswerInv
  <2>2. PICK p \in DOMAIN view.shown, f \in Filter : answer = ReplacementAnswer(view, p, f)
    BY <2>1 DEF AnswerIs
  <2> DEFINE role == IF Best(view, p) = None THEN None ELSE Best(view, p).role
             wanted == [Unconstrained EXCEPT !.minAge = f.minAge, !.maxAge = f.maxAge,
                !.maxValue = f.maxValue, !.comps = f.comps, !.nations = f.nations,
                !.within = f.within, !.minMinutes = f.minMinutes]
             least == IF wanted.minMinutes = None THEN 0 ELSE wanted.minMinutes
             found == SimilarTo(view.engine, view.shown, view.shown[p], wanted, least)
             similar == SimilarPage(view, p, wanted, 4 * Limit)
             kept == {y \in ToSet(similar) : PassesFilters(view.shown[y.player], f)}
             candidates == {Replacement(view, x, role, f.maxValue) : x \in kept}
             required == RequiredComponents(role, f.maxValue)
  <2>3. answer = Replacements(p, candidates)
    BY <2>2 DEF ReplacementAnswer
  <2>4. answer.items = Ranked(candidates)
    <3> HIDE DEF candidates
    <3> QED
      BY <2>3 DEF Replacements, ReplacementsOrdered, Ranked
  <2>5. role \in Role \cup {None} /\ f.maxValue \in Nat \cup {None}
    BY <2>1, BestIs, RequestAssumption
  <2>6. similar = Page(InOrder(found), 0, 4 * Limit)
    BY DEF SimilarPage, SimilarIn
  <2> HIDE DEF role, wanted, least
  <2>7. IsFiniteSet(found) /\ \A x \in found : SimilarMade(x)
    BY <2>1, SimilarAre
  <2> HIDE DEF found, similar
  <2>8. InOrder(found) \in Seq(found)
    BY <2>7, InOrderIs DEF SimilarMade
  <2>9. similar \in Seq(found)
    <3>1. PICK n \in Nat : n = 4 * Limit
      BY RequestAssumption
    <3> QED
      BY <2>6, <2>8, <3>1, PageIs
  <2>10. ToSet(similar) \subseteq found
    BY <2>9 DEF ToSet
  <2>11. kept \subseteq found /\ IsFiniteSet(kept)
    BY <2>7, <2>10, FS_Subset
  <2> HIDE DEF kept
  <2>12. \A c \in candidates : CandidateMade(c, required)
    BY <2>1, <2>5, <2>7, <2>11, ReplacementIs
  <2>13. IsFiniteSet(candidates)
    <3> DEFINE g == [x \in kept |-> Replacement(view, x, role, f.maxValue)]
    <3>1. candidates = {g[x] : x \in kept}
      OBVIOUS
    <3> HIDE DEF g, candidates
    <3> QED
      BY <2>11, <3>1, ImageIsFinite
  <2> HIDE DEF candidates, required
  <2>14. /\ \A i \in DOMAIN answer.items :
                answer.items[i].overall # None => answer.items[i].given = required
         /\ \A i, j \in DOMAIN answer.items :
                i < j /\ answer.items[i].overall = None => answer.items[j].overall = None
    BY <2>4, <2>12, <2>13, ReplacementsAre
  <2> QED
    BY <2>14 DEF ReplacementComparable
<1> QED
  BY <1>1, AnswerInit, AnswerNext, PTL DEF Spec
=============================================================================
