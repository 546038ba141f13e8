---------------------- MODULE ConstrainedTransport_proofs ----------------------
(***************************************************************************)
(* Constrained transport keeps the field free of divergence, closed at the *)
(* poles, and the same on both sides of a block boundary, on meshes of any *)
(* size, for any electromotive force and any number of substeps: by itself *)
(* (Spec), and with zones merged at the poles (RefinedSpec), which         *)
(* moreover moves no flux between coarse cells.                            *)
(***************************************************************************)
EXTENDS StaticMeshRefinement, FiniteSetTheorems, WellFoundedInduction, TLAPS

-----------------------------------------------------------------------------
(* Sums over a finite set, as the community modules fold them: one element   *)
(* after the other.  What is needed of them takes well-founded induction.    *)

\* The element a fold takes out of a set next
Pick(s) == CHOOSE x \in s : TRUE

\* The function of all subsets of S that a fold chooses
SumsOver(f, S, g) ==
    g = [s \in SUBSET S |-> IF s = {} THEN 0 ELSE f[Pick(s)] + g[s \ {Pick(s)}]]

\* The sum of f over S
Total(f, S) == SumFunctionOnSet(f, S)

\* A sum is the value of that function
LEMMA SumIsFold ==
    ASSUME NEW f, NEW S
    PROVE  Total(f, S) = (CHOOSE g : SumsOver(f, S, g))[S]
BY DEF Total, SumFunctionOnSet, FoldFunctionOnSet, MapThenFoldSet, SumsOver, Pick

\* There is an element to take out of a set with any
LEMMA PickIn == ASSUME NEW s, s # {} PROVE Pick(s) \in s
BY DEF Pick

\* Among subsets of a finite set, there is one that contains no other
LEMMA LeastSubset ==
    ASSUME NEW S, IsFiniteSet(S), NEW Bad \in SUBSET (SUBSET S), Bad # {}
    PROVE  \E s \in Bad : \A t \in Bad : t \subseteq s => t = s
<1>1. IsWellFoundedOn(StrictSubsetOrdering(S), SUBSET S)
    BY FS_StrictSubsetOrderingWellFounded, FS_FiniteSubsetsOfFinite
<1>2. PICK s \in Bad : \A t \in Bad : <<t, s>> \notin StrictSubsetOrdering(S)
    BY <1>1, WFMin
<1> QED BY <1>2 DEF StrictSubsetOrdering

\* Folds over a set and over one in it agree on what they have in common
LEMMA SumsAlike ==
    ASSUME NEW f, NEW S, IsFiniteSet(S), NEW T \in SUBSET S, NEW g, NEW h,
           SumsOver(f, S, g), SumsOver(f, T, h)
    PROVE  \A s \in SUBSET T : g[s] = h[s]
<1> DEFINE Bad == {s \in SUBSET T : g[s] # h[s]}
<1>1. IsFiniteSet(T)
    BY FS_Subset
<1>2. SUFFICES ASSUME Bad # {} PROVE FALSE
    OBVIOUS
<1>3. PICK s \in Bad : \A t \in Bad : t \subseteq s => t = s
    <2>1. Bad \in SUBSET (SUBSET T)
        OBVIOUS
    <2> HIDE DEF Bad
    <2> QED BY <1>1, <1>2, <2>1, LeastSubset
<1>4. s \in SUBSET S /\ s \in SUBSET T
    OBVIOUS
<1>5. /\ g[s] = IF s = {} THEN 0 ELSE f[Pick(s)] + g[s \ {Pick(s)}]
      /\ h[s] = IF s = {} THEN 0 ELSE f[Pick(s)] + h[s \ {Pick(s)}]
    BY <1>4 DEF SumsOver
<1>6. CASE s = {}
    BY <1>5, <1>6
<1>7. CASE s # {}
    <2>1. Pick(s) \in s
        BY <1>7, PickIn
    <2>2. s \ {Pick(s)} \notin Bad
        BY <1>3, <2>1
    <2> QED BY <1>5, <1>7, <2>2
<1> QED BY <1>6, <1>7

\* The function that a fold chooses exists
LEMMA SumsExist ==
    ASSUME NEW f, NEW S, IsFiniteSet(S)
    PROVE  \E g : SumsOver(f, S, g)
<1> DEFINE Bad == {s \in SUBSET S : ~ \E g : SumsOver(f, s, g)}
<1>1. SUFFICES ASSUME Bad # {} PROVE FALSE
    OBVIOUS
<1>2. PICK m \in Bad : \A t \in Bad : t \subseteq m => t = m
    <2>1. Bad \in SUBSET (SUBSET S)
        OBVIOUS
    <2> HIDE DEF Bad
    <2> QED BY <1>1, <2>1, LeastSubset
<1>3. \A u \in SUBSET m : u # m => SumsOver(f, u, CHOOSE g : SumsOver(f, u, g))
    BY <1>2
<1> DEFINE G == [t \in SUBSET m |-> IF t = {} THEN 0 ELSE f[Pick(t)] + Total(f, t \ {Pick(t)})]
<1>4. \A u \in SUBSET m : u # m => G[u] = Total(f, u)
    <2> SUFFICES ASSUME NEW u \in SUBSET m, u # m PROVE G[u] = Total(f, u)
        OBVIOUS
    <2> DEFINE gu == CHOOSE g : SumsOver(f, u, g)
    <2>1. SumsOver(f, u, gu) /\ Total(f, u) = gu[u]
        BY <1>3, SumIsFold
    <2>2. gu[u] = IF u = {} THEN 0 ELSE f[Pick(u)] + gu[u \ {Pick(u)}]
        BY <2>1 DEF SumsOver
    <2>3. CASE u = {}
        BY <2>1, <2>2, <2>3
    <2>4. CASE u # {}
        <3> DEFINE v == u \ {Pick(u)}
                   gv == CHOOSE g : SumsOver(f, v, g)
        <3>1. v \in SUBSET u /\ v # u
            BY <2>4, PickIn
        <3>2. SumsOver(f, v, gv) /\ Total(f, v) = gv[v]
            BY <1>3, <3>1, SumIsFold
        <3>3. IsFiniteSet(u)
            BY FS_Subset
        <3> HIDE DEF gu, gv, v
        <3>4. gu[v] = gv[v]
            BY <2>1, <3>1, <3>2, <3>3, SumsAlike
        <3> QED BY <2>1, <2>2, <2>4, <3>2, <3>4 DEF v
    <2> QED BY <2>3, <2>4
<1>5. SumsOver(f, m, G)
    <2>1. ASSUME NEW t \in SUBSET m, t # {}
          PROVE  Total(f, t \ {Pick(t)}) = G[t \ {Pick(t)}]
        <3>1. Pick(t) \in t
            BY <2>1, PickIn
        <3>2. t \ {Pick(t)} \in SUBSET m /\ t \ {Pick(t)} # m
            BY <3>1
        <3> QED BY <1>4, <3>2
    <2> QED BY <2>1 DEF SumsOver
<1> QED BY <1>5

\* The sum over no elements
LEMMA SumOfNone == \A f : Total(f, {}) = 0
<1> SUFFICES ASSUME NEW f PROVE Total(f, {}) = 0
    OBVIOUS
<1>1. PICK g : SumsOver(f, {}, g)
    BY SumsExist, FS_EmptySet
<1> DEFINE g0 == CHOOSE h : SumsOver(f, {}, h)
<1>2. SumsOver(f, {}, g0)
    BY <1>1
<1> HIDE DEF g0
<1>3. g0[{}] = 0
    BY <1>2 DEF SumsOver
<1> QED BY <1>3, SumIsFold DEF g0

\* A sum is the next element and the sum of the others
LEMMA SumStep ==
    ASSUME NEW f, NEW S, IsFiniteSet(S), S # {}
    PROVE  Total(f, S) = f[Pick(S)] + Total(f, S \ {Pick(S)})
<1> DEFINE T == S \ {Pick(S)}
           g == CHOOSE h : SumsOver(f, S, h)
           g1 == CHOOSE h : SumsOver(f, T, h)
<1>1. T \in SUBSET S /\ IsFiniteSet(T)
    BY FS_Subset
<1>2. SumsOver(f, S, g) /\ SumsOver(f, T, g1)
    BY <1>1, SumsExist
<1>3. Total(f, S) = g[S] /\ Total(f, T) = g1[T]
    BY SumIsFold
<1> HIDE DEF g, g1
<1>4. g[S] = f[Pick(S)] + g[T]
    BY <1>2 DEF SumsOver
<1> HIDE DEF T
<1>5. g[T] = g1[T]
    BY <1>1, <1>2, SumsAlike
<1> QED BY <1>3, <1>4, <1>5 DEF T

\* Sums of integers are integers
LEMMA SumInt ==
    ASSUME NEW f, NEW S, IsFiniteSet(S), \A x \in S : f[x] \in Int
    PROVE  Total(f, S) \in Int
<1> DEFINE Bad == {s \in SUBSET S : Total(f, s) \notin Int}
<1>1. SUFFICES ASSUME Bad # {} PROVE FALSE
    OBVIOUS
<1>2. PICK s \in Bad : \A t \in Bad : t \subseteq s => t = s
    <2>1. Bad \in SUBSET (SUBSET S)
        OBVIOUS
    <2> HIDE DEF Bad
    <2> QED BY <1>1, <2>1, LeastSubset
<1>3. s # {}
    BY SumOfNone
<1>4. Pick(s) \in s /\ IsFiniteSet(s)
    BY <1>3, PickIn, FS_Subset
<1>5. Total(f, s) = f[Pick(s)] + Total(f, s \ {Pick(s)})
    BY <1>3, <1>4, SumStep
<1>6. Total(f, s \ {Pick(s)}) \in Int
    BY <1>2, <1>4
<1> QED BY <1>4, <1>5, <1>6

\* A sum depends on the values of the elements only
LEMMA SumSame ==
    ASSUME NEW f, NEW h, NEW S, IsFiniteSet(S), \A x \in S : f[x] = h[x]
    PROVE  Total(f, S) = Total(h, S)
<1> DEFINE Bad == {s \in SUBSET S : Total(f, s) # Total(h, s)}
<1>1. SUFFICES ASSUME Bad # {} PROVE FALSE
    OBVIOUS
<1>2. PICK s \in Bad : \A t \in Bad : t \subseteq s => t = s
    <2>1. Bad \in SUBSET (SUBSET S)
        OBVIOUS
    <2> HIDE DEF Bad
    <2> QED BY <1>1, <2>1, LeastSubset
<1>3. s # {}
    BY SumOfNone
<1>4. Pick(s) \in s /\ IsFiniteSet(s)
    BY <1>3, PickIn, FS_Subset
<1>5. Total(f, s) = f[Pick(s)] + Total(f, s \ {Pick(s)})
    BY <1>3, <1>4, SumStep
<1>6. Total(h, s) = h[Pick(s)] + Total(h, s \ {Pick(s)})
    BY <1>3, <1>4, SumStep
<1>7. Total(f, s \ {Pick(s)}) = Total(h, s \ {Pick(s)})
    BY <1>2, <1>4
<1> QED BY <1>4, <1>5, <1>6, <1>7

\* Any element can be taken out first
LEMMA SumWithout ==
    ASSUME NEW f, NEW S, IsFiniteSet(S), \A x \in S : f[x] \in Int, NEW y \in S
    PROVE  Total(f, S) = f[y] + Total(f, S \ {y})
<1> DEFINE Bad == {s \in SUBSET S : \E x \in s : Total(f, s) # f[x] + Total(f, s \ {x})}
<1>1. SUFFICES ASSUME Bad # {} PROVE FALSE
    OBVIOUS
<1>2. PICK s \in Bad : \A t \in Bad : t \subseteq s => t = s
    <2>1. Bad \in SUBSET (SUBSET S)
        OBVIOUS
    <2> HIDE DEF Bad
    <2> QED BY <1>1, <2>1, LeastSubset
<1>3. PICK x \in s : Total(f, s) # f[x] + Total(f, s \ {x})
    BY <1>2
<1> DEFINE p == Pick(s)
<1>4. p \in s /\ IsFiniteSet(s)
    BY <1>3, PickIn, FS_Subset
<1>5. Total(f, s) = f[p] + Total(f, s \ {p})
    BY <1>3, <1>4, SumStep
<1> HIDE DEF p
<1>6. p # x
    BY <1>3, <1>5
<1>7. ASSUME NEW z \in s, NEW w \in s, z # w
      PROVE  Total(f, s \ {z}) = f[w] + Total(f, (s \ {z}) \ {w})
    <2>1. s \ {z} \in SUBSET S /\ s \ {z} # s /\ w \in s \ {z}
        BY <1>7
    <2>2. s \ {z} \notin Bad
        BY <1>2, <2>1
    <2> QED BY <2>1, <2>2
<1>8. /\ Total(f, s \ {p}) = f[x] + Total(f, (s \ {p}) \ {x})
      /\ Total(f, s \ {x}) = f[p] + Total(f, (s \ {x}) \ {p})
    BY <1>4, <1>6, <1>7
<1>9. (s \ {x}) \ {p} = (s \ {p}) \ {x}
    OBVIOUS
<1>10. Total(f, (s \ {p}) \ {x}) \in Int
    BY <1>4, FS_Subset, SumInt
<1>11. f[x] \in Int /\ f[p] \in Int
    BY <1>4
<1> QED BY <1>3, <1>5, <1>8, <1>9, <1>10, <1>11

-----------------------------------------------------------------------------
\* What holds of 0 and, with a number below n, of the next, holds of n
LEMMA Climb ==
    ASSUME NEW n \in Nat, NEW Good, 0 \in Good,
           \A q \in 0 .. n - 1 : q \in Good => q + 1 \in Good
    PROVE  n \in Good
<1> DEFINE Bad == {q \in 0 .. n : q \notin Good}
<1>1. SUFFICES ASSUME Bad # {} PROVE FALSE
    OBVIOUS
<1>2. PICK R : R = OpToRel(<, Nat)
    OBVIOUS
<1>3. IsWellFoundedOn(R, Nat)
    BY <1>2, NatLessThanWellFounded
<1>4. PICK m \in Bad : \A k \in Bad : ~(<<k, m>> \in R)
    <2>1. Bad \subseteq Nat
        OBVIOUS
    <2> HIDE DEF Bad
    <2> QED BY <1>1, <1>3, <2>1, WFMin
<1>5. \A k \in Bad : ~(k < m)
    <2>1. \A k \in Nat, l \in Nat : <<k, l>> \in R <=> k < l
        BY <1>2 DEF OpToRel
    <2>2. m \in Nat /\ \A k \in Bad : k \in Nat
        OBVIOUS
    <2> HIDE DEF Bad
    <2> QED BY <1>4, <2>1, <2>2
<1>6. m - 1 \in 0 .. n - 1 /\ (m - 1) + 1 = m /\ m - 1 \notin Bad
    BY <1>5
<1> QED BY <1>6

\* Zones in a row: n of them, from the a-th on
Zones(a, n) == a .. a + n - 1

\* A row of zones, and one with a zone more
LEMMA ZonesGrow ==
    ASSUME NEW a \in Int, NEW n \in Nat
    PROVE  /\ IsFiniteSet(Zones(a, n)) /\ Zones(a, 0) = {}
           /\ a + n \in Zones(a, n + 1) /\ Zones(a, n + 1) \ {a + n} = Zones(a, n)
           /\ \A l \in 0 .. n : Zones(a, l) \subseteq Zones(a, n)
<1>1. IsFiniteSet(Zones(a, n))
    BY FS_Interval DEF Zones
<1> QED BY <1>1 DEF Zones

\* A sum over a row with a zone more
LEMMA SumGrows ==
    ASSUME NEW f, NEW a \in Int, NEW n \in Nat, \A x \in Zones(a, n + 1) : f[x] \in Int
    PROVE  /\ f[a + n] \in Int
           /\ Total(f, Zones(a, n)) \in Int
           /\ Total(f, Zones(a, n + 1)) = Total(f, Zones(a, n)) + f[a + n]
<1> DEFINE Z == Zones(a, n + 1)
<1>1. n + 1 \in Nat
    OBVIOUS
<1>2. IsFiniteSet(Zones(a, n)) /\ IsFiniteSet(Z)
    BY <1>1, ZonesGrow
<1>3. a + n \in Z /\ Z \ {a + n} = Zones(a, n) /\ \A x \in Zones(a, n) : f[x] \in Int
    BY ZonesGrow DEF Zones
<1>4. f[a + n] \in Int /\ Total(f, Zones(a, n)) \in Int
    BY <1>2, <1>3, SumInt
<1> HIDE DEF Z
<1>5. Total(f, Z) = f[a + n] + Total(f, Z \ {a + n})
    <2>1. \A x \in Z : f[x] \in Int
        BY DEF Z
    <2> QED BY <2>1, <1>2, <1>3, SumWithout
<1>6. Total(f, Z) = f[a + n] + Total(f, Zones(a, n))
    BY <1>3, <1>5
<1>7. Total(f, Z) = Total(f, Zones(a, n)) + f[a + n]
    BY <1>4, <1>6
<1> QED BY <1>4, <1>7 DEF Z

\* A sum over a row is that over its two parts
LEMMA SumSplits ==
    ASSUME NEW f, NEW a \in Int, NEW m \in Nat, NEW n \in Nat,
           \A x \in Zones(a, m + n) : f[x] \in Int
    PROVE  Total(f, Zones(a, m + n)) = Total(f, Zones(a, m)) + Total(f, Zones(a + m, n))
<1> DEFINE Good == {l \in 0 .. n :
                       Total(f, Zones(a, m + l)) = Total(f, Zones(a, m)) + Total(f, Zones(a + m, l))}
<1>1. (\A x \in Zones(a, m) : f[x] \in Int) /\ Total(f, Zones(a, m)) \in Int
    <2>1. \A x \in Zones(a, m) : f[x] \in Int
        BY DEF Zones
    <2> QED BY <2>1, SumInt, ZonesGrow
<1>2. 0 \in Good
    <2>1. Zones(a + m, 0) = {} /\ m + 0 = m
        BY ZonesGrow
    <2> QED BY <1>1, <2>1, SumOfNone
<1>3. ASSUME NEW q \in 0 .. n - 1, q \in Good
      PROVE  q + 1 \in Good
    <2>1. q \in Nat /\ m + q \in Nat /\ (m + q) + 1 = m + (q + 1) /\ a + m \in Int
          /\ (a + m) + q = a + (m + q) /\ q + 1 \in 0 .. n
        OBVIOUS
    <2>2. Total(f, Zones(a, m + q)) = Total(f, Zones(a, m)) + Total(f, Zones(a + m, q))
        BY <1>3
    <2>3. /\ \A x \in Zones(a, (m + q) + 1) : f[x] \in Int
          /\ \A x \in Zones(a + m, q + 1) : f[x] \in Int
        BY <2>1 DEF Zones
    <2>4. /\ Total(f, Zones(a, (m + q) + 1)) = Total(f, Zones(a, m + q)) + f[a + (m + q)]
          /\ f[a + (m + q)] \in Int /\ Total(f, Zones(a, m + q)) \in Int
        BY <2>1, <2>3, SumGrows
    <2>5. /\ Total(f, Zones(a + m, q + 1)) = Total(f, Zones(a + m, q)) + f[(a + m) + q]
          /\ Total(f, Zones(a + m, q)) \in Int
        BY <2>1, <2>3, SumGrows
    <2>6. Total(f, Zones(a, m + (q + 1))) = Total(f, Zones(a, m)) + Total(f, Zones(a + m, q + 1))
        BY <1>1, <2>1, <2>2, <2>4, <2>5
    <2> QED BY <2>1, <2>6
<1> HIDE DEF Good
<1>4. n \in Good
    BY <1>2, <1>3, Climb
<1> QED BY <1>4 DEF Good

\* A sum over one zone
LEMMA SumOfOne ==
    ASSUME NEW f, NEW a \in Int, f[a] \in Int
    PROVE  Total(f, Zones(a, 1)) = f[a]
<1>1. Zones(a, 0) = {} /\ (\A x \in Zones(a, 0 + 1) : f[x] \in Int) /\ a + 0 = a /\ 0 + 1 = 1
    BY ZonesGrow DEF Zones
<1>2. Total(f, Zones(a, 0 + 1)) = Total(f, Zones(a, 0)) + f[a + 0]
    BY <1>1, SumGrows
<1> QED BY <1>1, <1>2, SumOfNone

\* A sum of equal values is a product
LEMMA SumConstant ==
    ASSUME NEW f, NEW a \in Int, NEW n \in Nat, NEW c \in Int,
           \A x \in Zones(a, n) : f[x] = c
    PROVE  Total(f, Zones(a, n)) = n * c
<1> DEFINE Good == {l \in 0 .. n : Total(f, Zones(a, l)) = l * c}
<1>1. 0 \in Good
    <2>1. Zones(a, 0) = {} /\ 0 * c = 0
        BY ZonesGrow
    <2> QED BY <2>1, SumOfNone
<1>2. ASSUME NEW q \in 0 .. n - 1, q \in Good
      PROVE  q + 1 \in Good
    <2>1. Total(f, Zones(a, q)) = q * c
        BY <1>2
    <2>2. (\A x \in Zones(a, q + 1) : f[x] = c) /\ a + q \in Zones(a, q + 1)
        BY DEF Zones
    <2>3. Total(f, Zones(a, q + 1)) = Total(f, Zones(a, q)) + f[a + q]
        BY <2>2, SumGrows
    <2>4. q * c + c = (q + 1) * c
        OBVIOUS
    <2>5. Total(f, Zones(a, q + 1)) = (q + 1) * c
        BY <2>1, <2>2, <2>3, <2>4
    <2> QED BY <2>5
<1> HIDE DEF Good
<1>3. n \in Good
    BY <1>1, <1>2, Climb
<1> QED BY <1>3 DEF Good

\* Numbers that are whole multiples of g
Multiples(g) == {g * m : m \in Int}

\* Sums and differences of multiples are multiples
LEMMA MultiplesAdd ==
    ASSUME NEW g \in Int, NEW x \in Multiples(g), NEW y \in Multiples(g)
    PROVE  x \in Int /\ x + y \in Multiples(g) /\ x - y \in Multiples(g)
<1>1. PICK m \in Int, n \in Int : x = g * m /\ y = g * n
    BY DEF Multiples
<1>2. g * m + g * n = g * (m + n) /\ g * m - g * n = g * (m - n) /\ g * m \in Int
    OBVIOUS
<1>3. m + n \in Int /\ m - n \in Int
    OBVIOUS
<1>4. g * (m + n) \in Multiples(g) /\ g * (m - n) \in Multiples(g)
    BY <1>3, Zenon DEF Multiples
<1> QED BY <1>1, <1>2, <1>4

\* Zero is a multiple of all numbers
LEMMA ZeroIsMultiple == \A g \in Int : 0 \in Multiples(g)
<1> SUFFICES ASSUME NEW g \in Int PROVE 0 \in Multiples(g)
    OBVIOUS
<1>1. g * 0 = 0
    OBVIOUS
<1>2. g * 0 \in Multiples(g)
    BY DEF Multiples
<1> QED BY <1>1, <1>2

\* A sum of multiples is a multiple
LEMMA SumMultiple ==
    ASSUME NEW f, NEW S, IsFiniteSet(S), NEW g \in Int, \A x \in S : f[x] \in Multiples(g)
    PROVE  Total(f, S) \in Multiples(g)
<1> DEFINE Bad == {s \in SUBSET S : Total(f, s) \notin Multiples(g)}
<1>1. SUFFICES ASSUME Bad # {} PROVE FALSE
    OBVIOUS
<1>2. PICK s \in Bad : \A t \in Bad : t \subseteq s => t = s
    <2>1. Bad \in SUBSET (SUBSET S)
        OBVIOUS
    <2> HIDE DEF Bad
    <2> QED BY <1>1, <2>1, LeastSubset
<1>3. s # {}
    BY ZeroIsMultiple, SumOfNone
<1>4. Pick(s) \in s /\ IsFiniteSet(s)
    BY <1>3, PickIn, FS_Subset
<1>5. Total(f, s) = f[Pick(s)] + Total(f, s \ {Pick(s)})
    BY <1>3, <1>4, SumStep
<1>6. Total(f, s \ {Pick(s)}) \in Multiples(g) /\ f[Pick(s)] \in Multiples(g)
    BY <1>2, <1>4
<1>7. f[Pick(s)] + Total(f, s \ {Pick(s)}) \in Multiples(g)
    BY <1>6, MultiplesAdd
<1> QED BY <1>5, <1>7

\* A flux that nothing gets lost of: around zones in a row, what comes out at the
\* end beyond what goes in at the start is what goes in through the sides
LEMMA SumBalances ==
    ASSUME NEW a \in Int, NEW n \in Nat, NEW u1, NEW u2, NEW v1, NEW v2, NEW w,
           \A x \in Zones(a, n) : /\ u1[x] \in Int /\ u2[x] \in Int
                                  /\ v1[x] \in Int /\ v2[x] \in Int
                                  /\ u2[x] - u1[x] + v2[x] - v1[x] + w[x + 1] - w[x] = 0,
           \A x \in Zones(a, n + 1) : w[x] \in Int
    PROVE  Total(u2, Zones(a, n)) - Total(u1, Zones(a, n))
           + Total(v2, Zones(a, n)) - Total(v1, Zones(a, n)) + w[a + n] - w[a] = 0
<1> DEFINE Good == {l \in 0 .. n :
                       Total(u2, Zones(a, l)) - Total(u1, Zones(a, l))
                       + Total(v2, Zones(a, l)) - Total(v1, Zones(a, l)) + w[a + l] - w[a] = 0}
<1>1. 0 \in Good
    <2>1. Zones(a, 0) = {} /\ a + 0 = a
        BY ZonesGrow
    <2>2. w[a] \in Int
        BY DEF Zones
    <2>3. Total(u2, Zones(a, 0)) - Total(u1, Zones(a, 0))
          + Total(v2, Zones(a, 0)) - Total(v1, Zones(a, 0)) + w[a + 0] - w[a] = 0
        BY <2>1, <2>2, SumOfNone
    <2> QED BY <2>3
<1>2. ASSUME NEW q \in 0 .. n - 1, q \in Good
      PROVE  q + 1 \in Good
    <2>1. q \in Nat /\ a + (q + 1) = (a + q) + 1 /\ q + 1 \in 0 .. n
        OBVIOUS
    <2>2. Total(u2, Zones(a, q)) - Total(u1, Zones(a, q))
          + Total(v2, Zones(a, q)) - Total(v1, Zones(a, q)) + w[a + q] - w[a] = 0
        BY <1>2
    <2>3. /\ Zones(a, q + 1) \subseteq Zones(a, n) /\ a + q \in Zones(a, n)
          /\ a \in Zones(a, n + 1) /\ a + q \in Zones(a, n + 1) /\ (a + q) + 1 \in Zones(a, n + 1)
        BY DEF Zones
    <2>4. /\ w[a] \in Int /\ w[a + q] \in Int /\ w[(a + q) + 1] \in Int
          /\ u2[a + q] - u1[a + q] + v2[a + q] - v1[a + q] + w[(a + q) + 1] - w[a + q] = 0
        BY <2>3
    <2>5. /\ Total(u1, Zones(a, q + 1)) = Total(u1, Zones(a, q)) + u1[a + q]
          /\ Total(u1, Zones(a, q)) \in Int /\ u1[a + q] \in Int
        BY <2>1, <2>3, SumGrows
    <2>6. /\ Total(u2, Zones(a, q + 1)) = Total(u2, Zones(a, q)) + u2[a + q]
          /\ Total(u2, Zones(a, q)) \in Int /\ u2[a + q] \in Int
        BY <2>1, <2>3, SumGrows
    <2>7. /\ Total(v1, Zones(a, q + 1)) = Total(v1, Zones(a, q)) + v1[a + q]
          /\ Total(v1, Zones(a, q)) \in Int /\ v1[a + q] \in Int
        BY <2>1, <2>3, SumGrows
    <2>8. /\ Total(v2, Zones(a, q + 1)) = Total(v2, Zones(a, q)) + v2[a + q]
          /\ Total(v2, Zones(a, q)) \in Int /\ v2[a + q] \in Int
        BY <2>1, <2>3, SumGrows
    <2>9. Total(u2, Zones(a, q + 1)) - Total(u1, Zones(a, q + 1))
          + Total(v2, Zones(a, q + 1)) - Total(v1, Zones(a, q + 1)) + w[(a + q) + 1] - w[a] = 0
        BY <2>2, <2>4, <2>5, <2>6, <2>7, <2>8
    <2> QED BY <2>1, <2>9
<1> HIDE DEF Good
<1>3. n \in Good
    BY <1>1, <1>2, Climb
<1> QED BY <1>3 DEF Good

-----------------------------------------------------------------------------
\* A table of the powers of two up to n, from which the recursive function is known
IsPow(n, g) == g \in [0 .. n -> Nat] /\ g[0] = 1 /\ \A m \in 1 .. n : g[m] = 2 * g[m - 1]

\* There is one for every n
LEMMA PowsExist == \A n \in Nat : \E g : IsPow(n, g)
<1> SUFFICES ASSUME NEW n \in Nat PROVE \E g : IsPow(n, g)
    OBVIOUS
<1> DEFINE Good == {l \in 0 .. n : \E g : IsPow(l, g)}
<1>1. 0 \in Good
    <2>1. IsPow(0, [m \in 0 .. 0 |-> 1])
        BY DEF IsPow
    <2> QED BY <2>1
<1>2. ASSUME NEW q \in 0 .. n - 1, q \in Good
      PROVE  q + 1 \in Good
    <2>1. PICK g : IsPow(q, g)
        BY <1>2
    <2>2. IsPow(q + 1, [m \in 0 .. q + 1 |-> IF m = 0 THEN 1 ELSE 2 * g[m - 1]])
        <3> DEFINE h == [m \in 0 .. q + 1 |-> IF m = 0 THEN 1 ELSE 2 * g[m - 1]]
        <3>1. h \in [0 .. q + 1 -> Nat] /\ h[0] = 1
            BY <2>1 DEF IsPow
        <3>2. \A m \in 0 .. q : h[m] = g[m]
            BY <2>1 DEF IsPow
        <3>3. \A m \in 1 .. q + 1 : m - 1 \in 0 .. q /\ h[m] = 2 * g[m - 1]
            OBVIOUS
        <3> HIDE DEF h
        <3>4. IsPow(q + 1, h)
            BY <3>1, <3>2, <3>3 DEF IsPow
        <3> QED BY <3>4 DEF h
    <2> QED BY <2>2
<1> HIDE DEF Good
<1>3. n \in Good
    BY <1>1, <1>2, Climb
<1> QED BY <1>3 DEF Good

\* Longer tables agree with shorter ones
LEMMA PowsAlike ==
    ASSUME NEW m \in Nat, NEW n \in Nat, m <= n, NEW g, NEW h, IsPow(m, g), IsPow(n, h)
    PROVE  g[m] = h[m]
<1> DEFINE Good == {l \in 0 .. m : g[l] = h[l]}
<1>1. 0 \in Good
    BY DEF IsPow
<1>2. \A q \in 0 .. m - 1 : q \in Good => q + 1 \in Good
    BY DEF IsPow
<1> HIDE DEF Good
<1>3. m \in Good
    BY <1>1, <1>2, Climb
<1> QED BY <1>3 DEF Good

\* The recursive function is what its definition says
LEMMA PowerOfTwo ==
    /\ Pow2 \in [Nat -> Nat \ {0}]
    /\ Pow2[0] = 1
    /\ \A n \in Nat : Pow2[n + 1] = 2 * Pow2[n]
<1> DEFINE P(n) == (CHOOSE g : IsPow(n, g))[n]
           F == [n \in Nat |-> P(n)]
<1>1. \A n \in Nat : IsPow(n, CHOOSE g : IsPow(n, g))
    BY PowsExist
<1>2. \A n \in Nat : F[n] = P(n) /\ P(n) \in Nat
    BY <1>1 DEF IsPow
<1>3. F[0] = 1
    BY <1>1 DEF IsPow
<1>4. ASSUME NEW n \in Nat PROVE F[n + 1] = 2 * F[n]
    <2> DEFINE g == CHOOSE p : IsPow(n, p)
               h == CHOOSE p : IsPow(n + 1, p)
    <2>1. IsPow(n, g) /\ IsPow(n + 1, h) /\ F[n] = g[n] /\ F[n + 1] = h[n + 1]
        BY <1>1
    <2> HIDE DEF g, h, F
    <2>2. h[n + 1] = 2 * h[n]
        <3>1. n + 1 \in 1 .. n + 1 /\ (n + 1) - 1 = n
            OBVIOUS
        <3> QED BY <2>1, <3>1 DEF IsPow
    <2>3. g[n] = h[n]
        BY <2>1, PowsAlike
    <2> QED BY <2>1, <2>2, <2>3
<1> HIDE DEF P
<1>5. F = [n \in Nat |-> IF n = 0 THEN 1 ELSE 2 * F[n - 1]]
    <2>1. ASSUME NEW n \in Nat, n # 0 PROVE F[n] = 2 * F[n - 1]
        <3>1. n - 1 \in Nat /\ (n - 1) + 1 = n
            BY <2>1
        <3> HIDE DEF F
        <3> QED BY <3>1, <1>4
    <2>2. DOMAIN F = Nat /\ F = [n \in Nat |-> F[n]]
        OBVIOUS
    <2> HIDE DEF F
    <2> QED BY <1>3, <2>1, <2>2
<1> HIDE DEF F
<1>6. Pow2 = [n \in Nat |-> IF n = 0 THEN 1 ELSE 2 * Pow2[n - 1]]
    BY <1>5 DEF Pow2
<1>7. Pow2[0] = 1
    BY <1>6
<1>8. \A n \in Nat : Pow2[n + 1] = 2 * Pow2[n]
    <2> SUFFICES ASSUME NEW n \in Nat PROVE Pow2[n + 1] = 2 * Pow2[n]
        OBVIOUS
    <2>1. n + 1 \in Nat /\ n + 1 # 0 /\ (n + 1) - 1 = n
        OBVIOUS
    <2> QED BY <1>6, <2>1
<1>9. ASSUME NEW n \in Nat PROVE Pow2[n] \in Nat \ {0}
    <2> DEFINE Good == {l \in 0 .. n : Pow2[l] \in Nat \ {0}}
    <2>1. 0 \in Good
        BY <1>7
    <2>2. \A q \in 0 .. n - 1 : q \in Good => q + 1 \in Good
        BY <1>8
    <2> HIDE DEF Good
    <2>3. n \in Good
        BY <2>1, <2>2, Climb
    <2> QED BY <2>3 DEF Good
<1> QED BY <1>6, <1>7, <1>8, <1>9

-----------------------------------------------------------------------------
\* Every zone has its faces, every face its edges, and the values are integers
LEMMA ZoneFaces ==
    ASSUME NEW b \in Blocks, NEW i \in 1 .. N1, NEW j \in 1 .. N2, NEW k \in 1 .. N3
    PROVE  /\ <<b, i, j, k>> \in F1s /\ <<b, i + 1, j, k>> \in F1s
           /\ <<b, i, j, k>> \in F2s /\ <<b, i, j + 1, k>> \in F2s
           /\ <<b, i, j, k>> \in F3s /\ <<b, i, j, k + 1>> \in F3s
<1>1. i + 1 \in 1 .. N1 + 1 /\ j + 1 \in 1 .. N2 + 1 /\ k + 1 \in 1 .. N3 + 1
    BY MeshAssumption
<1>2. i \in 1 .. N1 + 1 /\ j \in 1 .. N2 + 1 /\ k \in 1 .. N3 + 1
    BY MeshAssumption
<1> QED BY <1>1, <1>2 DEF F1s, F2s, F3s

\* An edge of a zone is passed once in either direction by the circulations around its faces
LEMMA CirculationFreeOfDivergence ==
    ASSUME E1 \in [E1s -> Int], E2 \in [E2s -> Int], E3 \in [E3s -> Int],
           NEW b \in Blocks, NEW i \in 1 .. N1, NEW j \in 1 .. N2, NEW k \in 1 .. N3
    PROVE  /\ Circ1(b, i, j, k) \in Int /\ Circ1(b, i + 1, j, k) \in Int
           /\ Circ2(b, i, j, k) \in Int /\ Circ2(b, i, j + 1, k) \in Int
           /\ Circ3(b, i, j, k) \in Int /\ Circ3(b, i, j, k + 1) \in Int
           /\ Circ1(b, i + 1, j, k) - Circ1(b, i, j, k)
              + Circ2(b, i, j + 1, k) - Circ2(b, i, j, k)
              + Circ3(b, i, j, k + 1) - Circ3(b, i, j, k) = 0
<1>1. i + 1 \in 1 .. N1 + 1 /\ j + 1 \in 1 .. N2 + 1 /\ k + 1 \in 1 .. N3 + 1
    BY MeshAssumption
<1>2. i \in 1 .. N1 + 1 /\ j \in 1 .. N2 + 1 /\ k \in 1 .. N3 + 1
    BY MeshAssumption
<1>3. /\ E1[<<b, i, j, k>>] \in Int /\ E1[<<b, i, j + 1, k>>] \in Int
      /\ E1[<<b, i, j, k + 1>>] \in Int /\ E1[<<b, i, j + 1, k + 1>>] \in Int
    BY <1>1, <1>2 DEF E1s
<1>4. /\ E2[<<b, i, j, k>>] \in Int /\ E2[<<b, i + 1, j, k>>] \in Int
      /\ E2[<<b, i, j, k + 1>>] \in Int /\ E2[<<b, i + 1, j, k + 1>>] \in Int
    BY <1>1, <1>2 DEF E2s
<1>5. /\ E3[<<b, i, j, k>>] \in Int /\ E3[<<b, i + 1, j, k>>] \in Int
      /\ E3[<<b, i, j + 1, k>>] \in Int /\ E3[<<b, i + 1, j + 1, k>>] \in Int
    BY <1>1, <1>2 DEF E3s
<1> QED BY <1>3, <1>4, <1>5 DEF Circ1, Circ2, Circ3

\* A force around the mesh is made of integers
LEMMA EdgeTypes ==
    ASSUME E1 \in [E1s -> Int], E2 \in [E2s -> Int], E3 \in [E3s -> Int]
    PROVE  /\ \A f \in F1s : Circ1(f[1], f[2], f[3], f[4]) \in Int
           /\ \A f \in F2s : Circ2(f[1], f[2], f[3], f[4]) \in Int
           /\ \A f \in F3s : Circ3(f[1], f[2], f[3], f[4]) \in Int
<1>1. ASSUME NEW b \in Blocks, NEW i \in 1 .. N1 + 1, NEW j \in 1 .. N2, NEW k \in 1 .. N3
      PROVE  Circ1(b, i, j, k) \in Int
    <2>1. j \in 1 .. N2 + 1 /\ j + 1 \in 1 .. N2 + 1 /\ k \in 1 .. N3 + 1 /\ k + 1 \in 1 .. N3 + 1
        BY MeshAssumption
    <2> QED BY <2>1 DEF Circ1, E2s, E3s
<1>2. ASSUME NEW b \in Blocks, NEW i \in 1 .. N1, NEW j \in 1 .. N2 + 1, NEW k \in 1 .. N3
      PROVE  Circ2(b, i, j, k) \in Int
    <2>1. i \in 1 .. N1 + 1 /\ i + 1 \in 1 .. N1 + 1 /\ k \in 1 .. N3 + 1 /\ k + 1 \in 1 .. N3 + 1
        BY MeshAssumption
    <2> QED BY <2>1 DEF Circ2, E1s, E3s
<1>3. ASSUME NEW b \in Blocks, NEW i \in 1 .. N1, NEW j \in 1 .. N2, NEW k \in 1 .. N3 + 1
      PROVE  Circ3(b, i, j, k) \in Int
    <2>1. i \in 1 .. N1 + 1 /\ i + 1 \in 1 .. N1 + 1 /\ j \in 1 .. N2 + 1 /\ j + 1 \in 1 .. N2 + 1
        BY MeshAssumption
    <2> QED BY <2>1 DEF Circ3, E1s, E2s
<1> QED BY <1>1, <1>2, <1>3 DEF F1s, F2s, F3s

\* Sums around a pole are integers
LEMMA PoleSums ==
    /\ E1 \in [E1s -> Int] =>
          \A b \in Blocks, i \in 1 .. N1, j \in 1 .. N2 + 1 : EMF1Sum(b, i, j) \in Int
    /\ F3 \in [F3s -> Int] =>
          \A b \in Blocks, i \in 1 .. N1, j \in 1 .. N2 : F3Sum(b, i, j) \in Int
<1>1. IsFiniteSet(1 .. N3) /\ \A k \in 1 .. N3 : k \in 1 .. N3 + 1
    BY FS_Interval, MeshAssumption
<1>2. ASSUME E1 \in [E1s -> Int], NEW b \in Blocks, NEW i \in 1 .. N1, NEW j \in 1 .. N2 + 1
      PROVE  EMF1Sum(b, i, j) \in Int
    <2> DEFINE ring == [k \in 1 .. N3 |-> E1[<<b, i, j, k>>]]
    <2>1. \A k \in 1 .. N3 : ring[k] \in Int
        BY <1>1, <1>2 DEF E1s
    <2> HIDE DEF ring
    <2>2. Total(ring, 1 .. N3) \in Int
        BY <1>1, <2>1, SumInt
    <2> QED BY <2>2 DEF EMF1Sum, SumFunction, Total, ring
<1>3. ASSUME F3 \in [F3s -> Int], NEW b \in Blocks, NEW i \in 1 .. N1, NEW j \in 1 .. N2
      PROVE  F3Sum(b, i, j) \in Int
    <2> DEFINE ring == [k \in 1 .. N3 |-> F3[<<b, i, j, k>>]]
    <2>1. \A k \in 1 .. N3 : ring[k] \in Int
        BY <1>1, <1>3 DEF F3s
    <2> HIDE DEF ring
    <2>2. Total(ring, 1 .. N3) \in Int
        BY <1>1, <2>1, SumInt
    <2> QED BY <2>2 DEF F3Sum, SumFunction, Total, ring
<1> QED BY <1>2, <1>3

\* The block behind the last one is the first
LEMMA NextBlock == \A b \in Blocks : Next3(b) \in Blocks
BY MeshAssumption DEF Blocks, Next3

-----------------------------------------------------------------------------
\* Each step gives all variables values of their types
LEMMA TypeStep ==
    TypeOK /\ [Next]_vars => TypeOK'
<1> SUFFICES ASSUME TypeOK, [Next]_vars PROVE TypeOK'
    OBVIOUS
<1> USE DEF TypeOK, Operations
<1>1. CASE CalculateEMF
    <2>1. E1' \in [E1s -> Int] /\ E2' \in [E2s -> Int] /\ E3' \in [E3s -> Int]
        BY <1>1, EMFsAssumption DEF CalculateEMF, Forces
    <2>2. steps' \in 0 .. MaxSteps
        BY <1>1, MeshAssumption DEF CalculateEMF
    <2> QED BY <1>1, <2>1, <2>2 DEF CalculateEMF, faces
<1>2. CASE ExchangeEMF
    <2>1. \A e \in E1s : <<Next3(e[1]), e[2], e[3], 1>> \in E1s
        BY NextBlock, MeshAssumption DEF E1s
    <2>2. \A e \in E2s : <<Next3(e[1]), e[2], e[3], 1>> \in E2s
        BY NextBlock, MeshAssumption DEF E2s
    <2> QED BY <1>2, <2>1, <2>2 DEF ExchangeEMF, faces
<1>3. CASE BoundaryEMF
    <2>1. E1' \in [E1s -> Int]
        <3>1. CASE ZeroBoundaryEMF
            BY <3>1 DEF ZeroBoundaryEMF
        <3>2. CASE AverageBoundaryEMF
            <4>1. \A e \in E1s : e[3] \in PoleFaces => EMF1Sum(e[1], e[2], e[3]) \div N3 \in Int
                BY PoleSums, MeshAssumption DEF E1s
            <4> QED BY <3>2, <4>1 DEF AverageBoundaryEMF
        <3> QED BY <1>3, <3>1, <3>2 DEF BoundaryEMF
    <2>2. E3' \in [E3s -> Int]
        BY <1>3 DEF BoundaryEMF, NoEMF3AtPole
    <2> QED BY <1>3, <2>1, <2>2 DEF BoundaryEMF, faces
<1>4. CASE AddSource
    <2>1. F1' \in [F1s -> Int] /\ F2' \in [F2s -> Int] /\ F3' \in [F3s -> Int]
        BY <1>4, EdgeTypes DEF AddSource
    <2> QED BY <1>4, <2>1 DEF AddSource, emf
<1>5. CASE ReconnectB3
    <2>1. \A f \in F3s : F3Sum(f[1], f[2], f[3]) \div N3 \in Int
        BY PoleSums, MeshAssumption DEF F3s
    <2>2. F3' \in [F3s -> Int]
        BY <1>5, <2>1 DEF ReconnectB3
    <2> QED BY <1>5, <2>2 DEF ReconnectB3, emf
<1>6. CASE KeepPoles
    BY <1>6 DEF KeepPoles, emf, faces
<1>7. CASE UNCHANGED vars
    BY <1>7 DEF vars
<1> QED BY <1>1, <1>2, <1>3, <1>4, <1>5, <1>6, <1>7 DEF Next

\* All variables keep their types: of faces and edges none is left out
THEOREM FieldTypes == Spec => []TypeOK
<1>1. Init => TypeOK
    BY MeshAssumption DEF Init, TypeOK, Operations
<1> QED BY <1>1, TypeStep, PTL DEF Spec

\* What the update adds and the reconnection takes away leaves no net flux out of a zone
LEMMA DivergenceStep ==
    TypeOK /\ DivergenceFree /\ [Next]_vars => DivergenceFree'
<1> SUFFICES ASSUME TypeOK, DivergenceFree, [Next]_vars,
                    NEW b \in Blocks, NEW i \in 1 .. N1, NEW j \in 1 .. N2, NEW k \in 1 .. N3
             PROVE  Div(b, i, j, k)' = 0
    BY DEF DivergenceFree
<1>1. Div(b, i, j, k) = 0
    BY DEF DivergenceFree
<1>2. /\ F1[<<b, i, j, k>>] \in Int /\ F1[<<b, i + 1, j, k>>] \in Int
      /\ F2[<<b, i, j, k>>] \in Int /\ F2[<<b, i, j + 1, k>>] \in Int
      /\ F3[<<b, i, j, k>>] \in Int /\ F3[<<b, i, j, k + 1>>] \in Int
    BY ZoneFaces DEF TypeOK
<1>3. CASE AddSource
    <2>1. /\ F1'[<<b, i, j, k>>] = F1[<<b, i, j, k>>] + Circ1(b, i, j, k)
          /\ F1'[<<b, i + 1, j, k>>] = F1[<<b, i + 1, j, k>>] + Circ1(b, i + 1, j, k)
        BY <1>3, ZoneFaces DEF AddSource
    <2>2. /\ F2'[<<b, i, j, k>>] = F2[<<b, i, j, k>>] + Circ2(b, i, j, k)
          /\ F2'[<<b, i, j + 1, k>>] = F2[<<b, i, j + 1, k>>] + Circ2(b, i, j + 1, k)
        BY <1>3, ZoneFaces DEF AddSource
    <2>3. /\ F3'[<<b, i, j, k>>] = F3[<<b, i, j, k>>] + Circ3(b, i, j, k)
          /\ F3'[<<b, i, j, k + 1>>] = F3[<<b, i, j, k + 1>>] + Circ3(b, i, j, k + 1)
        BY <1>3, ZoneFaces DEF AddSource
    <2>4. E1 \in [E1s -> Int] /\ E2 \in [E2s -> Int] /\ E3 \in [E3s -> Int]
        BY DEF TypeOK
    <2>5. /\ Circ1(b, i, j, k) \in Int /\ Circ1(b, i + 1, j, k) \in Int
          /\ Circ2(b, i, j, k) \in Int /\ Circ2(b, i, j + 1, k) \in Int
          /\ Circ3(b, i, j, k) \in Int /\ Circ3(b, i, j, k + 1) \in Int
          /\ Circ1(b, i + 1, j, k) - Circ1(b, i, j, k)
             + Circ2(b, i, j + 1, k) - Circ2(b, i, j, k)
             + Circ3(b, i, j, k + 1) - Circ3(b, i, j, k) = 0
        BY <2>4, CirculationFreeOfDivergence
    <2> QED BY <1>1, <1>2, <2>1, <2>2, <2>3, <2>5 DEF Div
<1>4. CASE ReconnectB3
    <2> DEFINE average == F3Sum(b, i, j) \div N3
    <2>1. CASE ByPole(i, j)
        <3>1. /\ F3'[<<b, i, j, k>>] = F3[<<b, i, j, k>>] - average
              /\ F3'[<<b, i, j, k + 1>>] = F3[<<b, i, j, k + 1>>] - average
            BY <1>4, <2>1, ZoneFaces DEF ReconnectB3
        <3>2. average \in Int
            BY PoleSums, MeshAssumption DEF TypeOK
        <3> HIDE DEF average
        <3> QED BY <1>1, <1>2, <1>4, <3>1, <3>2 DEF Div, ReconnectB3
    <2>2. CASE ~ByPole(i, j)
        <3>1. /\ F3'[<<b, i, j, k>>] = F3[<<b, i, j, k>>]
              /\ F3'[<<b, i, j, k + 1>>] = F3[<<b, i, j, k + 1>>]
            BY <1>4, <2>2, ZoneFaces DEF ReconnectB3
        <3> QED BY <1>1, <1>4, <3>1 DEF Div, ReconnectB3
    <2> QED BY <2>1, <2>2
<1>5. CASE UNCHANGED faces
    BY <1>1, <1>5 DEF Div, faces
<1> QED BY <1>3, <1>4, <1>5
    DEF Next, CalculateEMF, ExchangeEMF, BoundaryEMF, KeepPoles, vars, faces

\* The invariant holds for what the update adds and the reconnection takes away
THEOREM FieldStaysDivergenceFree == Spec => []DivergenceFree
<1>1. Init => DivergenceFree
    <2> SUFFICES ASSUME Init,
                        NEW b \in Blocks, NEW i \in 1 .. N1, NEW j \in 1 .. N2, NEW k \in 1 .. N3
                 PROVE  Div(b, i, j, k) = 0
        BY DEF DivergenceFree
    <2>1. /\ F1[<<b, i, j, k>>] = 0 /\ F1[<<b, i + 1, j, k>>] = 0
          /\ F2[<<b, i, j, k>>] = 0 /\ F2[<<b, i, j + 1, k>>] = 0
          /\ F3[<<b, i, j, k>>] = 0 /\ F3[<<b, i, j, k + 1>>] = 0
        BY ZoneFaces DEF Init
    <2> QED BY <2>1 DEF Div
<1> QED BY <1>1, DivergenceStep, FieldTypes, PTL DEF Spec

-----------------------------------------------------------------------------
(***************************************************************************)
(* What the boundaries make of the EMF at a pole, and all that the update  *)
(* needs of it there: none along the pole, the same all around it.         *)
(***************************************************************************)
PoleEMF ==
    at = "AddSource" =>
        /\ \A e \in E3s : e[3] \in PoleFaces => E3[e] = 0
        /\ \A b \in Blocks, i \in 1 .. N1, j \in PoleFaces, k \in 1 .. N3 :
              E1[<<b, i, j, k + 1>>] = E1[<<b, i, j, k>>]

\* Faces and edges at a pole are on the mesh
LEMMA PoleElements ==
    ASSUME NEW b \in Blocks, NEW i \in 1 .. N1, NEW j \in PoleFaces, NEW k \in 1 .. N3
    PROVE  /\ <<b, i, j, k>> \in F2s
           /\ <<b, i, j, k>> \in E1s /\ <<b, i, j, k + 1>> \in E1s
           /\ <<b, i, j, k>> \in E3s /\ <<b, i + 1, j, k>> \in E3s
<1>1. j \in 1 .. N2 + 1 /\ i \in 1 .. N1 + 1 /\ i + 1 \in 1 .. N1 + 1
    BY MeshAssumption DEF PoleFaces
<1>2. k \in 1 .. N3 + 1 /\ k + 1 \in 1 .. N3 + 1
    BY MeshAssumption
<1> QED BY <1>1, <1>2 DEF F2s, E1s, E3s

\* The boundaries see to it, and nothing undoes it before the update
LEMMA PoleEMFStep ==
    TypeOK /\ PoleEMF /\ [Next]_vars => PoleEMF'
<1> SUFFICES ASSUME TypeOK, PoleEMF, [Next]_vars PROVE PoleEMF'
    OBVIOUS
<1>1. CASE BoundaryEMF
    <2>1. \A e \in E3s : e[3] \in PoleFaces => E3'[e] = 0
        BY <1>1 DEF BoundaryEMF, NoEMF3AtPole
    <2>2. ASSUME NEW b \in Blocks, NEW i \in 1 .. N1, NEW j \in PoleFaces, NEW k \in 1 .. N3
          PROVE  E1'[<<b, i, j, k + 1>>] = E1'[<<b, i, j, k>>]
        BY <1>1, PoleElements DEF BoundaryEMF, ZeroBoundaryEMF, AverageBoundaryEMF
    <2> QED BY <2>1, <2>2 DEF PoleEMF
<1>2. CASE UNCHANGED vars
    BY <1>2 DEF vars, PoleEMF
<1> QED BY <1>1, <1>2
    DEF Next, PoleEMF, CalculateEMF, ExchangeEMF, AddSource, ReconnectB3, KeepPoles

\* ... in all behaviours
LEMMA PoleEMFHolds == Spec => []PoleEMF
<1>1. Init => PoleEMF
    BY DEF Init, PoleEMF
<1> QED BY <1>1, PoleEMFStep, FieldTypes, PTL DEF Spec

\* What goes into a face at the pole on one side comes out on the other
LEMMA PoleStep ==
    TypeOK /\ PoleEMF /\ PoleClosed /\ [Next]_vars => PoleClosed'
<1> SUFFICES ASSUME TypeOK, PoleEMF, PoleClosed, [Next]_vars,
                    NEW b \in Blocks, NEW i \in 1 .. N1, NEW j \in PoleFaces, NEW k \in 1 .. N3
             PROVE  F2'[<<b, i, j, k>>] = 0
    BY DEF PoleClosed
<1>1. F2[<<b, i, j, k>>] = 0
    BY DEF PoleClosed
<1>2. CASE AddSource
    <2>1. F2'[<<b, i, j, k>>] = F2[<<b, i, j, k>>] + Circ2(b, i, j, k)
        BY <1>2, PoleElements DEF AddSource
    <2>2. E1[<<b, i, j, k>>] \in Int /\ E1[<<b, i, j, k + 1>>] = E1[<<b, i, j, k>>]
        BY <1>2, PoleElements DEF AddSource, PoleEMF, TypeOK
    <2>3. E3[<<b, i, j, k>>] = 0 /\ E3[<<b, i + 1, j, k>>] = 0
        BY <1>2, PoleElements DEF AddSource, PoleEMF
    <2> QED BY <1>1, <2>1, <2>2, <2>3 DEF Circ2
<1>3. CASE UNCHANGED F2
    BY <1>1, <1>3
<1> QED BY <1>2, <1>3
    DEF Next, CalculateEMF, ExchangeEMF, BoundaryEMF, ReconnectB3, KeepPoles, vars, faces

\* The update never opens the pole: what goes into its faces on one side, through
\* the edges between them, comes out on the other
THEOREM PolesStayClosed == Spec => []PoleClosed
<1>1. Init => PoleClosed
    <2> SUFFICES ASSUME Init,
                        NEW b \in Blocks, NEW i \in 1 .. N1, NEW j \in PoleFaces, NEW k \in 1 .. N3
                 PROVE  F2[<<b, i, j, k>>] = 0
        BY DEF PoleClosed
    <2> QED BY PoleElements DEF Init
<1> QED BY <1>1, PoleStep, FieldTypes, PoleEMFHolds, PTL DEF Spec

-----------------------------------------------------------------------------
(***************************************************************************)
(* What the averages around a pole take for granted, and an error message  *)
(* says: they need all zones around the pole to be in one block.           *)
(***************************************************************************)
PolesInOneBlock ==
    NBlocks = 1 \/ \A o \in Options : o.emf = "zero" /\ ~o.excise

\* Shared edges agree from the exchange on, also after the boundaries
EdgesAgree ==
    at \in {"BoundaryEMF", "AddSource"} =>
        /\ \A b \in Blocks, i \in 1 .. N1, j \in 1 .. N2 + 1 :
              E1[<<b, i, j, N3 + 1>>] = E1[<<Next3(b), i, j, 1>>]
        /\ \A b \in Blocks, i \in 1 .. N1 + 1, j \in 1 .. N2 :
              E2[<<b, i, j, N3 + 1>>] = E2[<<Next3(b), i, j, 1>>]

\* Faces and edges at both ends of a block are on the mesh
LEMMA EndElements ==
    /\ \A b \in Blocks, i \in 1 .. N1, j \in 1 .. N2 + 1 :
          <<b, i, j, N3 + 1>> \in E1s /\ <<b, i, j, 1>> \in E1s
    /\ \A b \in Blocks, i \in 1 .. N1 + 1, j \in 1 .. N2 :
          <<b, i, j, N3 + 1>> \in E2s /\ <<b, i, j, 1>> \in E2s
    /\ \A b \in Blocks, i \in 1 .. N1, j \in 1 .. N2 :
          <<b, i, j, N3 + 1>> \in F3s /\ <<b, i, j, 1>> \in F3s
<1>1. 1 \in 1 .. N3 + 1 /\ N3 + 1 \in 1 .. N3 + 1 /\ N3 + 1 # 1
    BY MeshAssumption
<1> QED BY <1>1 DEF E1s, E2s, F3s

\* The exchange makes shared edges equal, and averages around all of a pole keep them so
LEMMA EdgesStep ==
    ASSUME PolesInOneBlock
    PROVE  TypeOK /\ EdgesAgree /\ [Next]_vars => EdgesAgree'
<1> SUFFICES ASSUME TypeOK, EdgesAgree, [Next]_vars PROVE EdgesAgree'
    OBVIOUS
<1>1. CASE ExchangeEMF
    <2>1. ASSUME NEW b \in Blocks, NEW i \in 1 .. N1, NEW j \in 1 .. N2 + 1
          PROVE  E1'[<<b, i, j, N3 + 1>>] = E1'[<<Next3(b), i, j, 1>>]
        <3>1. E1'[<<b, i, j, N3 + 1>>] = E1[<<Next3(b), i, j, 1>>]
            BY <1>1, EndElements DEF ExchangeEMF
        <3>2. 1 # N3 + 1 /\ Next3(b) \in Blocks
            BY NextBlock, MeshAssumption
        <3>3. E1'[<<Next3(b), i, j, 1>>] = E1[<<Next3(b), i, j, 1>>]
            BY <1>1, <3>2, EndElements DEF ExchangeEMF
        <3> QED BY <3>1, <3>3
    <2>2. ASSUME NEW b \in Blocks, NEW i \in 1 .. N1 + 1, NEW j \in 1 .. N2
          PROVE  E2'[<<b, i, j, N3 + 1>>] = E2'[<<Next3(b), i, j, 1>>]
        <3>1. E2'[<<b, i, j, N3 + 1>>] = E2[<<Next3(b), i, j, 1>>]
            BY <1>1, EndElements DEF ExchangeEMF
        <3>2. 1 # N3 + 1 /\ Next3(b) \in Blocks
            BY NextBlock, MeshAssumption
        <3>3. E2'[<<Next3(b), i, j, 1>>] = E2[<<Next3(b), i, j, 1>>]
            BY <1>1, <3>2, EndElements DEF ExchangeEMF
        <3> QED BY <3>1, <3>3
    <2> QED BY <2>1, <2>2 DEF EdgesAgree
<1>2. CASE BoundaryEMF
    <2>1. \A b \in Blocks, i \in 1 .. N1 + 1, j \in 1 .. N2 :
             E2'[<<b, i, j, N3 + 1>>] = E2'[<<Next3(b), i, j, 1>>]
        BY <1>2 DEF BoundaryEMF, EdgesAgree
    <2>2. ASSUME NEW b \in Blocks, NEW i \in 1 .. N1, NEW j \in 1 .. N2 + 1
          PROVE  E1'[<<b, i, j, N3 + 1>>] = E1'[<<Next3(b), i, j, 1>>]
        <3>1. E1[<<b, i, j, N3 + 1>>] = E1[<<Next3(b), i, j, 1>>]
            BY <1>2 DEF BoundaryEMF, EdgesAgree
        <3>2. CASE ZeroBoundaryEMF
            BY <3>1, <3>2, EndElements, NextBlock DEF ZeroBoundaryEMF
        <3>3. CASE AverageBoundaryEMF
            <4>1. NBlocks = 1
                BY <3>3 DEF AverageBoundaryEMF, PolesInOneBlock, TypeOK
            <4>2. Next3(b) = b
                BY <4>1 DEF Next3, Blocks
            <4> QED BY <3>1, <3>3, <4>2, EndElements DEF AverageBoundaryEMF
        <3> QED BY <1>2, <3>2, <3>3 DEF BoundaryEMF
    <2> QED BY <2>1, <2>2 DEF EdgesAgree
<1>3. CASE UNCHANGED vars
    BY <1>3 DEF vars, EdgesAgree
<1> QED BY <1>1, <1>2, <1>3
    DEF Next, EdgesAgree, CalculateEMF, AddSource, ReconnectB3, KeepPoles

\* ... in all behaviours
LEMMA EdgesAgreeHolds ==
    ASSUME PolesInOneBlock
    PROVE  Spec => []EdgesAgree
<1>1. Init => EdgesAgree
    BY DEF Init, EdgesAgree
<1> QED BY <1>1, EdgesStep, FieldTypes, PTL DEF Spec

\* Equal copies of an edge change both copies of a face by the same
LEMMA SharedFacesStep ==
    ASSUME PolesInOneBlock
    PROVE  TypeOK /\ EdgesAgree /\ SharedFacesAgree /\ [Next]_vars => SharedFacesAgree'
<1> SUFFICES ASSUME TypeOK, EdgesAgree, SharedFacesAgree, [Next]_vars,
                    NEW b \in Blocks, NEW i \in 1 .. N1, NEW j \in 1 .. N2
             PROVE  F3'[<<b, i, j, N3 + 1>>] = F3'[<<Next3(b), i, j, 1>>]
    BY DEF SharedFacesAgree
<1>1. F3[<<b, i, j, N3 + 1>>] = F3[<<Next3(b), i, j, 1>>]
    BY DEF SharedFacesAgree
<1>2. CASE AddSource
    <2>1. i \in 1 .. N1 + 1 /\ i + 1 \in 1 .. N1 + 1 /\ j \in 1 .. N2 + 1 /\ j + 1 \in 1 .. N2 + 1
        BY MeshAssumption
    <2>2. Circ3(b, i, j, N3 + 1) = Circ3(Next3(b), i, j, 1)
        <3>1. /\ E1[<<b, i, j, N3 + 1>>] = E1[<<Next3(b), i, j, 1>>]
              /\ E1[<<b, i, j + 1, N3 + 1>>] = E1[<<Next3(b), i, j + 1, 1>>]
            BY <1>2, <2>1 DEF AddSource, EdgesAgree
        <3>2. /\ E2[<<b, i, j, N3 + 1>>] = E2[<<Next3(b), i, j, 1>>]
              /\ E2[<<b, i + 1, j, N3 + 1>>] = E2[<<Next3(b), i + 1, j, 1>>]
            BY <1>2, <2>1 DEF AddSource, EdgesAgree
        <3> QED BY <3>1, <3>2 DEF Circ3
    <2>3. F3'[<<b, i, j, N3 + 1>>] = F3[<<b, i, j, N3 + 1>>] + Circ3(b, i, j, N3 + 1)
        BY <1>2, EndElements DEF AddSource
    <2>4. F3'[<<Next3(b), i, j, 1>>] = F3[<<Next3(b), i, j, 1>>] + Circ3(Next3(b), i, j, 1)
        BY <1>2, EndElements, NextBlock DEF AddSource
    <2> QED BY <1>1, <2>2, <2>3, <2>4
<1>3. CASE ReconnectB3
    <2>1. NBlocks = 1 \/ ~options.excise
        BY DEF PolesInOneBlock, TypeOK
    <2>2. CASE NBlocks = 1
        <3>1. Next3(b) = b
            BY <2>2 DEF Next3, Blocks
        <3> QED BY <1>1, <1>3, <3>1, EndElements DEF ReconnectB3
    <2>3. CASE ~options.excise
        BY <1>3, <2>3 DEF ReconnectB3
    <2> QED BY <2>1, <2>2, <2>3
<1>4. CASE UNCHANGED F3
    BY <1>1, <1>4
<1> QED BY <1>2, <1>3, <1>4
    DEF Next, CalculateEMF, ExchangeEMF, BoundaryEMF, KeepPoles, vars, faces

\* With the zones around a pole in one block, or nothing averaged around it, the
\* copies of a face never drift apart
THEOREM SharedFacesStayEqual ==
    ASSUME PolesInOneBlock
    PROVE  Spec => []SharedFacesAgree
<1>1. Init => SharedFacesAgree
    <2> SUFFICES ASSUME Init, NEW b \in Blocks, NEW i \in 1 .. N1, NEW j \in 1 .. N2
                 PROVE  F3[<<b, i, j, N3 + 1>>] = F3[<<Next3(b), i, j, 1>>]
        BY DEF SharedFacesAgree
    <2>1. F3[<<b, i, j, N3 + 1>>] = 0
        BY EndElements DEF Init
    <2>2. F3[<<Next3(b), i, j, 1>>] = 0
        BY EndElements, NextBlock DEF Init
    <2> QED BY <2>1, <2>2
<1> QED BY <1>1, SharedFacesStep, FieldTypes, EdgesAgreeHolds, PTL DEF Spec

-----------------------------------------------------------------------------
(* Whole multiples, remainders and powers of two.                            *)
LEMMA MultipleOf == \A g \in Int, m \in Int : g * m \in Multiples(g)
BY Zenon DEF Multiples

\* A multiple is a product
LEMMA MultipleIs ==
    ASSUME NEW g, NEW x \in Multiples(g)
    PROVE  \E m \in Int : x = g * m
BY DEF Multiples

\* A multiple of a product is one of each factor
LEMMA Finer ==
    ASSUME NEW g \in Int, NEW h \in Int, NEW x \in Multiples(g * h)
    PROVE  x \in Multiples(g) /\ x \in Multiples(h)
<1>1. g * h \in Int
    OBVIOUS
<1>2. PICK m \in Int : x = (g * h) * m
    BY <1>1, MultipleIs
<1>3. x = g * (h * m) /\ x = h * (g * m) /\ h * m \in Int /\ g * m \in Int
    BY <1>2
<1> QED BY <1>3, MultipleOf

\* A product with a multiple is a multiple
LEMMA TimesMultiple ==
    ASSUME NEW g \in Int, NEW m \in Int, NEW x \in Multiples(g)
    PROVE  m * x \in Multiples(g)
<1>1. PICK n \in Int : x = g * n
    BY MultipleIs
<1>2. m * x = g * (m * n) /\ m * n \in Int
    BY <1>1
<1> QED BY <1>2, MultipleOf

\* What divides without a remainder is a multiple
LEMMA NoRemainder ==
    ASSUME NEW d \in Nat \ {0}, NEW x \in Int, x % d = 0
    PROVE  x \in Multiples(d)
<1>1. x = d * (x \div d) /\ x \div d \in Int
    OBVIOUS
<1>2. PICK m \in Int : x = d * m
    BY <1>1
<1>3. d \in Int
    OBVIOUS
<1> QED BY <1>2, <1>3, MultipleOf

\* A division that is exact, and what it leaves is still a multiple
LEMMA DividesExactly ==
    ASSUME NEW d \in Nat \ {0}, NEW g \in Int, NEW x \in Multiples(d * g)
    PROVE  d * (x \div d) = x /\ x \div d \in Multiples(g)
<1>1. d * g \in Int
    OBVIOUS
<1>2. PICK m \in Int : x = (d * g) * m
    BY <1>1, MultipleIs
<1>3. x = d * (g * m) /\ g * m \in Int
    BY <1>2
<1>4. (d * (g * m)) \div d = g * m
    BY <1>3
<1> QED BY <1>3, <1>4, MultipleOf

\* The remainder of a product and less than one factor more
LEMMA Remainder ==
    ASSUME NEW d \in Nat \ {0}, NEW p \in Int, NEW r \in 0 .. d - 1
    PROVE  (d * p + r) % d = r
OBVIOUS

\* Powers multiply as their exponents add
LEMMA PowersMultiply == \A m \in Nat, n \in Nat : Pow2[m + n] = Pow2[m] * Pow2[n]
<1> SUFFICES ASSUME NEW m \in Nat, NEW n \in Nat PROVE Pow2[m + n] = Pow2[m] * Pow2[n]
    OBVIOUS
<1> DEFINE Good == {l \in 0 .. n : Pow2[m + l] = Pow2[m] * Pow2[l]}
<1>1. 0 \in Good
    <2>1. Pow2[m + 0] = Pow2[m] * Pow2[0]
        BY PowerOfTwo
    <2> QED BY <2>1
<1>2. ASSUME NEW q \in 0 .. n - 1, q \in Good
      PROVE  q + 1 \in Good
    <2>1. m + (q + 1) = (m + q) + 1 /\ m + q \in Nat /\ q \in Nat
        OBVIOUS
    <2>2. Pow2[(m + q) + 1] = 2 * Pow2[m + q] /\ Pow2[q + 1] = 2 * Pow2[q]
        BY <2>1, PowerOfTwo
    <2>3. Pow2[m + q] = Pow2[m] * Pow2[q] /\ Pow2[m] \in Nat /\ Pow2[q] \in Nat
        BY <1>2, <2>1, PowerOfTwo
    <2>4. Pow2[m + (q + 1)] = Pow2[m] * Pow2[q + 1]
        BY <2>1, <2>2, <2>3
    <2> QED BY <2>4
<1> HIDE DEF Good
<1>3. n \in Good
    BY <1>1, <1>2, Climb
<1> QED BY <1>3 DEF Good

-----------------------------------------------------------------------------
(* The rows of zones that are merged, and their coarse cells.                *)
LEMMA DepthIs ==
    ASSUME NEW j \in 1 .. N2
    PROVE  Depth(j) = IF j - 1 <= N2 - j THEN j - 1 ELSE N2 - j
<1>1. N2 \in Nat
    BY MeshAssumption
<1>2. Min({j - 1, N2 - j}) = IF j - 1 <= N2 - j THEN j - 1 ELSE N2 - j
    BY <1>1 DEF Min
<1> QED BY <1>2 DEF Depth

\* The assumption on coarse cells, for the options of the run
LEMMA LevelsFit ==
    ASSUME options \in Options
    PROVE  Levels \in Nat /\ N2 >= 2 * Levels /\ N3 % Pow2[Levels] = 0
BY OptionsAssumption, CoarseCellsAssumption DEF Levels

\* A merged row, its two sides of X2, and which of them is at the pole
LEMMA RowIs ==
    ASSUME options \in Options, NEW j \in Rows
    PROVE  /\ j \in 1 .. N2 /\ Depth(j) \in 0 .. Levels - 1
           /\ \/ IsInner(j) /\ Depth(j) = j - 1 /\ PoleSide(j) = j /\ FarSide(j) = j + 1
              \/ ~IsInner(j) /\ Depth(j) = N2 - j /\ PoleSide(j) = j + 1 /\ FarSide(j) = j
           /\ Depth(j) = 0 => PoleSide(j) \in PoleFaces
<1>1. N2 \in Nat /\ j \in 1 .. N2 /\ Depth(j) < Levels /\ Levels \in Nat
    BY LevelsFit, MeshAssumption DEF Rows
<1> QED BY <1>1, DepthIs DEF IsInner, PoleSide, FarSide, PoleFaces

\* No two rows close on the same faces
LEMMA RowAtPoleSide ==
    ASSUME options \in Options, NEW j \in Rows
    PROVE  RowAt(PoleSide(j)) = {j}
<1>1. N2 \in Nat /\ Levels \in Nat /\ N2 >= 2 * Levels
    BY LevelsFit, MeshAssumption
<1>2. ASSUME NEW n \in Rows, PoleSide(n) = PoleSide(j)
      PROVE  n = j
    BY <1>1, <1>2, RowIs
<1> QED BY <1>2 DEF RowAt

\* Beyond a row lies one of coarse cells half as long, or zones that are not merged
LEMMA RowAtFarSide ==
    ASSUME options \in Options, NEW j \in Rows
    PROVE  \/ Depth(j) + 1 = Levels /\ RowAt(FarSide(j)) = {}
           \/ \E n \in Rows : /\ Depth(n) = Depth(j) + 1 /\ PoleSide(n) = FarSide(j)
                              /\ RowAt(FarSide(j)) = {n}
<1>1. N2 \in Nat /\ Levels \in Nat /\ N2 >= 2 * Levels
    BY LevelsFit, MeshAssumption
<1>2. CASE Depth(j) + 1 = Levels
    <2>1. ASSUME NEW n \in Rows, PoleSide(n) = FarSide(j)
          PROVE  FALSE
        BY <1>1, <1>2, <2>1, RowIs
    <2> QED BY <1>2, <2>1 DEF RowAt
<1>3. CASE Depth(j) + 1 # Levels
    <2> DEFINE n == IF IsInner(j) THEN j + 1 ELSE j - 1
    <2>1. n \in 1 .. N2 /\ n \in Int
        BY <1>1, <1>3, RowIs
    <2>2. Depth(n) = Depth(j) + 1
        BY <1>1, <1>3, <2>1, RowIs, DepthIs
    <2>3. n \in Rows
        BY <1>1, <1>3, <2>1, <2>2, RowIs DEF Rows
    <2>4. PoleSide(n) = FarSide(j)
        BY <1>1, <1>3, <2>2, <2>3, RowIs
    <2> HIDE DEF n
    <2> QED BY <2>2, <2>3, <2>4, RowAtPoleSide
<1> QED BY <1>2, <1>3

\* Faces of zones that are not merged are left alone
LEMMA RowsApart ==
    ASSUME options \in Options, NEW j \in 1 .. N2, j \notin Rows
    PROVE  RowAt(j) = {} /\ RowAt(j + 1) = {}
<1>1. N2 \in Nat /\ Levels \in Nat /\ N2 >= 2 * Levels
    BY LevelsFit, MeshAssumption
<1>2. Depth(j) >= Levels
    BY <1>1, DepthIs DEF Rows
<1>3. ASSUME NEW n \in Rows, PoleSide(n) \in {j, j + 1}
      PROVE  FALSE
    BY <1>1, <1>2, <1>3, RowIs, DepthIs
<1> QED BY <1>3 DEF RowAt

\* A coarse cell has an even number of zones, and a ring of zones a whole number of them
LEMMA Lengths ==
    ASSUME options \in Options, NEW j \in Rows
    PROVE  \E h \in Nat \ {0}, c \in Nat \ {0} :
              /\ CoarseLen(j) = 2 * h /\ CoarseLen(j) \div 2 = h /\ N3 = CoarseLen(j) * c
              /\ Depth(j) + 1 = Levels => h = 1
              /\ \A n \in Rows : Depth(n) = Depth(j) + 1 => CoarseLen(n) = h
<1>1. Levels \in Nat /\ Depth(j) \in 0 .. Levels - 1 /\ N3 \in Nat \ {0} /\ N3 % Pow2[Levels] = 0
    BY LevelsFit, RowIs, MeshAssumption
<1> DEFINE e == Levels - Depth(j) - 1
           h == Pow2[e]
<1>2. e \in Nat /\ Levels - Depth(j) = e + 1 /\ Depth(j) \in Nat /\ Levels = (e + 1) + Depth(j)
    BY <1>1
<1>3. h \in Nat \ {0} /\ CoarseLen(j) = 2 * h
    BY <1>2, PowerOfTwo DEF CoarseLen
<1>4. (2 * h) \div 2 = h
    BY <1>3
<1>5. \E c \in Nat \ {0} : N3 = CoarseLen(j) * c
    <2>1. Pow2[Levels] = CoarseLen(j) * Pow2[Depth(j)]
        <3>1. e + 1 \in Nat /\ CoarseLen(j) = Pow2[e + 1]
            BY <1>2 DEF CoarseLen
        <3>2. Pow2[(e + 1) + Depth(j)] = Pow2[e + 1] * Pow2[Depth(j)]
            BY <1>2, <3>1, PowersMultiply
        <3> QED BY <1>2, <3>1, <3>2
    <2>2. Pow2[Levels] \in Nat \ {0} /\ Pow2[Depth(j)] \in Nat \ {0}
        BY <1>1, <1>2, PowerOfTwo
    <2>3. PICK m \in Int : N3 = Pow2[Levels] * m
        BY <1>1, <2>2, NoRemainder, MultipleIs
    <2>4. CoarseLen(j) \in Nat \ {0}
        BY <1>3
    <2>5. N3 = CoarseLen(j) * (Pow2[Depth(j)] * m) /\ Pow2[Depth(j)] * m \in Int
        BY <2>1, <2>2, <2>3, <2>4
    <2>6. Pow2[Depth(j)] * m \in Nat \ {0}
        BY <1>1, <2>4, <2>5
    <2> QED BY <2>5, <2>6
<1>6. Depth(j) + 1 = Levels => h = 1
    BY <1>1, PowerOfTwo
<1>7. \A n \in Rows : Depth(n) = Depth(j) + 1 => CoarseLen(n) = h
    BY <1>1 DEF CoarseLen
<1> HIDE DEF h
<1> QED BY <1>3, <1>4, <1>5, <1>6, <1>7

\* A zone's coarse cell lies within the ring, and all its zones are in the same one
LEMMA CellIs ==
    ASSUME options \in Options, NEW j \in Rows, NEW k \in 1 .. N3
    PROVE  /\ CoarseLen(j) \in Nat \ {0} /\ Fine(j, k) \in 0 .. CoarseLen(j) - 1
           /\ Start(j, k) \in 1 .. N3 /\ k = Start(j, k) + Fine(j, k)
           /\ Start(j, k) + CoarseLen(j) \in 2 .. N3 + 1
           /\ Cell(j, k) = Zones(Start(j, k), CoarseLen(j))
           /\ Fine(j, Start(j, k) + CoarseLen(j)) = 0
           /\ \A q \in Cell(j, k) : /\ q \in 1 .. N3 /\ Start(j, q) = Start(j, k)
                                    /\ Cell(j, q) = Cell(j, k)
<1>1. PICK h \in Nat \ {0}, c \in Nat \ {0} : CoarseLen(j) = 2 * h /\ N3 = CoarseLen(j) * c
    BY Lengths
<1> DEFINE len == CoarseLen(j)
           p == (k - 1) \div len
           fine == Fine(j, k)
           start == Start(j, k)
<1>2. len \in Nat \ {0} /\ N3 = len * c /\ N3 \in Nat
    BY <1>1
<1>3. p \in Int /\ fine \in 0 .. len - 1 /\ k - 1 = len * p + fine
    <2> DEFINE x == k - 1
    <2>1. x \in Int
        BY <1>2
    <2> HIDE DEF x, len
    <2>2. x = len * (x \div len) + (x % len) /\ x % len \in 0 .. len - 1 /\ x \div len \in Int
        BY <1>2, <2>1
    <2> QED BY <2>2 DEF Fine, x, len
<1>4. start = len * p + 1 /\ k = start + fine /\ start \in Int
    BY <1>2, <1>3 DEF Start
<1>5. Cell(j, k) = Zones(start, len)
    BY DEF Cell, Zones
<1> HIDE DEF p, fine, start, len
<1>6. p >= 0 /\ p < c
    <2>1. ASSUME p < 0 PROVE FALSE
        <3>1. len * p <= len * (-1)
            BY <1>2, <1>3, <2>1
        <3> QED BY <1>2, <1>3, <3>1
    <2>2. ASSUME p >= c PROVE FALSE
        <3>1. len * p >= len * c
            BY <1>2, <1>3, <2>2
        <3> QED BY <1>2, <1>3, <3>1
    <2> QED BY <1>3, <2>1, <2>2
<1>7. len * p >= 0 /\ len * (p + 1) <= N3 /\ len * (p + 1) = len * p + len
    BY <1>2, <1>3, <1>6
<1>8. start \in 1 .. N3 /\ start + len \in 2 .. N3 + 1
    BY <1>2, <1>3, <1>4, <1>7
<1>9. Fine(j, start + len) = 0
    <2>1. (start + len) - 1 = len * (p + 1) + 0 /\ p + 1 \in Int /\ 0 \in 0 .. len - 1
        BY <1>2, <1>3, <1>4, <1>7
    <2>2. (len * (p + 1) + 0) % len = 0
        BY <1>2, <2>1, Remainder
    <2> QED BY <2>1, <2>2 DEF Fine, len
<1>10. ASSUME NEW q \in Cell(j, k)
       PROVE  q \in 1 .. N3 /\ Start(j, q) = start /\ Cell(j, q) = Cell(j, k)
    <2>1. q \in 1 .. N3 /\ q - start \in 0 .. len - 1 /\ q - 1 = len * p + (q - start)
        BY <1>2, <1>3, <1>4, <1>5, <1>8 DEF Zones
    <2>2. (len * p + (q - start)) % len = q - start
        BY <1>2, <1>3, <2>1, Remainder
    <2>3. Start(j, q) = start
        BY <1>4, <2>1, <2>2 DEF Start, Fine, len
    <2> QED BY <2>1, <2>3 DEF Cell, start
<1> QED BY <1>2, <1>3, <1>4, <1>5, <1>8, <1>9, <1>10 DEF fine, start, len

\* The halves of a coarse cell are the coarse cells of the row beyond
LEMMA HalfCells ==
    ASSUME options \in Options, NEW j \in Rows, NEW n \in Rows, NEW k \in 1 .. N3,
           CoarseLen(j) = 2 * CoarseLen(n)
    PROVE  Cell(n, k) = IF Fine(j, k) < CoarseLen(n) THEN Zones(Start(j, k), CoarseLen(n))
                        ELSE Zones(Start(j, k) + CoarseLen(n), CoarseLen(n))
<1> DEFINE h == CoarseLen(n)
           p == (k - 1) \div (2 * h)
           fine == Fine(j, k)
<1>1. h \in Nat \ {0} /\ 2 * h \in Nat \ {0}
    BY CellIs
<1>2. p \in Int /\ fine \in 0 .. 2 * h - 1 /\ k - 1 = (2 * h) * p + fine /\ Start(j, k) = k - fine
    BY <1>1 DEF Fine, Start
<1>3. Fine(n, k) = (k - 1) % h
    BY DEF Fine
<1> HIDE DEF h, p, fine
<1>4. CASE fine < h
    <2>1. k - 1 = h * (2 * p) + fine /\ 2 * p \in Int /\ fine \in 0 .. h - 1
        BY <1>1, <1>2, <1>4
    <2>2. (h * (2 * p) + fine) % h = fine
        BY <1>1, <2>1, Remainder
    <2>3. Start(n, k) = Start(j, k)
        BY <1>2, <1>3, <2>1, <2>2 DEF Start
    <2> QED BY <1>4, <2>3 DEF Cell, Zones, h, fine
<1>5. CASE fine >= h
    <2>1. k - 1 = h * (2 * p + 1) + (fine - h) /\ 2 * p + 1 \in Int /\ fine - h \in 0 .. h - 1
        BY <1>1, <1>2, <1>5
    <2>2. (h * (2 * p + 1) + (fine - h)) % h = fine - h
        BY <1>1, <2>1, Remainder
    <2>3. Start(n, k) = Start(j, k) + h
        BY <1>1, <1>2, <1>3, <2>1, <2>2 DEF Start
    <2>4. ~(fine < h)
        BY <1>1, <1>2, <1>5
    <2> QED BY <2>3, <2>4 DEF Cell, Zones, h, fine
<1> QED BY <1>1, <1>2, <1>4, <1>5

-----------------------------------------------------------------------------
(* What merging makes of the fluxes of a coarse cell, where all divisions    *)
(* are exact: they are, if all fluxes are multiples of N3 times an integer.  *)
Ring1(b, i, j) == [q \in Int |-> F1[<<b, i, j, q>>]]
Ring2(b, i, j) == [q \in Int |-> F2[<<b, i, j, q>>]]
Ring3(b, i, j) == [q \in Int |-> F3[<<b, i, j, q>>]]

\* All fluxes are multiples of g
WholeFaces(g) ==
    /\ \A f \in F1s : F1[f] \in Multiples(g)
    /\ \A f \in F2s : F2[f] \in Multiples(g)
    /\ \A f \in F3s : F3[f] \in Multiples(g)

\* Fluxes through faces in a row are sums over it
LEMMA FluxIsTotal ==
    ASSUME NEW b, NEW i, NEW j, NEW a \in Int, NEW n \in Nat
    PROVE  /\ Flux1(b, i, j, Zones(a, n)) = Total(Ring1(b, i, j), Zones(a, n))
           /\ Flux2(b, i, j, Zones(a, n)) = Total(Ring2(b, i, j), Zones(a, n))
<1> DEFINE Z == Zones(a, n)
           f1 == [q \in Z |-> F1[<<b, i, j, q>>]]
           f2 == [q \in Z |-> F2[<<b, i, j, q>>]]
<1>1. IsFiniteSet(Z)
    BY ZonesGrow
<1>2. Z \subseteq Int
    BY DEF Zones
<1>3. Flux1(b, i, j, Z) = Total(f1, Z) /\ Flux2(b, i, j, Z) = Total(f2, Z)
    BY DEF Flux1, Flux2, SumFunction, Total
<1> HIDE DEF Z
<1>4. /\ \A x \in Z : f1[x] = Ring1(b, i, j)[x]
      /\ \A x \in Z : f2[x] = Ring2(b, i, j)[x]
    BY <1>2 DEF Ring1, Ring2
<1> HIDE DEF f1, f2
<1>5. Total(f1, Z) = Total(Ring1(b, i, j), Z) /\ Total(f2, Z) = Total(Ring2(b, i, j), Z)
    BY <1>1, <1>4, SumSame
<1> QED BY <1>3, <1>5 DEF Z

\* The faces around a ring of zones are on the mesh
LEMMA RingFaces ==
    ASSUME NEW b \in Blocks, NEW j \in 1 .. N2, NEW q \in 1 .. N3
    PROVE  /\ \A i \in 1 .. N1 + 1 : Ring1(b, i, j)[q] = F1[<<b, i, j, q>>] /\ <<b, i, j, q>> \in F1s
           /\ \A i \in 1 .. N1, f \in 1 .. N2 + 1 :
                 Ring2(b, i, f)[q] = F2[<<b, i, f, q>>] /\ <<b, i, f, q>> \in F2s
           /\ \A i \in 1 .. N1 : Ring3(b, i, j)[q] = F3[<<b, i, j, q>>] /\ <<b, i, j, q>> \in F3s
<1>1. q \in Int /\ q \in 1 .. N3 + 1
    BY MeshAssumption
<1> QED BY <1>1 DEF Ring1, Ring2, Ring3, F1s, F2s, F3s

\* The divisors of a row: its coarse cells' length, and half of it
LEMMA Averages ==
    ASSUME options \in Options, NEW j \in Rows, NEW g \in Int, NEW x \in Multiples(N3 * g)
    PROVE  /\ CoarseLen(j) * (x \div CoarseLen(j)) = x
           /\ x \div CoarseLen(j) \in Multiples(g)
<1>1. PICK h \in Nat \ {0}, c \in Nat \ {0} : CoarseLen(j) = 2 * h /\ N3 = CoarseLen(j) * c
    BY Lengths
<1>2. CoarseLen(j) \in Nat \ {0} /\ N3 * g = CoarseLen(j) * (c * g) /\ c * g \in Int
    BY <1>1
<1>3. x \in Multiples(CoarseLen(j) * (c * g))
    BY <1>2
<1>4. PICK y : y = x \div CoarseLen(j)
    OBVIOUS
<1>5. CoarseLen(j) * y = x /\ y \in Multiples(c * g)
    BY <1>2, <1>3, <1>4, DividesExactly
<1>6. y \in Multiples(g)
    <2>1. c \in Int
        OBVIOUS
    <2> QED BY <1>5, <2>1, Finer, Zenon
<1> QED BY <1>4, <1>5, <1>6, Zenon

\* The average flux of X1: a coarse cell of it is what the cell had
LEMMA MergedF1 ==
    ASSUME options \in Options, NEW g \in Int, WholeFaces(N3 * g),
           NEW b \in Blocks, NEW i \in 1 .. N1 + 1, NEW j \in Rows, NEW k \in 1 .. N3
    PROVE  /\ Flux1(b, i, j, Cell(j, k)) \in Multiples(N3 * g)
           /\ CoarseLen(j) * AveragedF1(b, i, j, k) = Flux1(b, i, j, Cell(j, k))
           /\ AveragedF1(b, i, j, k) \in Multiples(g)
           /\ \A q \in Cell(j, k) : AveragedF1(b, i, j, q) = AveragedF1(b, i, j, k)
<1>1. /\ Cell(j, k) = Zones(Start(j, k), CoarseLen(j)) /\ Start(j, k) \in Int /\ CoarseLen(j) \in Nat
      /\ \A q \in Cell(j, k) : q \in 1 .. N3 /\ Cell(j, q) = Cell(j, k)
      /\ j \in 1 .. N2 /\ N3 * g \in Int
    BY CellIs, RowIs, MeshAssumption
<1>2. ASSUME NEW q \in Cell(j, k)
      PROVE  Ring1(b, i, j)[q] \in Multiples(N3 * g)
    <2>1. q \in 1 .. N3 /\ j \in 1 .. N2
        BY <1>1
    <2>2. Ring1(b, i, j)[q] = F1[<<b, i, j, q>>] /\ <<b, i, j, q>> \in F1s
        BY <2>1, RingFaces
    <2> QED BY <2>2 DEF WholeFaces
<1>3. IsFiniteSet(Cell(j, k))
    BY <1>1, ZonesGrow
<1>4. Total(Ring1(b, i, j), Cell(j, k)) \in Multiples(N3 * g)
    BY <1>1, <1>2, <1>3, SumMultiple
<1>5. Flux1(b, i, j, Cell(j, k)) \in Multiples(N3 * g)
    BY <1>1, <1>4, FluxIsTotal
<1>6. \A q \in Cell(j, k) : AveragedF1(b, i, j, q) = AveragedF1(b, i, j, k)
    BY <1>1 DEF AveragedF1
<1> QED BY <1>5, <1>6, Averages DEF AveragedF1

\* A sum of fluxes of X2 of zones in a row
LEMMA Fluxes2 ==
    ASSUME NEW g \in Int, WholeFaces(g), NEW b \in Blocks, NEW i \in 1 .. N1, NEW f \in 1 .. N2 + 1,
           NEW a \in 1 .. N3, NEW n \in Nat, a + n <= N3 + 1
    PROVE  /\ Flux2(b, i, f, Zones(a, n)) \in Multiples(g)
           /\ Flux2(b, i, f, Zones(a, n)) \in Int
           /\ PoleClosed /\ f \in PoleFaces => Flux2(b, i, f, Zones(a, n)) = 0
<1>1. a \in Int /\ Zones(a, n) \subseteq 1 .. N3
    BY MeshAssumption DEF Zones
<1>2. 1 \in 1 .. N2
    BY MeshAssumption
<1>3. ASSUME NEW q \in Zones(a, n)
      PROVE  Ring2(b, i, f)[q] = F2[<<b, i, f, q>>] /\ <<b, i, f, q>> \in F2s
    <2>1. q \in 1 .. N3
        BY <1>1
    <2> QED BY <1>2, <2>1, RingFaces
<1>4. \A q \in Zones(a, n) : Ring2(b, i, f)[q] \in Multiples(g)
    BY <1>3 DEF WholeFaces
<1>5. Total(Ring2(b, i, f), Zones(a, n)) \in Multiples(g)
    BY <1>1, <1>4, ZonesGrow, SumMultiple
<1>6. Flux2(b, i, f, Zones(a, n)) = Total(Ring2(b, i, f), Zones(a, n))
    BY <1>1, FluxIsTotal
<1>7. ASSUME PoleClosed, f \in PoleFaces
      PROVE  Flux2(b, i, f, Zones(a, n)) = 0
    <2>1. \A q \in Zones(a, n) : Ring2(b, i, f)[q] = 0
        BY <1>1, <1>7, <1>3 DEF PoleClosed
    <2>2. Total(Ring2(b, i, f), Zones(a, n)) = n * 0
        BY <1>1, <2>1, SumConstant
    <2> QED BY <1>6, <2>2
<1>8. Flux2(b, i, f, Zones(a, n)) \in Int
    BY <1>5, <1>6, MultipleIs
<1> QED BY <1>5, <1>6, <1>7, <1>8

\* The average flux of X2 towards the pole, too, with none through the pole itself
LEMMA MergedF2 ==
    ASSUME options \in Options, NEW g \in Int, WholeFaces(N3 * g), PoleClosed,
           NEW b \in Blocks, NEW i \in 1 .. N1, NEW j \in Rows, NEW k \in 1 .. N3
    PROVE  /\ CoarseLen(j) * AveragedF2(b, i, j, k) = Flux2(b, i, PoleSide(j), Cell(j, k))
           /\ AveragedF2(b, i, j, k) \in Multiples(g)
           /\ \A q \in Cell(j, k) : AveragedF2(b, i, j, q) = AveragedF2(b, i, j, k)
           /\ PoleSide(j) \in PoleFaces => AveragedF2(b, i, j, k) = 0
<1> DEFINE flux == Flux2(b, i, PoleSide(j), Cell(j, k))
<1>1. /\ Cell(j, k) = Zones(Start(j, k), CoarseLen(j)) /\ CoarseLen(j) \in Nat \ {0}
      /\ Start(j, k) \in 1 .. N3 /\ Start(j, k) + CoarseLen(j) <= N3 + 1
      /\ \A q \in Cell(j, k) : Cell(j, q) = Cell(j, k)
      /\ PoleSide(j) \in 1 .. N2 + 1 /\ N3 * g \in Int
    BY CellIs, RowIs, MeshAssumption
<1>2. flux \in Multiples(N3 * g) /\ (PoleSide(j) \in PoleFaces => flux = 0)
    BY <1>1, Fluxes2
<1>3. \A q \in Cell(j, k) : AveragedF2(b, i, j, q) = AveragedF2(b, i, j, k)
    BY <1>1 DEF AveragedF2
<1>4. CoarseLen(j) * (flux \div CoarseLen(j)) = flux /\ flux \div CoarseLen(j) \in Multiples(g)
    BY <1>2, Averages
<1>5. 0 \div CoarseLen(j) = 0 /\ CoarseLen(j) * 0 = 0
    BY <1>1
<1>6. CASE Depth(j) = 0 /\ ~options.excise
    <2>1. AveragedF2(b, i, j, k) = 0 /\ flux = 0
        BY <1>2, <1>6, RowIs DEF AveragedF2
    <2> QED BY <1>3, <1>5, <2>1, ZeroIsMultiple
<1>7. CASE ~(Depth(j) = 0 /\ ~options.excise)
    <2>1. AveragedF2(b, i, j, k) = flux \div CoarseLen(j)
        BY <1>7 DEF AveragedF2
    <2> HIDE DEF flux
    <2> QED BY <1>2, <1>3, <1>4, <1>5, <2>1 DEF flux
<1> QED BY <1>6, <1>7

\* The flux through the faces inside a coarse cell, in halves of its length
Line(h, start, center, end, x) ==
    IF x <= h THEN (h - x) * start + x * center ELSE (x - h) * end + (2 * h - x) * center

\* A field that can be merged exactly, and halves of a row's coarse cells
Fits(g) == options \in Options /\ TypeOK /\ WholeFaces(N3 * g) /\ PoleClosed

\* Half the length of the coarse cells of a row, and how many of them make a ring
Halves(j, h, c) ==
    /\ h \in Nat \ {0} /\ c \in Nat \ {0}
    /\ CoarseLen(j) = 2 * h /\ CoarseLen(j) \div 2 = h /\ N3 = CoarseLen(j) * c

\* Which way of X2 is away from the pole
PointOut(j) == IF IsInner(j) THEN 1 ELSE -1

\* What goes through the two halves of a coarse cell on its far side
Left(b, i, j, k, h) == Flux2(b, i, FarSide(j), Zones(Start(j, k), h))
Right(b, i, j, k, h) == Flux2(b, i, FarSide(j), Zones(Start(j, k) + h, h))

\* In a coarse cell, the flux through its ends that are left alone
LEMMA Ends ==
    ASSUME options \in Options, NEW g \in Int, WholeFaces(g),
           NEW b \in Blocks, NEW i \in 1 .. N1, NEW j \in Rows, NEW k \in 1 .. N3
    PROVE  /\ F3[<<b, i, j, Start(j, k)>>] \in Multiples(g)
           /\ F3[<<b, i, j, Start(j, k) + CoarseLen(j)>>] \in Multiples(g)
           /\ <<b, i, j, Start(j, k)>> \in F3s /\ <<b, i, j, Start(j, k) + CoarseLen(j)>> \in F3s
<1>1. Start(j, k) \in 1 .. N3 + 1 /\ Start(j, k) + CoarseLen(j) \in 1 .. N3 + 1 /\ j \in 1 .. N2
    BY CellIs, RowIs, MeshAssumption
<1> QED BY <1>1 DEF F3s, WholeFaces

\* The face in the middle takes half of what the halves leave over, exactly
LEMMA MergedCenter ==
    ASSUME NEW g \in Int, Fits(g),
           NEW b \in Blocks, NEW i \in 1 .. N1, NEW j \in Rows, NEW k \in 1 .. N3,
           NEW h, NEW c, Halves(j, h, c)
    PROVE  /\ Left(b, i, j, k, h) \in Int /\ Right(b, i, j, k, h) \in Int
           /\ CenterF3(b, i, j, k) \in Multiples(h * (c * g))
           /\ 2 * CenterF3(b, i, j, k) =
                 F3[<<b, i, j, Start(j, k)>>] + F3[<<b, i, j, Start(j, k) + 2 * h>>]
                 + PointOut(j) * (Right(b, i, j, k, h) - Left(b, i, j, k, h))
<1> DEFINE S == Start(j, k)
           s == F3[<<b, i, j, S>>]
           e == F3[<<b, i, j, S + 2 * h>>]
           l == Left(b, i, j, k, h)
           r == Right(b, i, j, k, h)
           num == s + e + PointOut(j) * (r - l)
           unit == h * (c * g)
<1> USE DEF Fits, Halves
<1>1. S \in 1 .. N3 /\ S + 2 * h <= N3 + 1 /\ FarSide(j) \in 1 .. N2 + 1 /\ S \in Int /\ N3 \in Nat
    BY CellIs, RowIs, MeshAssumption
<1>2. N3 * g = 2 * unit /\ unit \in Int /\ N3 * g \in Int /\ c * g \in Int
    BY <1>1
<1>3. s \in Multiples(N3 * g) /\ e \in Multiples(N3 * g)
    BY <1>2, Ends
<1>4. l \in Multiples(N3 * g) /\ l \in Int
    BY <1>1, <1>2, Fluxes2 DEF Left
<1>5. r \in Multiples(N3 * g) /\ r \in Int
    <2>1. S + h \in 1 .. N3 /\ (S + h) + h <= N3 + 1
        BY <1>1
    <2> QED BY <1>1, <1>2, <2>1, Fluxes2 DEF Right
<1>6. CenterF3(b, i, j, k) = num \div 2
    <2>1. S + h .. S + 2 * h - 1 = S + h .. (S + h) + h - 1
        BY <1>1
    <2> QED BY <2>1 DEF CenterF3, Left, Right, PointOut, Zones
<1> HIDE DEF s, e, l, r, unit, S
<1>7. num \in Multiples(N3 * g)
    <2>1. r - l \in Multiples(N3 * g) /\ s + e \in Multiples(N3 * g)
        BY <1>2, <1>3, <1>4, <1>5, MultiplesAdd
    <2>2. PointOut(j) * (r - l) \in Multiples(N3 * g)
        BY <1>2, <2>1, TimesMultiple DEF PointOut
    <2> QED BY <1>2, <2>1, <2>2, MultiplesAdd
<1> HIDE DEF num
<1>8. num \in Multiples(2 * unit)
    BY <1>2, <1>7
<1>9. 2 * (num \div 2) = num /\ num \div 2 \in Multiples(unit)
    BY <1>2, <1>8, DividesExactly
<1>10. 2 * CenterF3(b, i, j, k) = num /\ CenterF3(b, i, j, k) \in Multiples(unit)
    BY <1>6, <1>9, Zenon
<1> QED BY <1>4, <1>5, <1>10 DEF num, s, e, l, r, unit, S

\* Interpolated fluxes are on the line, exactly
LEMMA MergedF3 ==
    ASSUME NEW g \in Int, Fits(g),
           NEW b \in Blocks, NEW i \in 1 .. N1, NEW j \in Rows, NEW k \in 1 .. N3,
           NEW h, NEW c, Halves(j, h, c)
    PROVE  /\ h * InteriorF3(b, i, j, k) =
                 Line(h, F3[<<b, i, j, Start(j, k)>>], CenterF3(b, i, j, k),
                      F3[<<b, i, j, Start(j, k) + 2 * h>>], Fine(j, k))
           /\ InteriorF3(b, i, j, k) \in Multiples(g)
<1> DEFINE S == Start(j, k)
           s == F3[<<b, i, j, S>>]
           e == F3[<<b, i, j, S + 2 * h>>]
           center == CenterF3(b, i, j, k)
           x == Fine(j, k)
           unit == h * (c * g)
           num == Line(h, s, center, e, x)
<1> USE DEF Fits, Halves
<1>1. x \in 0 .. 2 * h - 1 /\ k = S + x /\ S \in Int /\ N3 \in Nat
    BY CellIs, MeshAssumption
<1>2. N3 * g = unit * 2 /\ unit \in Int /\ N3 * g \in Int /\ c * g \in Int
    BY <1>1
<1>3. s \in Multiples(N3 * g) /\ e \in Multiples(N3 * g)
    BY <1>2, Ends
<1>4. center \in Multiples(unit)
    <2> HIDE DEF Fits, Halves
    <2> QED BY MergedCenter
<1>5. InteriorF3(b, i, j, k) =
         IF x = 0 THEN F3[<<b, i, j, k>>]
         ELSE IF x <= h THEN ((h - x) * s + x * center) \div h
         ELSE ((x - h) * e + (2 * h - x) * center) \div h
    BY DEF InteriorF3
<1>6. x = 0 => F3[<<b, i, j, k>>] = s
    BY <1>1
<1> HIDE DEF S, s, e, center, x, unit
<1>7. s \in Multiples(unit) /\ e \in Multiples(unit)
    <2>1. s \in Multiples(unit * 2) /\ e \in Multiples(unit * 2)
        BY <1>2, <1>3
    <2>2. 2 \in Int
        OBVIOUS
    <2> QED BY <1>2, <2>1, <2>2, Finer, Zenon
<1>8. s \in Int /\ e \in Int /\ center \in Int
    BY <1>2, <1>4, <1>7, MultiplesAdd
<1>9. num \in Multiples(unit)
    <2>1. /\ (h - x) * s \in Multiples(unit) /\ x * center \in Multiples(unit)
          /\ (x - h) * e \in Multiples(unit) /\ (2 * h - x) * center \in Multiples(unit)
        BY <1>1, <1>2, <1>4, <1>7, TimesMultiple
    <2>2. /\ (h - x) * s + x * center \in Multiples(unit)
          /\ (x - h) * e + (2 * h - x) * center \in Multiples(unit)
        BY <1>2, <2>1, MultiplesAdd
    <2> QED BY <2>2 DEF Line
<1>10. PICK y : y = InteriorF3(b, i, j, k)
    OBVIOUS
<1>11. y = num \div h
    <2>1. CASE x = 0
        <3>1. num = h * s
            BY <1>8, <2>1 DEF Line
        <3>2. (h * s) \div h = s
            BY <1>8
        <3> QED BY <1>5, <1>6, <1>10, <2>1, <3>1, <3>2
    <2>2. CASE x # 0
        BY <1>5, <1>10, <2>2 DEF Line
    <2> QED BY <2>1, <2>2
<1> HIDE DEF num
<1>12. num \in Multiples(h * (c * g))
    BY <1>9 DEF unit
<1>13. h * (num \div h) = num /\ num \div h \in Multiples(c * g)
    BY <1>2, <1>12, DividesExactly
<1>14. h * y = num /\ y \in Multiples(c * g)
    BY <1>11, <1>13, Zenon
<1>15. y \in Multiples(g)
    <2>1. c \in Int
        OBVIOUS
    <2> QED BY <1>14, <2>1, Finer, Zenon
<1> QED BY <1>10, <1>14, <1>15 DEF num, S, s, e, center, x

-----------------------------------------------------------------------------
(* Merging zones, as a step.                                                 *)
\* Merging writes the averages and the interior fluxes, to the zones of merged rows only
LEMMA Merged ==
    ASSUME DerefinePoles, options \in Options, NEW b \in Blocks
    PROVE  /\ \A j \in Rows, k \in 1 .. N3 :
                 /\ \A i \in 1 .. N1 + 1 : F1'[<<b, i, j, k>>] = AveragedF1(b, i, j, k)
                 /\ \A i \in 1 .. N1 : F2'[<<b, i, PoleSide(j), k>>] = AveragedF2(b, i, j, k)
                 /\ \A i \in 1 .. N1 : F3'[<<b, i, j, k>>] = InteriorF3(b, i, j, k)
           /\ \A j \in Rows, i \in 1 .. N1 : F3'[<<b, i, j, N3 + 1>>] = InteriorF3(b, i, j, N3 + 1)
           /\ \A f \in 1 .. N2 + 1, i \in 1 .. N1, k \in 1 .. N3 :
                 RowAt(f) = {} => F2'[<<b, i, f, k>>] = F2[<<b, i, f, k>>]
           /\ \A j \in (1 .. N2) \ Rows :
                 /\ \A i \in 1 .. N1 + 1, k \in 1 .. N3 : F1'[<<b, i, j, k>>] = F1[<<b, i, j, k>>]
                 /\ \A i \in 1 .. N1, k \in 1 .. N3 + 1 : F3'[<<b, i, j, k>>] = F3[<<b, i, j, k>>]
<1>1. /\ \A k \in 1 .. N3 : k \in 1 .. N3 + 1
      /\ N3 + 1 \in 1 .. N3 + 1
      /\ \A j \in Rows : j \in 1 .. N2 /\ PoleSide(j) \in 1 .. N2 + 1
    BY RowIs, MeshAssumption
<1>2. ASSUME NEW j \in 1 .. N2, NEW i \in 1 .. N1 + 1, NEW k \in 1 .. N3
      PROVE  F1'[<<b, i, j, k>>] = IF j \in Rows THEN AveragedF1(b, i, j, k) ELSE F1[<<b, i, j, k>>]
    <2>1. <<b, i, j, k>> \in F1s
        BY DEF F1s
    <2> QED BY <2>1 DEF DerefinePoles
<1>3. ASSUME NEW j \in 1 .. N2, NEW i \in 1 .. N1, NEW k \in 1 .. N3 + 1
      PROVE  F3'[<<b, i, j, k>>] = IF j \in Rows THEN InteriorF3(b, i, j, k) ELSE F3[<<b, i, j, k>>]
    <2>1. <<b, i, j, k>> \in F3s
        BY DEF F3s
    <2> QED BY <2>1 DEF DerefinePoles
<1>4. ASSUME NEW f \in 1 .. N2 + 1, NEW i \in 1 .. N1, NEW k \in 1 .. N3
      PROVE  F2'[<<b, i, f, k>>] = IF RowAt(f) = {} THEN F2[<<b, i, f, k>>]
                                   ELSE AveragedF2(b, i, CHOOSE j \in RowAt(f) : TRUE, k)
    <2> DEFINE e == <<b, i, f, k>>
    <2>1. e \in F2s /\ e[1] = b /\ e[2] = i /\ e[3] = f /\ e[4] = k
        BY DEF F2s
    <2> HIDE DEF e
    <2>2. F2'[e] = IF RowAt(e[3]) = {} THEN F2[e]
                   ELSE AveragedF2(e[1], e[2], CHOOSE j \in RowAt(e[3]) : TRUE, e[4])
        BY <2>1, Zenon DEF DerefinePoles
    <2>3. F2'[e] = IF RowAt(f) = {} THEN F2[e] ELSE AveragedF2(b, i, CHOOSE j \in RowAt(f) : TRUE, k)
        BY <2>1, <2>2, Zenon
    <2> QED BY <2>3, Zenon DEF e
<1>5. ASSUME NEW j \in Rows, NEW i \in 1 .. N1, NEW k \in 1 .. N3
      PROVE  F2'[<<b, i, PoleSide(j), k>>] = AveragedF2(b, i, j, k)
    <2>1. RowAt(PoleSide(j)) = {j}
        BY RowAtPoleSide
    <2>2. (CHOOSE n \in RowAt(PoleSide(j)) : TRUE) = j
        BY <2>1
    <2> QED BY <1>1, <1>4, <2>1, <2>2
<1> QED BY <1>1, <1>2, <1>3, <1>4, <1>5

\* The flux of X2 beyond a merged zone: that of its half of the coarse cell, spread out
LEMMA MergedFarSide ==
    ASSUME DerefinePoles, NEW g \in Int, Fits(g),
           NEW b \in Blocks, NEW i \in 1 .. N1, NEW j \in Rows, NEW k \in 1 .. N3,
           NEW h \in Nat \ {0}, CoarseLen(j) = 2 * h, Depth(j) + 1 = Levels => h = 1,
           \A n \in Rows : Depth(n) = Depth(j) + 1 => CoarseLen(n) = h
    PROVE  /\ h * F2'[<<b, i, FarSide(j), k>>] =
                 IF Fine(j, k) < h THEN Left(b, i, j, k, h) ELSE Right(b, i, j, k, h)
           /\ F2'[<<b, i, FarSide(j), k>>] \in Multiples(g)
<1>1. options \in Options /\ WholeFaces(N3 * g) /\ PoleClosed /\ N3 \in Nat /\ N3 * g \in Int
    BY MeshAssumption DEF Fits
<1>2. CASE RowAt(FarSide(j)) = {} /\ Depth(j) + 1 = Levels
    <2>1. FarSide(j) \in 1 .. N2 + 1
        BY <1>1, RowIs, MeshAssumption
    <2>2. F2'[<<b, i, FarSide(j), k>>] = F2[<<b, i, FarSide(j), k>>]
        BY <1>1, <1>2, <2>1, Merged
    <2>3. h = 1
        BY <1>2
    <2>4. 1 \in 1 .. N2
        BY MeshAssumption
    <2>5. Ring2(b, i, FarSide(j))[k] = F2[<<b, i, FarSide(j), k>>] /\ <<b, i, FarSide(j), k>> \in F2s
        BY <2>1, <2>4, RingFaces
    <2>6. F2[<<b, i, FarSide(j), k>>] \in Multiples(N3 * g)
        BY <1>1, <2>5 DEF WholeFaces
    <2>7. F2[<<b, i, FarSide(j), k>>] \in Int /\ F2[<<b, i, FarSide(j), k>>] \in Multiples(g)
        <3>1. N3 \in Int
            BY <1>1
        <3>2. F2[<<b, i, FarSide(j), k>>] \in Multiples(g)
            BY <2>6, <3>1, Finer, Zenon
        <3> QED BY <3>2, MultiplesAdd
    <2>8. Flux2(b, i, FarSide(j), Zones(k, 1)) = F2[<<b, i, FarSide(j), k>>]
        <3>1. k \in Int
            BY <1>1
        <3>2. Flux2(b, i, FarSide(j), Zones(k, 1)) = Total(Ring2(b, i, FarSide(j)), Zones(k, 1))
            BY <3>1, FluxIsTotal
        <3>3. Total(Ring2(b, i, FarSide(j)), Zones(k, 1)) = Ring2(b, i, FarSide(j))[k]
            BY <2>5, <2>7, <3>1, SumOfOne
        <3> QED BY <2>5, <3>2, <3>3
    <2>9. k = IF Fine(j, k) < h THEN Start(j, k) ELSE Start(j, k) + h
        BY <1>1, <2>3, CellIs
    <2>10. F2[<<b, i, FarSide(j), k>>] =
              IF Fine(j, k) < h THEN Left(b, i, j, k, h) ELSE Right(b, i, j, k, h)
        BY <2>3, <2>8, <2>9 DEF Left, Right
    <2> QED BY <2>2, <2>3, <2>7, <2>10
<1>3. ASSUME NEW n \in Rows, Depth(n) = Depth(j) + 1, PoleSide(n) = FarSide(j)
      PROVE  /\ h * F2'[<<b, i, FarSide(j), k>>] =
                   IF Fine(j, k) < h THEN Left(b, i, j, k, h) ELSE Right(b, i, j, k, h)
             /\ F2'[<<b, i, FarSide(j), k>>] \in Multiples(g)
    <2>1. CoarseLen(n) = h
        BY <1>3
    <2>2. Cell(n, k) = IF Fine(j, k) < h THEN Zones(Start(j, k), h) ELSE Zones(Start(j, k) + h, h)
        BY <1>1, <2>1, HalfCells
    <2>3. F2'[<<b, i, FarSide(j), k>>] = AveragedF2(b, i, n, k)
        BY <1>1, <1>3, Merged
    <2>4. /\ h * AveragedF2(b, i, n, k) = Flux2(b, i, FarSide(j), Cell(n, k))
          /\ AveragedF2(b, i, n, k) \in Multiples(g)
        BY <1>1, <1>3, <2>1, MergedF2
    <2> QED BY <2>2, <2>3, <2>4 DEF Left, Right
<1> QED BY <1>1, <1>2, <1>3, RowAtFarSide

\* A ring of zones ends with a coarse cell, and a face that is left alone
LEMMA LastFine ==
    ASSUME options \in Options, NEW j \in Rows
    PROVE  Fine(j, N3 + 1) = 0 /\ Fine(j, 1) = 0
<1>1. PICK h \in Nat \ {0}, c \in Nat \ {0} : CoarseLen(j) = 2 * h /\ N3 = CoarseLen(j) * c
    BY Lengths
<1>2. CoarseLen(j) \in Nat \ {0} /\ 0 \in 0 .. CoarseLen(j) - 1
    BY <1>1
<1>3. PICK len : len = CoarseLen(j)
    OBVIOUS
<1>4. c \in Int /\ 0 \in Int /\ len \in Nat \ {0} /\ 0 \in 0 .. len - 1
    BY <1>2, <1>3
<1>5. (len * c + 0) % len = 0
    BY <1>4, Remainder
<1>6. (len * 0 + 0) % len = 0
    BY <1>4, Remainder
<1>7. (N3 + 1) - 1 = len * c + 0 /\ 1 - 1 = len * 0 + 0
    BY <1>1, <1>3, <1>4
<1> QED BY <1>3, <1>5, <1>6, <1>7 DEF Fine

\* Merging leaves every flux a multiple of what it was a multiple of, divided by N3
LEMMA MergedFluxesWhole ==
    ASSUME DerefinePoles, NEW g \in Int, Fits(g)
    PROVE  TypeOK' /\ WholeFaces(g)'
<1>1. options \in Options /\ WholeFaces(N3 * g) /\ PoleClosed /\ TypeOK /\ N3 \in Int /\ N3 * g \in Int
    BY MeshAssumption DEF Fits
<1>2. /\ \A f \in F1s : F1[f] \in Multiples(g)
      /\ \A f \in F2s : F2[f] \in Multiples(g)
      /\ \A f \in F3s : F3[f] \in Multiples(g)
    BY <1>1, Finer, Zenon DEF WholeFaces
<1>3. \A f \in F1s : F1'[f] \in Multiples(g)
    <2> SUFFICES ASSUME NEW b \in Blocks, NEW i \in 1 .. N1 + 1, NEW j \in 1 .. N2, NEW k \in 1 .. N3
                 PROVE  F1'[<<b, i, j, k>>] \in Multiples(g)
        BY DEF F1s
    <2>1. <<b, i, j, k>> \in F1s
        BY DEF F1s
    <2>2. CASE j \in Rows
        BY <1>1, <2>2, Merged, MergedF1
    <2>3. CASE j \notin Rows
        BY <1>1, <1>2, <2>1, <2>3, Merged
    <2> QED BY <2>2, <2>3
<1>4. \A f \in F2s : F2'[f] \in Multiples(g)
    <2> SUFFICES ASSUME NEW b \in Blocks, NEW i \in 1 .. N1, NEW f \in 1 .. N2 + 1, NEW k \in 1 .. N3
                 PROVE  F2'[<<b, i, f, k>>] \in Multiples(g)
        BY DEF F2s
    <2>1. <<b, i, f, k>> \in F2s
        BY DEF F2s
    <2>2. CASE RowAt(f) = {}
        BY <1>1, <1>2, <2>1, <2>2, Merged
    <2>3. CASE RowAt(f) # {}
        <3>1. PICK j \in Rows : PoleSide(j) = f
            BY <2>3 DEF RowAt
        <3> QED BY <1>1, <3>1, Merged, MergedF2
    <2> QED BY <2>2, <2>3
<1>5. \A f \in F3s : F3'[f] \in Multiples(g)
    <2> SUFFICES ASSUME NEW b \in Blocks, NEW i \in 1 .. N1, NEW j \in 1 .. N2, NEW k \in 1 .. N3 + 1
                 PROVE  F3'[<<b, i, j, k>>] \in Multiples(g)
        BY DEF F3s
    <2>1. <<b, i, j, k>> \in F3s
        BY DEF F3s
    <2>2. CASE j \notin Rows
        BY <1>1, <1>2, <2>1, <2>2, Merged
    <2>3. CASE j \in Rows /\ k \in 1 .. N3
        <3>1. PICK h, c : Halves(j, h, c)
            BY <1>1, <2>3, Lengths DEF Halves
        <3>2. InteriorF3(b, i, j, k) \in Multiples(g)
            BY <1>1, <2>3, <3>1, MergedF3
        <3> QED BY <1>1, <2>3, <3>2, Merged
    <2>4. CASE j \in Rows /\ k = N3 + 1
        <3>1. InteriorF3(b, i, j, N3 + 1) = F3[<<b, i, j, N3 + 1>>]
            BY <1>1, <2>4, LastFine DEF InteriorF3
        <3> QED BY <1>1, <1>2, <2>1, <2>4, <3>1, Merged
    <2> QED BY <2>2, <2>3, <2>4, MeshAssumption
<1>6. F1' \in [F1s -> Int] /\ F2' \in [F2s -> Int] /\ F3' \in [F3s -> Int]
    <2>1. /\ \A f \in F1s : F1'[f] \in Int
          /\ \A f \in F2s : F2'[f] \in Int
          /\ \A f \in F3s : F3'[f] \in Int
        BY <1>3, <1>4, <1>5, MultiplesAdd
    <2> QED BY <2>1 DEF DerefinePoles
<1>7. TypeOK'
    BY <1>1, <1>6 DEF DerefinePoles, TypeOK, Operations, emf
<1> QED BY <1>3, <1>4, <1>5, <1>7 DEF WholeFaces

\* Nothing gets lost in a coarse cell before zones are merged, as in each of its zones
LEMMA CoarseCellBalances ==
    ASSUME NEW g \in Int, Fits(g), DivergenceFree,
           NEW b \in Blocks, NEW i \in 1 .. N1, NEW j \in Rows, NEW k \in 1 .. N3
    PROVE  Flux1(b, i + 1, j, Cell(j, k)) - Flux1(b, i, j, Cell(j, k))
           + Flux2(b, i, j + 1, Cell(j, k)) - Flux2(b, i, j, Cell(j, k))
           + F3[<<b, i, j, Start(j, k) + CoarseLen(j)>>] - F3[<<b, i, j, Start(j, k)>>] = 0
<1> DEFINE S == Start(j, k)
           len == CoarseLen(j)
           u1 == Ring1(b, i, j)
           u2 == Ring1(b, i + 1, j)
           v1 == Ring2(b, i, j)
           v2 == Ring2(b, i, j + 1)
           w == Ring3(b, i, j)
<1>1. /\ options \in Options /\ TypeOK /\ j \in 1 .. N2 /\ j + 1 \in 1 .. N2 + 1 /\ j \in 1 .. N2 + 1
      /\ i \in 1 .. N1 + 1 /\ i + 1 \in 1 .. N1 + 1 /\ N3 \in Nat
    BY RowIs, MeshAssumption DEF Fits
<1>2. /\ len \in Nat \ {0} /\ S \in 1 .. N3 /\ S + len <= N3 + 1 /\ S \in Int
      /\ Cell(j, k) = Zones(S, len)
    BY <1>1, CellIs
<1>3. Zones(S, len) \subseteq 1 .. N3 /\ Zones(S, len + 1) \subseteq 1 .. N3 + 1
    <2> HIDE DEF S, len
    <2> QED BY <1>1, <1>2 DEF Zones
<1>4. ASSUME NEW q \in 1 .. N3 + 1
      PROVE  w[q] = F3[<<b, i, j, q>>] /\ <<b, i, j, q>> \in F3s
    BY <1>1 DEF Ring3, F3s
<1>5. ASSUME NEW x \in Zones(S, len)
      PROVE  /\ u1[x] \in Int /\ u2[x] \in Int /\ v1[x] \in Int /\ v2[x] \in Int
             /\ u2[x] - u1[x] + v2[x] - v1[x] + w[x + 1] - w[x] = 0
    <2>1. x \in 1 .. N3 /\ x \in 1 .. N3 + 1 /\ x + 1 \in 1 .. N3 + 1
        BY <1>1, <1>3
    <2>2. /\ u1[x] = F1[<<b, i, j, x>>] /\ u2[x] = F1[<<b, i + 1, j, x>>]
          /\ <<b, i, j, x>> \in F1s /\ <<b, i + 1, j, x>> \in F1s
        BY <1>1, <2>1, RingFaces
    <2>3. /\ v1[x] = F2[<<b, i, j, x>>] /\ v2[x] = F2[<<b, i, j + 1, x>>]
          /\ <<b, i, j, x>> \in F2s /\ <<b, i, j + 1, x>> \in F2s
        BY <1>1, <2>1, RingFaces
    <2>4. w[x] = F3[<<b, i, j, x>>] /\ w[x + 1] = F3[<<b, i, j, x + 1>>]
        BY <1>4, <2>1
    <2>5. Div(b, i, j, x) = 0
        BY <1>1, <2>1 DEF DivergenceFree
    <2> QED BY <1>1, <2>2, <2>3, <2>4, <2>5 DEF Div, TypeOK
<1>6. \A x \in Zones(S, len + 1) : w[x] \in Int
    BY <1>1, <1>3, <1>4 DEF TypeOK
<1>7. S \in 1 .. N3 + 1 /\ S + len \in 1 .. N3 + 1
    BY <1>1, <1>2
<1>8. w[S] = F3[<<b, i, j, S>>] /\ w[S + len] = F3[<<b, i, j, S + len>>]
    BY <1>4, <1>7
<1>9. /\ Flux1(b, i, j, Zones(S, len)) = Total(u1, Zones(S, len))
      /\ Flux1(b, i + 1, j, Zones(S, len)) = Total(u2, Zones(S, len))
      /\ Flux2(b, i, j, Zones(S, len)) = Total(v1, Zones(S, len))
      /\ Flux2(b, i, j + 1, Zones(S, len)) = Total(v2, Zones(S, len))
    BY <1>2, FluxIsTotal
<1> HIDE DEF S, len, u1, u2, v1, v2, w
<1>10. Total(u2, Zones(S, len)) - Total(u1, Zones(S, len))
       + Total(v2, Zones(S, len)) - Total(v1, Zones(S, len)) + w[S + len] - w[S] = 0
    BY <1>2, <1>5, <1>6, SumBalances
<1> QED BY <1>2, <1>8, <1>9, <1>10 DEF S, len

\* The fluxes of X2 of both halves of a coarse cell are all of it
LEMMA HalvesAdd ==
    ASSUME NEW g \in Int, Fits(g), NEW b \in Blocks, NEW i \in 1 .. N1, NEW f \in 1 .. N2 + 1,
           NEW a \in 1 .. N3, NEW h \in Nat, a + 2 * h <= N3 + 1
    PROVE  Flux2(b, i, f, Zones(a, 2 * h)) =
              Flux2(b, i, f, Zones(a, h)) + Flux2(b, i, f, Zones(a + h, h))
<1>1. /\ a \in Int /\ a + h \in Int /\ h + h = 2 * h /\ 2 * h \in Nat
      /\ Zones(a, h + h) \subseteq 1 .. N3 /\ TypeOK /\ 1 \in 1 .. N2
    BY MeshAssumption DEF Zones, Fits
<1>2. ASSUME NEW x \in Zones(a, h + h)
      PROVE  Ring2(b, i, f)[x] \in Int
    <2>1. x \in 1 .. N3
        BY <1>1
    <2>2. Ring2(b, i, f)[x] = F2[<<b, i, f, x>>] /\ <<b, i, f, x>> \in F2s
        BY <1>1, <2>1, RingFaces
    <2> QED BY <1>1, <2>2 DEF TypeOK
<1>3. Total(Ring2(b, i, f), Zones(a, h + h)) =
         Total(Ring2(b, i, f), Zones(a, h)) + Total(Ring2(b, i, f), Zones(a + h, h))
    BY <1>1, <1>2, SumSplits
<1>4. /\ Flux2(b, i, f, Zones(a, h + h)) = Total(Ring2(b, i, f), Zones(a, h + h))
      /\ Flux2(b, i, f, Zones(a, h)) = Total(Ring2(b, i, f), Zones(a, h))
      /\ Flux2(b, i, f, Zones(a + h, h)) = Total(Ring2(b, i, f), Zones(a + h, h))
    BY <1>1, FluxIsTotal
<1> QED BY <1>1, <1>3, <1>4

\* The merged flux of X3 into a zone, and that out of it, at the next face
LEMMA MergedNextF3 ==
    ASSUME DerefinePoles, NEW g \in Int, Fits(g),
           NEW b \in Blocks, NEW i \in 1 .. N1, NEW j \in Rows, NEW k \in 1 .. N3,
           NEW h, NEW c, Halves(j, h, c)
    PROVE  /\ h * F3'[<<b, i, j, k>>] =
                 Line(h, F3[<<b, i, j, Start(j, k)>>], CenterF3(b, i, j, k),
                      F3[<<b, i, j, Start(j, k) + 2 * h>>], Fine(j, k))
           /\ h * F3'[<<b, i, j, k + 1>>] =
                 Line(h, F3[<<b, i, j, Start(j, k)>>], CenterF3(b, i, j, k),
                      F3[<<b, i, j, Start(j, k) + 2 * h>>], Fine(j, k) + 1)
<1>1. /\ options \in Options /\ WholeFaces(N3 * g) /\ TypeOK /\ N3 * g \in Int
      /\ h \in Nat \ {0} /\ c \in Nat \ {0} /\ CoarseLen(j) = 2 * h
    BY MeshAssumption DEF Fits, Halves
<1>2. /\ Fine(j, k) \in 0 .. 2 * h - 1 /\ Start(j, k) \in 1 .. N3 /\ k = Start(j, k) + Fine(j, k)
      /\ Start(j, k) + 2 * h \in 2 .. N3 + 1 /\ Fine(j, Start(j, k) + 2 * h) = 0
      /\ \A q \in Cell(j, k) : q \in 1 .. N3 /\ Start(j, q) = Start(j, k)
      /\ Cell(j, k) = Zones(Start(j, k), 2 * h)
    BY <1>1, CellIs
<1>3. F3'[<<b, i, j, k>>] = InteriorF3(b, i, j, k)
    BY <1>1, Merged
<1>4. /\ h * InteriorF3(b, i, j, k) =
            Line(h, F3[<<b, i, j, Start(j, k)>>], CenterF3(b, i, j, k),
                 F3[<<b, i, j, Start(j, k) + 2 * h>>], Fine(j, k))
      /\ InteriorF3(b, i, j, k) \in Multiples(g)
    BY <1>1, MergedF3
<1>5. CASE Fine(j, k) + 1 < 2 * h
    <2>1. k + 1 \in Cell(j, k)
        BY <1>1, <1>2, <1>5 DEF Zones
    <2>2. k + 1 \in 1 .. N3 /\ Start(j, k + 1) = Start(j, k)
        BY <1>2, <2>1
    <2>3. Fine(j, k + 1) = Fine(j, k) + 1
        <3>1. k + 1 = Start(j, k + 1) + Fine(j, k + 1) /\ Fine(j, k + 1) \in Int
            BY <1>1, <2>2, CellIs
        <3> QED BY <1>2, <2>2, <3>1
    <2>4. CenterF3(b, i, j, k + 1) = CenterF3(b, i, j, k)
        BY <2>2 DEF CenterF3
    <2>5. F3'[<<b, i, j, k + 1>>] = InteriorF3(b, i, j, k + 1)
        BY <1>1, <2>2, Merged
    <2>6. /\ h * InteriorF3(b, i, j, k + 1) =
                Line(h, F3[<<b, i, j, Start(j, k + 1)>>], CenterF3(b, i, j, k + 1),
                     F3[<<b, i, j, Start(j, k + 1) + 2 * h>>], Fine(j, k + 1))
          /\ InteriorF3(b, i, j, k + 1) \in Multiples(g)
        BY <1>1, <2>2, MergedF3
    <2>7. h * InteriorF3(b, i, j, k + 1) =
             Line(h, F3[<<b, i, j, Start(j, k)>>], CenterF3(b, i, j, k),
                  F3[<<b, i, j, Start(j, k) + 2 * h>>], Fine(j, k) + 1)
        BY <2>2, <2>3, <2>4, <2>6, Zenon
    <2> QED BY <1>3, <1>4, <2>5, <2>7, Zenon
<1>6. CASE Fine(j, k) + 1 = 2 * h
    <2>1. k + 1 = Start(j, k) + 2 * h /\ k + 1 \in 2 .. N3 + 1
        BY <1>2, <1>6
    <2>2. Fine(j, k + 1) = 0
        BY <1>2, <2>1
    <2>3. InteriorF3(b, i, j, k + 1) = F3[<<b, i, j, k + 1>>]
        BY <2>2 DEF InteriorF3
    <2>4. F3'[<<b, i, j, k + 1>>] = InteriorF3(b, i, j, k + 1)
        <3>1. k + 1 \in 1 .. N3 \/ k + 1 = N3 + 1
            BY <2>1, MeshAssumption
        <3> QED BY <1>1, <3>1, Merged
    <2>5. F3'[<<b, i, j, k + 1>>] = F3[<<b, i, j, Start(j, k) + 2 * h>>]
        BY <2>1, <2>3, <2>4
    <2>6. ASSUME NEW s \in Int, NEW m \in Int, NEW e \in Int
          PROVE  Line(h, s, m, e, 2 * h) = h * e
        BY <1>1 DEF Line
    <2>7. /\ F3[<<b, i, j, Start(j, k)>>] \in Int /\ F3[<<b, i, j, Start(j, k) + 2 * h>>] \in Int
          /\ CenterF3(b, i, j, k) \in Int
        <3>1. F3[<<b, i, j, Start(j, k)>>] \in Int /\ F3[<<b, i, j, Start(j, k) + 2 * h>>] \in Int
            BY <1>1, Ends DEF TypeOK
        <3>2. CenterF3(b, i, j, k) \in Multiples(h * (c * g))
            BY <1>1, MergedCenter
        <3>3. h * (c * g) \in Int
            BY <1>1
        <3> QED BY <3>1, <3>2, <3>3, MultiplesAdd
    <2>8. Line(h, F3[<<b, i, j, Start(j, k)>>], CenterF3(b, i, j, k),
               F3[<<b, i, j, Start(j, k) + 2 * h>>], 2 * h)
             = h * F3[<<b, i, j, Start(j, k) + 2 * h>>]
        BY <2>6, <2>7
    <2> QED BY <1>3, <1>4, <1>6, <2>5, <2>8
<1> QED BY <1>1, <1>2, <1>5, <1>6

\* What a coarse cell is filled with has no net flux out of any of its zones
LEMMA MergedZone ==
    ASSUME DerefinePoles, NEW g \in Int, Fits(g), DivergenceFree,
           NEW b \in Blocks, NEW i \in 1 .. N1, NEW j \in Rows, NEW k \in 1 .. N3
    PROVE  Div(b, i, j, k)' = 0
<1>0. PICK h, c :
         /\ Halves(j, h, c)
         /\ Depth(j) + 1 = Levels => h = 1
         /\ \A n \in Rows : Depth(n) = Depth(j) + 1 => CoarseLen(n) = h
    BY Lengths DEF Halves, Fits
<1>1. h \in Nat \ {0} /\ c \in Nat \ {0} /\ CoarseLen(j) = 2 * h
    BY <1>0 DEF Halves
<1> DEFINE S == Start(j, k)
           x == Fine(j, k)
           s == F3[<<b, i, j, S>>]
           e == F3[<<b, i, j, S + 2 * h>>]
           center == CenterF3(b, i, j, k)
           l == Left(b, i, j, k, h)
           r == Right(b, i, j, k, h)
           pole == Flux2(b, i, PoleSide(j), Cell(j, k))
           far == Flux2(b, i, FarSide(j), Cell(j, k))
           a1 == Flux1(b, i, j, Cell(j, k))
           a2 == Flux1(b, i + 1, j, Cell(j, k))
           f1 == F1'[<<b, i, j, k>>]
           f2 == F1'[<<b, i + 1, j, k>>]
           fp == F2'[<<b, i, PoleSide(j), k>>]
           ff == F2'[<<b, i, FarSide(j), k>>]
           w1 == F3'[<<b, i, j, k>>]
           w2 == F3'[<<b, i, j, k + 1>>]
           p == PointOut(j)
<1>2. /\ options \in Options /\ WholeFaces(N3 * g) /\ TypeOK /\ PoleClosed /\ N3 * g \in Int
      /\ i \in 1 .. N1 + 1 /\ i + 1 \in 1 .. N1 + 1 /\ N3 \in Nat /\ N1 \in Nat
    BY MeshAssumption DEF Fits
<1>3. /\ x \in 0 .. 2 * h - 1 /\ S \in 1 .. N3 /\ S + 2 * h <= N3 + 1
      /\ Cell(j, k) = Zones(S, 2 * h)
    BY <1>1, <1>2, CellIs
<1>4. /\ j \in 1 .. N2 /\ FarSide(j) \in 1 .. N2 + 1 /\ PoleSide(j) \in 1 .. N2 + 1
      /\ \/ p = 1 /\ PoleSide(j) = j /\ FarSide(j) = j + 1
         \/ p = -1 /\ PoleSide(j) = j + 1 /\ FarSide(j) = j
    BY <1>2, RowIs, MeshAssumption DEF PointOut
<1>5. s \in Int /\ e \in Int
    <2>1. <<b, i, j, S>> \in F3s /\ <<b, i, j, S + 2 * h>> \in F3s
        BY <1>1, <1>2, <1>3, <1>4 DEF F3s
    <2> QED BY <1>2, <2>1 DEF TypeOK
<1>6. l \in Int /\ r \in Int /\ center \in Int /\ 2 * center = s + e + p * (r - l)
    <2>1. /\ l \in Int /\ r \in Int
          /\ CenterF3(b, i, j, k) \in Multiples(h * (c * g))
          /\ 2 * center = s + e + p * (r - l)
        BY <1>0, MergedCenter
    <2>2. h * (c * g) \in Int
        BY <1>1
    <2>3. center \in Int
        BY <2>1, <2>2, MultiplesAdd
    <2> QED BY <2>1, <2>3
<1>7. far = l + r
    BY <1>1, <1>3, <1>4, HalvesAdd DEF Left, Right
<1>8. a1 \in Int /\ a2 \in Int /\ (2 * h) * f1 = a1 /\ (2 * h) * f2 = a2
    <2>1. /\ a1 \in Multiples(N3 * g) /\ CoarseLen(j) * AveragedF1(b, i, j, k) = a1
          /\ AveragedF1(b, i, j, k) \in Multiples(g)
        BY <1>2, MergedF1
    <2>2. /\ a2 \in Multiples(N3 * g) /\ CoarseLen(j) * AveragedF1(b, i + 1, j, k) = a2
          /\ AveragedF1(b, i + 1, j, k) \in Multiples(g)
        BY <1>2, MergedF1
    <2>3. f1 = AveragedF1(b, i, j, k) /\ f2 = AveragedF1(b, i + 1, j, k)
        BY <1>2, Merged
    <2>4. a1 \in Int /\ a2 \in Int
        BY <1>2, <2>1, <2>2, MultiplesAdd
    <2> QED BY <1>1, <2>1, <2>2, <2>3, <2>4
<1>9. pole \in Int /\ (2 * h) * fp = pole
    <2>1. /\ CoarseLen(j) * AveragedF2(b, i, j, k) = pole
          /\ AveragedF2(b, i, j, k) \in Multiples(g)
        BY <1>2, MergedF2
    <2>2. fp = AveragedF2(b, i, j, k)
        BY <1>2, Merged
    <2>3. AveragedF2(b, i, j, k) \in Int
        BY <2>1, MultiplesAdd
    <2>4. CoarseLen(j) * AveragedF2(b, i, j, k) \in Int
        BY <1>1, <2>3
    <2> QED BY <1>1, <2>1, <2>2, <2>4
<1>10. h * ff = IF x < h THEN l ELSE r
    BY <1>0, <1>1, MergedFarSide
<1>11. /\ h * w1 = Line(h, s, center, e, x)
       /\ h * w2 = Line(h, s, center, e, x + 1)
    BY <1>0, MergedNextF3
<1>12. a2 - a1 + p * (l + r - pole) + e - s = 0
    <2>1. a2 - a1 + Flux2(b, i, j + 1, Cell(j, k)) - Flux2(b, i, j, Cell(j, k)) + e - s = 0
        BY <1>1, CoarseCellBalances
    <2>2. CASE p = 1 /\ PoleSide(j) = j /\ FarSide(j) = j + 1
        <3>1. a2 - a1 + (l + r) - pole + e - s = 0
            BY <1>7, <2>1, <2>2
        <3> HIDE DEF a1, a2, l, r, pole, e, s, p
        <3> QED BY <1>5, <1>6, <1>8, <1>9, <2>2, <3>1
    <2>3. CASE p = -1 /\ PoleSide(j) = j + 1 /\ FarSide(j) = j
        <3>1. a2 - a1 + pole - (l + r) + e - s = 0
            BY <1>7, <2>1, <2>3
        <3> HIDE DEF a1, a2, l, r, pole, e, s, p
        <3> QED BY <1>5, <1>6, <1>8, <1>9, <2>3, <3>1
    <2> QED BY <1>4, <2>2, <2>3
<1>13. f1 \in Int /\ f2 \in Int /\ fp \in Int /\ ff \in Int /\ w1 \in Int /\ w2 \in Int
    <2>1. /\ <<b, i, j, k>> \in F1s /\ <<b, i + 1, j, k>> \in F1s
          /\ <<b, i, PoleSide(j), k>> \in F2s /\ <<b, i, FarSide(j), k>> \in F2s
          /\ <<b, i, j, k>> \in F3s /\ <<b, i, j, k + 1>> \in F3s
        BY <1>2, <1>4 DEF F1s, F2s, F3s
    <2>2. TypeOK'
        BY MergedFluxesWhole
    <2> QED BY <2>1, <2>2 DEF TypeOK
<1>14. Div(b, i, j, k)' = f2 - f1 + F2'[<<b, i, j + 1, k>>] - F2'[<<b, i, j, k>>] + w2 - w1
    BY DEF Div
<1>15. Div(b, i, j, k)' = f2 - f1 + p * (ff - fp) + w2 - w1
    <2>1. CASE p = 1 /\ PoleSide(j) = j /\ FarSide(j) = j + 1
        <3>1. Div(b, i, j, k)' = f2 - f1 + ff - fp + w2 - w1
            BY <1>14, <2>1
        <3> HIDE DEF f1, f2, fp, ff, w1, w2, p
        <3> QED BY <1>13, <2>1, <3>1
    <2>2. CASE p = -1 /\ PoleSide(j) = j + 1 /\ FarSide(j) = j
        <3>1. Div(b, i, j, k)' = f2 - f1 + fp - ff + w2 - w1
            BY <1>14, <2>2
        <3> HIDE DEF f1, f2, fp, ff, w1, w2, p
        <3> QED BY <1>13, <2>2, <3>1
    <2> QED BY <1>4, <2>1, <2>2
<1>16. p \in {1, -1} /\ h \in Nat \ {0}
    BY <1>1, <1>4
<1> HIDE DEF S, x, s, e, center, l, r, pole, far, a1, a2, f1, f2, fp, ff, w1, w2, p
<1>17. h * (w2 - w1) = IF x < h THEN center - s ELSE e - center
    <2>1. CASE x < h
        <3>1. h * w1 = (h - x) * s + x * center /\ h * w2 = (h - (x + 1)) * s + (x + 1) * center
            BY <1>3, <1>11, <1>16, <2>1 DEF Line
        <3> QED BY <1>3, <1>5, <1>6, <1>13, <1>16, <2>1, <3>1
    <2>2. CASE x = h
        <3>1. h * w1 = (h - x) * s + x * center
              /\ h * w2 = (x + 1 - h) * e + (2 * h - (x + 1)) * center
            BY <1>3, <1>11, <1>16, <2>2 DEF Line
        <3> QED BY <1>3, <1>5, <1>6, <1>13, <1>16, <2>2, <3>1
    <2>3. CASE x > h
        <3>1. h * w1 = (x - h) * e + (2 * h - x) * center
              /\ h * w2 = (x + 1 - h) * e + (2 * h - (x + 1)) * center
            BY <1>3, <1>11, <1>16, <2>3 DEF Line
        <3> QED BY <1>3, <1>5, <1>6, <1>13, <1>16, <2>3, <3>1
    <2> QED BY <1>3, <1>16, <2>1, <2>2, <2>3
<1> DEFINE out == f2 - f1 + p * (ff - fp) + w2 - w1
<1>18. (2 * h) * out = a2 - a1 + p * (2 * (h * ff) - pole) + 2 * (h * (w2 - w1))
    <2>1. CASE p = 1
        BY <1>8, <1>9, <1>13, <1>16, <2>1
    <2>2. CASE p = -1
        BY <1>8, <1>9, <1>13, <1>16, <2>2
    <2> QED BY <1>16, <2>1, <2>2
<1>19. (2 * h) * out = 0
    <2>1. CASE p = 1
        BY <1>3, <1>5, <1>6, <1>8, <1>9, <1>10, <1>12, <1>16, <1>17, <1>18, <2>1
    <2>2. CASE p = -1
        BY <1>3, <1>5, <1>6, <1>8, <1>9, <1>10, <1>12, <1>16, <1>17, <1>18, <2>2
    <2> QED BY <1>16, <2>1, <2>2
<1>20. out \in Int
    BY <1>13, <1>16
<1> HIDE DEF out
<1>21. out = 0
    BY <1>16, <1>19, <1>20
<1> QED BY <1>15, <1>21 DEF out

\* Merging leaves no net flux out of any zone, merged or not
LEMMA MergingBalances ==
    ASSUME DerefinePoles, NEW g \in Int, Fits(g), DivergenceFree
    PROVE  DivergenceFree'
<1> SUFFICES ASSUME NEW b \in Blocks, NEW i \in 1 .. N1, NEW j \in 1 .. N2, NEW k \in 1 .. N3
             PROVE  Div(b, i, j, k)' = 0
    BY DEF DivergenceFree
<1>1. CASE j \in Rows
    BY <1>1, MergedZone
<1>2. CASE j \notin Rows
    <2>1. options \in Options
        BY DEF Fits
    <2>2. RowAt(j) = {} /\ RowAt(j + 1) = {}
        BY <1>2, <2>1, RowsApart
    <2>3. /\ i \in 1 .. N1 + 1 /\ i + 1 \in 1 .. N1 + 1 /\ j \in 1 .. N2 + 1 /\ j + 1 \in 1 .. N2 + 1
          /\ k \in 1 .. N3 + 1 /\ k + 1 \in 1 .. N3 + 1
        BY MeshAssumption
    <2>4. F1'[<<b, i, j, k>>] = F1[<<b, i, j, k>>] /\ F1'[<<b, i + 1, j, k>>] = F1[<<b, i + 1, j, k>>]
        BY <1>2, <2>1, <2>3, Merged
    <2>5. F2'[<<b, i, j, k>>] = F2[<<b, i, j, k>>] /\ F2'[<<b, i, j + 1, k>>] = F2[<<b, i, j + 1, k>>]
        BY <2>1, <2>2, <2>3, Merged
    <2>6. F3'[<<b, i, j, k>>] = F3[<<b, i, j, k>>] /\ F3'[<<b, i, j, k + 1>>] = F3[<<b, i, j, k + 1>>]
        BY <1>2, <2>1, <2>3, Merged
    <2>7. Div(b, i, j, k) = 0
        BY DEF DivergenceFree
    <2> QED BY <2>4, <2>5, <2>6, <2>7 DEF Div
<1> QED BY <1>1, <1>2

\* Merging puts no flux through a pole
LEMMA MergingClosesPoles ==
    ASSUME DerefinePoles, NEW g \in Int, Fits(g)
    PROVE  PoleClosed'
<1> SUFFICES ASSUME NEW b \in Blocks, NEW i \in 1 .. N1, NEW f \in PoleFaces, NEW k \in 1 .. N3
             PROVE  F2'[<<b, i, f, k>>] = 0
    BY DEF PoleClosed
<1>1. options \in Options /\ WholeFaces(N3 * g) /\ PoleClosed /\ f \in 1 .. N2 + 1
    BY MeshAssumption DEF Fits, PoleFaces
<1>2. CASE RowAt(f) = {}
    <2>1. F2'[<<b, i, f, k>>] = F2[<<b, i, f, k>>]
        BY <1>1, <1>2, Merged
    <2> QED BY <1>1, <2>1 DEF PoleClosed
<1>3. CASE RowAt(f) # {}
    <2>1. PICK j \in Rows : PoleSide(j) = f
        BY <1>3 DEF RowAt
    <2>2. F2'[<<b, i, f, k>>] = AveragedF2(b, i, j, k)
        BY <1>1, <2>1, Merged
    <2>3. AveragedF2(b, i, j, k) = 0 /\ AveragedF2(b, i, j, k) \in Multiples(g)
        BY <1>1, <2>1, MergedF2
    <2> QED BY <2>2, <2>3
<1> QED BY <1>2, <1>3

\* Merging leaves the faces on block boundaries alone
LEMMA MergingKeepsSharedFaces ==
    ASSUME DerefinePoles, options \in Options, SharedFacesAgree
    PROVE  SharedFacesAgree'
<1> SUFFICES ASSUME NEW b \in Blocks, NEW i \in 1 .. N1, NEW j \in 1 .. N2
             PROVE  F3'[<<b, i, j, N3 + 1>>] = F3'[<<Next3(b), i, j, 1>>]
    BY DEF SharedFacesAgree
<1>1. Next3(b) \in Blocks /\ 1 \in 1 .. N3 /\ 1 \in 1 .. N3 + 1 /\ N3 + 1 \in 1 .. N3 + 1
    BY NextBlock, MeshAssumption
<1>2. F3'[<<b, i, j, N3 + 1>>] = F3[<<b, i, j, N3 + 1>>]
    <2>1. CASE j \in Rows
        <3>1. F3'[<<b, i, j, N3 + 1>>] = InteriorF3(b, i, j, N3 + 1)
            BY <2>1, Merged
        <3>2. InteriorF3(b, i, j, N3 + 1) = F3[<<b, i, j, N3 + 1>>]
            BY <2>1, LastFine DEF InteriorF3
        <3> QED BY <3>1, <3>2
    <2>2. CASE j \notin Rows
        BY <1>1, <2>2, Merged
    <2> QED BY <2>1, <2>2
<1>3. F3'[<<Next3(b), i, j, 1>>] = F3[<<Next3(b), i, j, 1>>]
    <2>1. CASE j \in Rows
        <3>1. F3'[<<Next3(b), i, j, 1>>] = InteriorF3(Next3(b), i, j, 1)
            BY <1>1, <2>1, Merged
        <3>2. InteriorF3(Next3(b), i, j, 1) = F3[<<Next3(b), i, j, 1>>]
            BY <2>1, LastFine DEF InteriorF3
        <3> QED BY <3>1, <3>2
    <2>2. CASE j \notin Rows
        BY <1>1, <2>2, Merged
    <2> QED BY <2>1, <2>2
<1> QED BY <1>2, <1>3 DEF SharedFacesAgree

-----------------------------------------------------------------------------
(* What goes through the faces of coarse cells is the same after merging.    *)

\* Sums of fluxes that are spread out evenly, over a coarse cell or its halves
LEMMA SpreadOut ==
    ASSUME NEW f, NEW a \in Int, NEW h \in Nat, NEW c1 \in Int, NEW c2 \in Int,
           DOMAIN f = Zones(a, 2 * h),
           \A q \in Zones(a, h) : f[q] = c1,
           \A q \in Zones(a + h, h) : f[q] = c2
    PROVE  SumFunction(f) = h * c1 + h * c2
<1>1. /\ Zones(a, 2 * h) = Zones(a, h + h) /\ a + h \in Int
      /\ \A q \in Zones(a, h + h) : q \in Zones(a, h) \/ q \in Zones(a + h, h)
    BY DEF Zones
<1>2. SumFunction(f) = Total(f, Zones(a, h + h))
    BY <1>1 DEF SumFunction, Total
<1>3. \A q \in Zones(a, h + h) : f[q] \in Int
    BY <1>1
<1>4. Total(f, Zones(a, h + h)) = Total(f, Zones(a, h)) + Total(f, Zones(a + h, h))
    BY <1>3, SumSplits
<1>5. Total(f, Zones(a, h)) = h * c1
    BY SumConstant
<1>6. Total(f, Zones(a + h, h)) = h * c2
    BY <1>1, SumConstant
<1> QED BY <1>2, <1>4, <1>5, <1>6

\* Merging moves no flux between coarse cells
LEMMA MergingKeepsFluxes ==
    ASSUME DerefinePoles, NEW g \in Int, Fits(g),
           NEW b \in Blocks, NEW j \in Rows, NEW k \in 1 .. N3
    PROVE  /\ \A i \in 1 .. N1 + 1 : Flux1(b, i, j, Cell(j, k))' = Flux1(b, i, j, Cell(j, k))
           /\ \A i \in 1 .. N1, f \in {j, j + 1} :
                 Flux2(b, i, f, Cell(j, k))' = Flux2(b, i, f, Cell(j, k))
           /\ \A i \in 1 .. N1 : F3'[<<b, i, j, Start(j, k)>>] = F3[<<b, i, j, Start(j, k)>>]
<1>0. PICK h, c :
         /\ Halves(j, h, c)
         /\ Depth(j) + 1 = Levels => h = 1
         /\ \A n \in Rows : Depth(n) = Depth(j) + 1 => CoarseLen(n) = h
    BY Lengths DEF Halves, Fits
<1>1. h \in Nat \ {0} /\ c \in Nat \ {0} /\ CoarseLen(j) = 2 * h
    BY <1>0 DEF Halves
<1>2. options \in Options /\ WholeFaces(N3 * g) /\ TypeOK /\ PoleClosed /\ N3 * g \in Int
    BY MeshAssumption DEF Fits
<1> DEFINE S == Start(j, k)
<1>3. /\ S \in 1 .. N3 /\ S + 2 * h <= N3 + 1 /\ S \in Int /\ S + h \in Int
      /\ Cell(j, k) = Zones(S, 2 * h) /\ Fine(j, S) = 0
      /\ \A q \in Cell(j, k) : q \in 1 .. N3 /\ Start(j, q) = S /\ Cell(j, q) = Cell(j, k)
                               /\ q = S + Fine(j, q) /\ Fine(j, q) \in Int
    <2>1. /\ S \in 1 .. N3 /\ S + 2 * h <= N3 + 1 /\ S \in Int /\ S + h \in Int
          /\ Cell(j, k) = Zones(S, 2 * h)
          /\ \A q \in Cell(j, k) : q \in 1 .. N3 /\ Start(j, q) = S /\ Cell(j, q) = Cell(j, k)
        BY <1>1, <1>2, CellIs
    <2>2. \A q \in 1 .. N3 : q = Start(j, q) + Fine(j, q) /\ Fine(j, q) \in Int /\ Start(j, q) \in Int
        BY <1>1, <1>2, CellIs
    <2>3. S \in Cell(j, k)
        <3> HIDE DEF S
        <3> QED BY <1>1, <2>1 DEF Zones
    <2>4. Fine(j, S) = 0
        <3> HIDE DEF S
        <3> QED BY <2>1, <2>2, <2>3
    <2> QED BY <2>1, <2>2, <2>4
<1>4. /\ \A i, f : Flux1(b, i, f, Cell(j, k))' = SumFunction([q \in Cell(j, k) |-> F1'[<<b, i, f, q>>]])
      /\ \A i, f : Flux2(b, i, f, Cell(j, k))' = SumFunction([q \in Cell(j, k) |-> F2'[<<b, i, f, q>>]])
    <2>1. Cell(j, k)' = Cell(j, k)
        BY DEF DerefinePoles, Cell, Start, Fine, CoarseLen, Levels
    <2> QED BY <2>1 DEF Flux1, Flux2
<1>5. (\A q \in Zones(S, h) : q \in Cell(j, k)) /\ (\A q \in Zones(S + h, h) : q \in Cell(j, k))
    <2> HIDE DEF S
    <2> QED BY <1>1, <1>3 DEF Zones
<1>6. ASSUME NEW i \in 1 .. N1 + 1
      PROVE  Flux1(b, i, j, Cell(j, k))' = Flux1(b, i, j, Cell(j, k))
    <2>1. PICK a : a = AveragedF1(b, i, j, k)
        OBVIOUS
    <2>2. /\ CoarseLen(j) * AveragedF1(b, i, j, k) = Flux1(b, i, j, Cell(j, k))
          /\ AveragedF1(b, i, j, k) \in Multiples(g)
          /\ \A q \in Cell(j, k) : AveragedF1(b, i, j, q) = AveragedF1(b, i, j, k)
        BY <1>2, MergedF1
    <2>3. a \in Int
        BY <2>1, <2>2, MultiplesAdd
    <2>4. \A q \in Cell(j, k) : F1'[<<b, i, j, q>>] = a
        BY <1>2, <1>3, <2>1, <2>2, Merged
    <2>5. SumFunction([q \in Zones(S, 2 * h) |-> F1'[<<b, i, j, q>>]]) = h * a + h * a
        <3> DEFINE fn == [q \in Zones(S, 2 * h) |-> F1'[<<b, i, j, q>>]]
        <3>1. /\ DOMAIN fn = Zones(S, 2 * h)
              /\ \A q \in Zones(S, h) : fn[q] = a
              /\ \A q \in Zones(S + h, h) : fn[q] = a
            BY <1>3, <1>5, <2>4
        <3> HIDE DEF S, fn
        <3>2. SumFunction(fn) = h * a + h * a
            BY <1>1, <1>3, <2>3, <3>1, SpreadOut
        <3> QED BY <3>2 DEF fn
    <2> QED BY <1>1, <1>3, <1>4, <2>1, <2>2, <2>3, <2>5
<1>7. ASSUME NEW i \in 1 .. N1
      PROVE  Flux2(b, i, PoleSide(j), Cell(j, k))' = Flux2(b, i, PoleSide(j), Cell(j, k))
    <2>1. PICK a : a = AveragedF2(b, i, j, k)
        OBVIOUS
    <2>2. /\ CoarseLen(j) * AveragedF2(b, i, j, k) = Flux2(b, i, PoleSide(j), Cell(j, k))
          /\ AveragedF2(b, i, j, k) \in Multiples(g)
          /\ \A q \in Cell(j, k) : AveragedF2(b, i, j, q) = AveragedF2(b, i, j, k)
        BY <1>2, MergedF2
    <2>3. a \in Int
        BY <2>1, <2>2, MultiplesAdd
    <2>4. \A q \in Cell(j, k) : F2'[<<b, i, PoleSide(j), q>>] = a
        BY <1>2, <1>3, <2>1, <2>2, Merged
    <2>5. SumFunction([q \in Zones(S, 2 * h) |-> F2'[<<b, i, PoleSide(j), q>>]]) = h * a + h * a
        <3> DEFINE fn == [q \in Zones(S, 2 * h) |-> F2'[<<b, i, PoleSide(j), q>>]]
        <3>1. /\ DOMAIN fn = Zones(S, 2 * h)
              /\ \A q \in Zones(S, h) : fn[q] = a
              /\ \A q \in Zones(S + h, h) : fn[q] = a
            BY <1>3, <1>5, <2>4
        <3> HIDE DEF S, fn
        <3>2. SumFunction(fn) = h * a + h * a
            BY <1>1, <1>3, <2>3, <3>1, SpreadOut
        <3> QED BY <3>2 DEF fn
    <2> QED BY <1>1, <1>3, <1>4, <2>1, <2>2, <2>3, <2>5
<1>8. ASSUME NEW i \in 1 .. N1
      PROVE  Flux2(b, i, FarSide(j), Cell(j, k))' = Flux2(b, i, FarSide(j), Cell(j, k))
    <2> DEFINE f == FarSide(j)
    <2>1. f \in 1 .. N2 + 1
        BY <1>2, RowIs, MeshAssumption
    <2>2. ASSUME NEW q \in Cell(j, k)
          PROVE  /\ h * F2'[<<b, i, f, q>>] =
                       IF Fine(j, q) < h THEN Left(b, i, j, k, h) ELSE Right(b, i, j, k, h)
                 /\ F2'[<<b, i, f, q>>] \in Int
        <3>1. q \in 1 .. N3 /\ Start(j, q) = Start(j, k)
            BY <1>3
        <3>2. /\ h * F2'[<<b, i, f, q>>] =
                    IF Fine(j, q) < h THEN Left(b, i, j, q, h) ELSE Right(b, i, j, q, h)
              /\ F2'[<<b, i, f, q>>] \in Multiples(g)
            BY <1>0, <1>1, <3>1, MergedFarSide
        <3>3. F2'[<<b, i, f, q>>] \in Int
            BY <3>2, MultiplesAdd
        <3> QED BY <3>1, <3>2, <3>3 DEF Left, Right
    <2>3. PICK c1 : c1 = F2'[<<b, i, f, S>>]
        OBVIOUS
    <2>4. PICK c2 : c2 = F2'[<<b, i, f, S + h>>]
        OBVIOUS
    <2>5. S \in Cell(j, k) /\ S + h \in Cell(j, k) /\ Fine(j, S) = 0 /\ Fine(j, S + h) = h
        <3> HIDE DEF S
        <3>1. S \in Cell(j, k) /\ S + h \in Cell(j, k)
            BY <1>1, <1>3 DEF Zones
        <3> QED BY <1>1, <1>3, <3>1
    <2>6. c1 \in Int /\ c2 \in Int /\ h * c1 = Left(b, i, j, k, h) /\ h * c2 = Right(b, i, j, k, h)
        BY <1>1, <2>2, <2>3, <2>4, <2>5
    <2>7. \A q \in Zones(S, h) : F2'[<<b, i, f, q>>] = c1
        <3> SUFFICES ASSUME NEW q \in Zones(S, h) PROVE F2'[<<b, i, f, q>>] = c1
            OBVIOUS
        <3>1. Fine(j, q) < h
            <4> HIDE DEF S
            <4> QED BY <1>1, <1>3, <1>5 DEF Zones
        <3>2. PICK x : x = F2'[<<b, i, f, q>>]
            OBVIOUS
        <3>3. h * x = h * c1 /\ x \in Int
            BY <1>5, <2>2, <2>6, <3>1, <3>2
        <3>4. x = c1
            BY <1>1, <2>6, <3>3
        <3> QED BY <3>2, <3>4
    <2>8. \A q \in Zones(S + h, h) : F2'[<<b, i, f, q>>] = c2
        <3> SUFFICES ASSUME NEW q \in Zones(S + h, h) PROVE F2'[<<b, i, f, q>>] = c2
            OBVIOUS
        <3>1. ~(Fine(j, q) < h)
            <4> HIDE DEF S
            <4> QED BY <1>1, <1>3, <1>5 DEF Zones
        <3>2. PICK x : x = F2'[<<b, i, f, q>>]
            OBVIOUS
        <3>3. h * x = h * c2 /\ x \in Int
            BY <1>5, <2>2, <2>6, <3>1, <3>2
        <3>4. x = c2
            BY <1>1, <2>6, <3>3
        <3> QED BY <3>2, <3>4
    <2>9. SumFunction([q \in Zones(S, 2 * h) |-> F2'[<<b, i, f, q>>]]) = h * c1 + h * c2
        <3> DEFINE fn == [q \in Zones(S, 2 * h) |-> F2'[<<b, i, f, q>>]]
        <3>1. /\ DOMAIN fn = Zones(S, 2 * h)
              /\ \A q \in Zones(S, h) : fn[q] = c1
              /\ \A q \in Zones(S + h, h) : fn[q] = c2
            BY <1>3, <1>5, <2>7, <2>8
        <3> HIDE DEF S, fn
        <3>2. SumFunction(fn) = h * c1 + h * c2
            BY <1>1, <1>3, <2>6, <3>1, SpreadOut
        <3> QED BY <3>2 DEF fn
    <2>10. Flux2(b, i, f, Zones(S, 2 * h)) = Left(b, i, j, k, h) + Right(b, i, j, k, h)
        BY <1>1, <1>3, <2>1, HalvesAdd DEF Left, Right
    <2> QED BY <1>3, <1>4, <2>6, <2>9, <2>10
<1>9. ASSUME NEW i \in 1 .. N1
      PROVE  F3'[<<b, i, j, S>>] = F3[<<b, i, j, S>>]
    <2>1. F3'[<<b, i, j, S>>] = InteriorF3(b, i, j, S)
        BY <1>2, <1>3, Merged
    <2> QED BY <1>3, <2>1 DEF InteriorF3
<1>10. {j, j + 1} = {PoleSide(j), FarSide(j)}
    BY <1>2, RowIs
<1> QED BY <1>6, <1>7, <1>8, <1>9, <1>10

-----------------------------------------------------------------------------
(***************************************************************************)
(* All divisions of a substep are exact.  Fluxes lose a factor N3 of their *)
(* unit to each average around a pole and to the merging of zones, and     *)
(* Grain gives back all three of them with the next substep.               *)
(***************************************************************************)
WholeEMF(g) ==
    /\ \A e \in E1s : E1[e] \in Multiples(g)
    /\ \A e \in E2s : E2[e] \in Multiples(g)
    /\ \A e \in E3s : E3[e] \in Multiples(g)

\* What all fluxes are multiples of, before each operation
Exact ==
    /\ at = "CalculateEMF" => WholeFaces(Grain[steps])
    /\ at \in {"ExchangeEMF", "BoundaryEMF"} =>
          WholeFaces(N3 * (N3 * (N3 * Grain[steps]))) /\ WholeEMF(N3 * (N3 * (N3 * Grain[steps])))
    /\ at = "AddSource" =>
          WholeFaces(N3 * (N3 * (N3 * Grain[steps]))) /\ WholeEMF(N3 * (N3 * Grain[steps]))
    /\ at = "ReconnectB3" => WholeFaces(N3 * (N3 * Grain[steps]))
    /\ at = "DerefinePoles" => WholeFaces(N3 * Grain[steps])

\* Units are positive, and a substep takes three factors N3 of them
LEMMA GrainIs ==
    ASSUME NEW n \in 0 .. MaxSteps
    PROVE  /\ Grain[n] \in Nat \ {0} /\ N3 * Grain[n] \in Int /\ N3 * (N3 * Grain[n]) \in Int
           /\ N3 * (N3 * (N3 * Grain[n])) \in Int
           /\ n < MaxSteps => Grain[n] = N3 * (N3 * (N3 * Grain[n + 1]))
<1>1. n \in Nat /\ MaxSteps \in Nat /\ N3 \in Int /\ Grain[n] \in Nat \ {0}
    BY MeshAssumption, ExactAssumption
<1>2. N3 * Grain[n] \in Int /\ N3 * (N3 * Grain[n]) \in Int /\ N3 * (N3 * (N3 * Grain[n])) \in Int
    BY <1>1
<1>3. ASSUME n < MaxSteps
      PROVE  Grain[n] = N3 * (N3 * (N3 * Grain[n + 1]))
    <2>1. n \in 0 .. MaxSteps - 1 /\ n + 1 \in 0 .. MaxSteps
        BY <1>1, <1>3
    <2>2. PICK next : next = Grain[n + 1]
        OBVIOUS
    <2>3. Grain[n] = N3 * N3 * N3 * next /\ next \in Int
        BY <2>1, <2>2, ExactAssumption
    <2>4. N3 * N3 * N3 * next = N3 * (N3 * (N3 * next))
        BY <1>1, <2>3
    <2> QED BY <2>2, <2>3, <2>4
<1> QED BY <1>1, <1>2, <1>3

\* The unit of the electromotive forces is a multiple of that after any substep
LEMMA GrainsDivide ==
    ASSUME NEW n \in 0 .. MaxSteps
    PROVE  Grain[0] \in Multiples(Grain[n])
<1> DEFINE Good == {q \in 0 .. n : Grain[0] \in Multiples(Grain[q])}
<1>1. n \in Nat /\ MaxSteps \in Nat /\ 0 \in 0 .. MaxSteps /\ N3 \in Int
    BY MeshAssumption
<1>2. 0 \in Good
    <2>1. PICK g \in Int : g = Grain[0]
        BY <1>1, GrainIs
    <2>2. 1 \in Int /\ g * 1 = g
        OBVIOUS
    <2>3. g * 1 \in Multiples(g)
        BY <2>2, MultipleOf, Zenon
    <2> QED BY <1>1, <2>1, <2>2, <2>3
<1>3. ASSUME NEW q \in 0 .. n - 1, q \in Good
      PROVE  q + 1 \in Good
    <2>1. q \in 0 .. MaxSteps /\ q + 1 \in 0 .. MaxSteps /\ q < MaxSteps /\ q + 1 \in 0 .. n
        BY <1>1
    <2>2. PICK g \in Int : g = Grain[q + 1]
        BY <2>1, GrainIs
    <2>3. N3 * g \in Int /\ N3 * (N3 * g) \in Int /\ Grain[q] = N3 * (N3 * (N3 * g))
        BY <2>1, <2>2, GrainIs
    <2>4. Grain[0] \in Multiples(N3 * (N3 * (N3 * g)))
        BY <1>3, <2>3
    <2>5. Grain[0] \in Multiples(N3 * (N3 * g))
        BY <1>1, <2>3, <2>4, Finer, Zenon
    <2>6. Grain[0] \in Multiples(N3 * g)
        BY <1>1, <2>3, <2>5, Finer, Zenon
    <2>7. Grain[0] \in Multiples(g)
        BY <1>1, <2>6, Finer, Zenon
    <2> QED BY <2>1, <2>2, <2>7
<1> HIDE DEF Good
<1>4. n \in Good
    BY <1>1, <1>2, <1>3, Climb
<1> QED BY <1>4 DEF Good

\* What is a multiple of N3 times a number is one of the number
LEMMA WholeFiner ==
    ASSUME NEW g \in Int
    PROVE  /\ WholeFaces(N3 * g) => WholeFaces(g)
           /\ WholeEMF(N3 * g) => WholeEMF(g)
<1>1. N3 \in Int
    BY MeshAssumption
<1>2. \A x \in Multiples(N3 * g) : x \in Multiples(g)
    BY <1>1, Finer, Zenon
<1> QED BY <1>2 DEF WholeFaces, WholeEMF

\* Electromotive forces are given in the unit of the first substep
LEMMA ForcesWhole ==
    ASSUME NEW force \in EMFs, NEW n \in 0 .. MaxSteps
    PROVE  /\ \A e \in E1s : force.E1[e] \in Multiples(Grain[n])
           /\ \A e \in E2s : force.E2[e] \in Multiples(Grain[n])
           /\ \A e \in E3s : force.E3[e] \in Multiples(Grain[n])
<1>1. 0 \in 0 .. MaxSteps
    BY MeshAssumption
<1>2. PICK d \in Nat \ {0} : d = Grain[0]
    BY <1>1, GrainIs
<1>3. PICK g \in Int : g = Grain[n]
    BY GrainIs
<1>4. PICK m \in Int : d = g * m
    <2>1. d \in Multiples(g)
        BY <1>2, <1>3, GrainsDivide
    <2> QED BY <2>1, MultipleIs
<1>5. ASSUME NEW x \in Int, x % d = 0
      PROVE  x \in Multiples(g)
    <2>1. x \in Multiples(d)
        BY <1>2, <1>5, NoRemainder
    <2>2. x \in Multiples(g * m)
        BY <1>4, <2>1
    <2>3. m \in Int /\ g \in Int
        OBVIOUS
    <2> QED BY <2>2, <2>3, Finer, Zenon
<1>6. force \in Forces
    BY EMFsAssumption
<1>7. /\ \A e \in E1s : force.E1[e] \in Int /\ force.E1[e] % d = 0
      /\ \A e \in E2s : force.E2[e] \in Int /\ force.E2[e] % d = 0
      /\ \A e \in E3s : force.E3[e] \in Int /\ force.E3[e] % d = 0
    BY <1>2, <1>6, ExactAssumption DEF Forces
<1> QED BY <1>3, <1>5, <1>7, Zenon

\* Averages around a pole lose one factor N3
LEMMA PoleAverages ==
    ASSUME NEW g \in Int
    PROVE  /\ (\A e \in E1s : E1[e] \in Multiples(N3 * g)) =>
                 \A b \in Blocks, i \in 1 .. N1, j \in 1 .. N2 + 1 : EMF1Sum(b, i, j) \div N3 \in Multiples(g)
           /\ (\A f \in F3s : F3[f] \in Multiples(N3 * g)) =>
                 \A b \in Blocks, i \in 1 .. N1, j \in 1 .. N2 : F3Sum(b, i, j) \div N3 \in Multiples(g)
<1>1. IsFiniteSet(1 .. N3) /\ N3 \in Nat \ {0} /\ N3 * g \in Int
    BY FS_Interval, MeshAssumption
<1>2. ASSUME NEW x \in Multiples(N3 * g)
      PROVE  x \div N3 \in Multiples(g)
    BY <1>1, DividesExactly
<1>3. ASSUME \A e \in E1s : E1[e] \in Multiples(N3 * g),
             NEW b \in Blocks, NEW i \in 1 .. N1, NEW j \in 1 .. N2 + 1
      PROVE  EMF1Sum(b, i, j) \div N3 \in Multiples(g)
    <2> DEFINE f == [k \in 1 .. N3 |-> E1[<<b, i, j, k>>]]
    <2>1. \A k \in 1 .. N3 : f[k] \in Multiples(N3 * g)
        <3>1. \A k \in 1 .. N3 : <<b, i, j, k>> \in E1s
            BY <1>1 DEF E1s
        <3> QED BY <1>3, <3>1
    <2>2. EMF1Sum(b, i, j) = Total(f, 1 .. N3)
        BY DEF EMF1Sum, SumFunction, Total
    <2> HIDE DEF f
    <2>3. Total(f, 1 .. N3) \in Multiples(N3 * g)
        BY <1>1, <2>1, SumMultiple
    <2> QED BY <1>2, <2>2, <2>3
<1>4. ASSUME \A f \in F3s : F3[f] \in Multiples(N3 * g),
             NEW b \in Blocks, NEW i \in 1 .. N1, NEW j \in 1 .. N2
      PROVE  F3Sum(b, i, j) \div N3 \in Multiples(g)
    <2> DEFINE f == [k \in 1 .. N3 |-> F3[<<b, i, j, k>>]]
    <2>1. \A k \in 1 .. N3 : f[k] \in Multiples(N3 * g)
        <3>1. \A k \in 1 .. N3 : <<b, i, j, k>> \in F3s
            BY <1>1 DEF F3s
        <3> QED BY <1>4, <3>1
    <2>2. F3Sum(b, i, j) = Total(f, 1 .. N3)
        BY DEF F3Sum, SumFunction, Total
    <2> HIDE DEF f
    <2>3. Total(f, 1 .. N3) \in Multiples(N3 * g)
        BY <1>1, <2>1, SumMultiple
    <2> QED BY <1>2, <2>2, <2>3
<1> QED BY <1>3, <1>4

\* The circulation around a face is a multiple of what the edges' EMFs are multiples of
LEMMA CirculationsWhole ==
    ASSUME NEW g \in Int, WholeEMF(g)
    PROVE  /\ \A f \in F1s : Circ1(f[1], f[2], f[3], f[4]) \in Multiples(g)
           /\ \A f \in F2s : Circ2(f[1], f[2], f[3], f[4]) \in Multiples(g)
           /\ \A f \in F3s : Circ3(f[1], f[2], f[3], f[4]) \in Multiples(g)
<1>1. ASSUME NEW p \in Multiples(g), NEW q \in Multiples(g), NEW r \in Multiples(g), NEW s \in Multiples(g)
      PROVE  p - q + r - s \in Multiples(g) /\ p - q - r + s \in Multiples(g)
    <2>1. p - q \in Multiples(g)
        BY MultiplesAdd
    <2>2. p - q + r \in Multiples(g) /\ p - q - r \in Multiples(g)
        BY <2>1, MultiplesAdd
    <2> QED BY <2>2, MultiplesAdd
<1>2. ASSUME NEW b \in Blocks, NEW i \in 1 .. N1 + 1, NEW j \in 1 .. N2, NEW k \in 1 .. N3
      PROVE  Circ1(b, i, j, k) \in Multiples(g)
    <2>1. j \in 1 .. N2 + 1 /\ j + 1 \in 1 .. N2 + 1 /\ k \in 1 .. N3 + 1 /\ k + 1 \in 1 .. N3 + 1
        BY MeshAssumption
    <2>2. /\ <<b, i, j, k>> \in E3s /\ <<b, i, j + 1, k>> \in E3s
          /\ <<b, i, j, k>> \in E2s /\ <<b, i, j, k + 1>> \in E2s
        BY <2>1 DEF E2s, E3s
    <2>3. /\ E3[<<b, i, j, k>>] \in Multiples(g) /\ E3[<<b, i, j + 1, k>>] \in Multiples(g)
          /\ E2[<<b, i, j, k>>] \in Multiples(g) /\ E2[<<b, i, j, k + 1>>] \in Multiples(g)
        BY <2>2 DEF WholeEMF
    <2> QED BY <1>1, <2>3 DEF Circ1
<1>3. ASSUME NEW b \in Blocks, NEW i \in 1 .. N1, NEW j \in 1 .. N2 + 1, NEW k \in 1 .. N3
      PROVE  Circ2(b, i, j, k) \in Multiples(g)
    <2>1. i \in 1 .. N1 + 1 /\ i + 1 \in 1 .. N1 + 1 /\ k \in 1 .. N3 + 1 /\ k + 1 \in 1 .. N3 + 1
        BY MeshAssumption
    <2>2. /\ <<b, i, j, k>> \in E3s /\ <<b, i + 1, j, k>> \in E3s
          /\ <<b, i, j, k>> \in E1s /\ <<b, i, j, k + 1>> \in E1s
        BY <2>1 DEF E1s, E3s
    <2>3. /\ E3[<<b, i, j, k>>] \in Multiples(g) /\ E3[<<b, i + 1, j, k>>] \in Multiples(g)
          /\ E1[<<b, i, j, k>>] \in Multiples(g) /\ E1[<<b, i, j, k + 1>>] \in Multiples(g)
        BY <2>2 DEF WholeEMF
    <2> QED BY <1>1, <2>3 DEF Circ2
<1>4. ASSUME NEW b \in Blocks, NEW i \in 1 .. N1, NEW j \in 1 .. N2, NEW k \in 1 .. N3 + 1
      PROVE  Circ3(b, i, j, k) \in Multiples(g)
    <2>1. i \in 1 .. N1 + 1 /\ i + 1 \in 1 .. N1 + 1 /\ j \in 1 .. N2 + 1 /\ j + 1 \in 1 .. N2 + 1
        BY MeshAssumption
    <2>2. /\ <<b, i, j, k>> \in E2s /\ <<b, i + 1, j, k>> \in E2s
          /\ <<b, i, j, k>> \in E1s /\ <<b, i, j + 1, k>> \in E1s
        BY <2>1 DEF E1s, E2s
    <2>3. /\ E2[<<b, i, j, k>>] \in Multiples(g) /\ E2[<<b, i + 1, j, k>>] \in Multiples(g)
          /\ E1[<<b, i, j, k>>] \in Multiples(g) /\ E1[<<b, i, j + 1, k>>] \in Multiples(g)
        BY <2>2 DEF WholeEMF
    <2> QED BY <1>1, <2>3 DEF Circ3
<1> QED BY <1>2, <1>3, <1>4 DEF F1s, F2s, F3s

\* Each operation leaves what the ones after it divide
LEMMA ExactStep ==
    TypeOK /\ Exact /\ [Next]_vars => Exact'
<1> SUFFICES ASSUME TypeOK, Exact, [Next]_vars PROVE Exact'
    OBVIOUS
<1>1. steps \in 0 .. MaxSteps /\ MaxSteps \in Nat /\ N3 \in Nat \ {0}
    BY MeshAssumption DEF TypeOK
<1>2. PICK g \in Int : g = Grain[steps]
    BY <1>1, GrainIs
<1>3. N3 * g \in Int /\ N3 * (N3 * g) \in Int /\ N3 * (N3 * (N3 * g)) \in Int
    BY <1>1, <1>2, GrainIs
<1>4. CASE CalculateEMF
    <2>1. steps < MaxSteps /\ steps' = steps + 1 /\ steps + 1 \in 0 .. MaxSteps /\ at' = "ExchangeEMF"
          /\ F1' = F1 /\ F2' = F2 /\ F3' = F3
        BY <1>1, <1>4 DEF CalculateEMF, faces
    <2>2. g = N3 * (N3 * (N3 * Grain[steps + 1]))
        BY <1>1, <1>2, <2>1, GrainIs
    <2>3. WholeFaces(g)
        BY <1>2, <1>4 DEF CalculateEMF, Exact
    <2>4. WholeFaces(g)'
        BY <2>1, <2>3 DEF WholeFaces
    <2>5. WholeEMF(g)'
        <3>1. PICK force \in EMFs : E1' = force.E1 /\ E2' = force.E2 /\ E3' = force.E3
            BY <1>4 DEF CalculateEMF
        <3>2. /\ \A e \in E1s : force.E1[e] \in Multiples(g)
              /\ \A e \in E2s : force.E2[e] \in Multiples(g)
              /\ \A e \in E3s : force.E3[e] \in Multiples(g)
            BY <1>1, <1>2, ForcesWhole
        <3> QED BY <3>1, <3>2 DEF WholeEMF
    <2> QED BY <2>1, <2>2, <2>4, <2>5 DEF Exact, WholeFaces, WholeEMF
<1>5. CASE ExchangeEMF
    <2> DEFINE u == N3 * (N3 * (N3 * g))
    <2>1. /\ at = "ExchangeEMF" /\ at' = "BoundaryEMF" /\ steps' = steps
          /\ F1' = F1 /\ F2' = F2 /\ F3' = F3 /\ E3' = E3
        BY <1>5 DEF ExchangeEMF, faces
    <2>2. WholeFaces(u) /\ WholeEMF(u)
        BY <1>2, <2>1 DEF Exact
    <2>3. \A e \in E1s : <<Next3(e[1]), e[2], e[3], 1>> \in E1s
        BY NextBlock, MeshAssumption DEF E1s
    <2>4. \A e \in E2s : <<Next3(e[1]), e[2], e[3], 1>> \in E2s
        BY NextBlock, MeshAssumption DEF E2s
    <2> HIDE DEF u
    <2>5. \A e \in E1s : E1'[e] \in Multiples(u)
        BY <1>5, <2>2, <2>3 DEF ExchangeEMF, WholeEMF
    <2>6. \A e \in E2s : E2'[e] \in Multiples(u)
        BY <1>5, <2>2, <2>4 DEF ExchangeEMF, WholeEMF
    <2>7. WholeFaces(u)' /\ WholeEMF(u)'
        BY <2>1, <2>2, <2>5, <2>6 DEF WholeFaces, WholeEMF, u
    <2> QED BY <1>2, <2>1, <2>7 DEF Exact, WholeFaces, WholeEMF, u
<1>6. CASE BoundaryEMF
    <2> DEFINE u == N3 * (N3 * g)
    <2>1. /\ at = "BoundaryEMF" /\ at' = "AddSource" /\ steps' = steps
          /\ F1' = F1 /\ F2' = F2 /\ F3' = F3 /\ E2' = E2
        BY <1>6 DEF BoundaryEMF, faces
    <2>2. WholeFaces(N3 * u) /\ WholeEMF(N3 * u)
        BY <1>2, <2>1 DEF Exact
    <2>3. u \in Int
        BY <1>3
    <2> HIDE DEF u
    <2>4. WholeEMF(u) /\ 0 \in Multiples(u)
        BY <2>2, <2>3, WholeFiner, ZeroIsMultiple
    <2>5. \A e \in E1s : E1'[e] \in Multiples(u)
        <3>1. CASE ZeroBoundaryEMF
            BY <2>4, <3>1 DEF ZeroBoundaryEMF, WholeEMF
        <3>2. CASE AverageBoundaryEMF
            <4>1. \A b \in Blocks, i \in 1 .. N1, j \in 1 .. N2 + 1 : EMF1Sum(b, i, j) \div N3 \in Multiples(u)
                BY <2>2, <2>3, PoleAverages DEF WholeEMF
            <4>2. \A e \in E1s : EMF1Sum(e[1], e[2], e[3]) \div N3 \in Multiples(u)
                BY <4>1 DEF E1s
            <4> QED BY <2>4, <3>2, <4>2 DEF AverageBoundaryEMF, WholeEMF
        <3> QED BY <1>6, <3>1, <3>2 DEF BoundaryEMF
    <2>6. \A e \in E3s : E3'[e] \in Multiples(u)
        BY <1>6, <2>4 DEF BoundaryEMF, NoEMF3AtPole, WholeEMF
    <2>7. WholeEMF(u)'
        BY <2>1, <2>4, <2>5, <2>6 DEF WholeEMF, u
    <2>8. WholeFaces(N3 * u)'
        BY <2>1, <2>2 DEF WholeFaces, u
    <2> QED BY <1>2, <2>1, <2>7, <2>8 DEF Exact, WholeFaces, WholeEMF, u
<1>7. CASE AddSource
    <2> DEFINE u == N3 * (N3 * g)
    <2>1. /\ at = "AddSource" /\ at' \in {"ReconnectB3", "DerefinePoles"} /\ steps' = steps
        BY <1>7 DEF AddSource
    <2>2. WholeFaces(N3 * u) /\ WholeEMF(u)
        BY <1>2, <2>1 DEF Exact
    <2>3. u \in Int
        BY <1>3
    <2> HIDE DEF u
    <2>4. WholeFaces(u)
        BY <2>2, <2>3, WholeFiner
    <2>5. /\ \A f \in F1s : F1[f] + Circ1(f[1], f[2], f[3], f[4]) \in Multiples(u)
          /\ \A f \in F2s : F2[f] + Circ2(f[1], f[2], f[3], f[4]) \in Multiples(u)
          /\ \A f \in F3s : F3[f] + Circ3(f[1], f[2], f[3], f[4]) \in Multiples(u)
        <3>1. /\ \A f \in F1s : Circ1(f[1], f[2], f[3], f[4]) \in Multiples(u)
              /\ \A f \in F2s : Circ2(f[1], f[2], f[3], f[4]) \in Multiples(u)
              /\ \A f \in F3s : Circ3(f[1], f[2], f[3], f[4]) \in Multiples(u)
            BY <2>2, <2>3, CirculationsWhole
        <3> QED BY <2>3, <2>4, <3>1, MultiplesAdd DEF WholeFaces
    <2>6. /\ \A f \in F1s : F1'[f] \in Multiples(u)
          /\ \A f \in F2s : F2'[f] \in Multiples(u)
          /\ \A f \in F3s : F3'[f] \in Multiples(u)
        BY <1>7, <2>5 DEF AddSource
    <2>7. /\ \A f \in F1s : F1'[f] \in Multiples(N3 * g)
          /\ \A f \in F2s : F2'[f] \in Multiples(N3 * g)
          /\ \A f \in F3s : F3'[f] \in Multiples(N3 * g)
        <3>1. N3 \in Int /\ N3 * g \in Int
            BY <1>1, <1>3
        <3>2. \A x \in Multiples(u) : x \in Multiples(N3 * g)
            BY <3>1, Finer, Zenon DEF u
        <3> QED BY <2>6, <3>2
    <2> QED BY <1>2, <2>1, <2>6, <2>7 DEF Exact, WholeFaces, u
<1>8. CASE ReconnectB3
    <2> DEFINE u == N3 * g
    <2>1. at = "ReconnectB3" /\ at' = "DerefinePoles" /\ steps' = steps /\ F1' = F1 /\ F2' = F2
        BY <1>8 DEF ReconnectB3
    <2>2. WholeFaces(N3 * u)
        BY <1>2, <2>1 DEF Exact
    <2>3. u \in Int
        BY <1>3
    <2> HIDE DEF u
    <2>4. WholeFaces(u)
        BY <2>2, <2>3, WholeFiner
    <2>5. \A b \in Blocks, i \in 1 .. N1, j \in 1 .. N2 : F3Sum(b, i, j) \div N3 \in Multiples(u)
        BY <2>2, <2>3, PoleAverages DEF WholeFaces
    <2>6. \A f \in F3s : F3Sum(f[1], f[2], f[3]) \div N3 \in Multiples(u)
        BY <2>5 DEF F3s
    <2>7. \A f \in F3s : F3[f] - (F3Sum(f[1], f[2], f[3]) \div N3) \in Multiples(u)
        BY <2>3, <2>4, <2>6, MultiplesAdd DEF WholeFaces
    <2>8. \A f \in F3s : F3'[f] \in Multiples(u)
        BY <1>8, <2>4, <2>7 DEF ReconnectB3, WholeFaces
    <2>9. WholeFaces(u)'
        BY <2>1, <2>4, <2>8 DEF WholeFaces, u
    <2> QED BY <1>2, <2>1, <2>9 DEF Exact, WholeFaces, u
<1>9. CASE KeepPoles
    <2>1. /\ at = "DerefinePoles" /\ at' = "CalculateEMF" /\ steps' = steps
          /\ F1' = F1 /\ F2' = F2 /\ F3' = F3
        BY <1>9 DEF KeepPoles, faces
    <2>2. WholeFaces(g)
        BY <1>2, <2>1, WholeFiner DEF Exact
    <2>3. WholeFaces(g)'
        BY <2>1, <2>2 DEF WholeFaces
    <2> QED BY <1>2, <2>1, <2>3 DEF Exact, WholeFaces
<1>10. CASE UNCHANGED vars
    BY <1>10 DEF vars, Exact, WholeFaces, WholeEMF
<1> QED BY <1>4, <1>5, <1>6, <1>7, <1>8, <1>9, <1>10 DEF Next

-----------------------------------------------------------------------------
(***************************************************************************)
(* With zones merged at the poles: the inductive invariant.  A merged cell *)
(* is free of divergence because the field was, no flux went through the   *)
(* pole, and all averages are exact.                                       *)
(***************************************************************************)
RefinedInv == TypeOK /\ Exact /\ PoleEMF /\ PoleClosed /\ DivergenceFree

\* The invariant gives merging what it needs
LEMMA MergingFits ==
    ASSUME RefinedInv, at = "DerefinePoles"
    PROVE  \E g \in Int : g = Grain[steps] /\ Fits(g)
<1>1. PICK g \in Int : g = Grain[steps]
    BY GrainIs DEF RefinedInv, TypeOK
<1>2. Fits(g)
    BY <1>1 DEF RefinedInv, Exact, Fits, TypeOK
<1> QED BY <1>1, <1>2

\* The invariant holds without a seed field
LEMMA RefinedInit == Init => RefinedInv
<1> SUFFICES ASSUME Init PROVE RefinedInv
    OBVIOUS
<1>1. TypeOK
    BY MeshAssumption DEF Init, TypeOK, Operations
<1>2. Exact
    <2>1. PICK g \in Int : g = Grain[steps]
        BY <1>1, GrainIs DEF TypeOK
    <2>2. 0 \in Multiples(g)
        BY ZeroIsMultiple
    <2>3. WholeFaces(g)
        BY <2>2 DEF Init, WholeFaces
    <2> QED BY <2>1, <2>3 DEF Init, Exact
<1>3. PoleEMF
    BY DEF Init, PoleEMF
<1>4. PoleClosed
    BY PoleElements DEF Init, PoleClosed
<1>5. DivergenceFree
    <2> SUFFICES ASSUME NEW b \in Blocks, NEW i \in 1 .. N1, NEW j \in 1 .. N2, NEW k \in 1 .. N3
                 PROVE  Div(b, i, j, k) = 0
        BY DEF DivergenceFree
    <2>1. /\ F1[<<b, i, j, k>>] = 0 /\ F1[<<b, i + 1, j, k>>] = 0
          /\ F2[<<b, i, j, k>>] = 0 /\ F2[<<b, i, j + 1, k>>] = 0
          /\ F3[<<b, i, j, k>>] = 0 /\ F3[<<b, i, j, k + 1>>] = 0
        BY ZoneFaces DEF Init
    <2> QED BY <2>1 DEF Div
<1> QED BY <1>1, <1>2, <1>3, <1>4, <1>5 DEF RefinedInv

\* ... and is preserved by each operation, merging included
LEMMA RefinedStep == RefinedInv /\ [RefinedNext]_vars => RefinedInv'
<1> SUFFICES ASSUME RefinedInv, [RefinedNext]_vars PROVE RefinedInv'
    OBVIOUS
<1>1. CASE [Next]_vars
    BY <1>1, TypeStep, ExactStep, PoleEMFStep, PoleStep, DivergenceStep DEF RefinedInv
<1>2. CASE DerefinePoles
    <2>1. at = "DerefinePoles" /\ at' = "CalculateEMF" /\ steps' = steps
        BY <1>2 DEF DerefinePoles
    <2>2. PICK g \in Int : g = Grain[steps] /\ Fits(g)
        BY <2>1, MergingFits
    <2>3. TypeOK' /\ WholeFaces(g)'
        BY <1>2, <2>2, MergedFluxesWhole
    <2>4. Exact'
        BY <2>1, <2>2, <2>3 DEF Exact, WholeFaces
    <2>5. PoleEMF'
        BY <2>1 DEF PoleEMF
    <2>6. PoleClosed'
        BY <1>2, <2>2, MergingClosesPoles
    <2>7. DivergenceFree'
        BY <1>2, <2>2, MergingBalances DEF RefinedInv
    <2> QED BY <2>3, <2>4, <2>5, <2>6, <2>7 DEF RefinedInv
<1> QED BY <1>1, <1>2 DEF RefinedNext

\* ... so that it holds throughout
LEMMA RefinedInvHolds == RefinedSpec => []RefinedInv
BY RefinedInit, RefinedStep, PTL DEF RefinedSpec

\* Merging zones at the poles after each substep leaves no net flux out of any zone
THEOREM RefinedFieldStaysDivergenceFree == RefinedSpec => []DivergenceFree
<1>1. RefinedInv => DivergenceFree
    BY DEF RefinedInv
<1> QED BY <1>1, RefinedInvHolds, PTL

\* Merging zones next to a pole never opens it
THEOREM RefinedPolesStayClosed == RefinedSpec => []PoleClosed
<1>1. RefinedInv => PoleClosed
    BY DEF RefinedInv
<1> QED BY <1>1, RefinedInvHolds, PTL

\* With all zones around a pole in one block, or nothing averaged around it, merging
\* leaves the two copies of a face equal: coarse cells end at block boundaries
THEOREM RefinedSharedFacesStayEqual ==
    ASSUME PolesInOneBlock
    PROVE  RefinedSpec => []SharedFacesAgree
<1> DEFINE Inv == RefinedInv /\ EdgesAgree /\ SharedFacesAgree
<1>1. Init => Inv
    <2> SUFFICES ASSUME Init PROVE Inv
        OBVIOUS
    <2>1. SharedFacesAgree
        <3> SUFFICES ASSUME NEW b \in Blocks, NEW i \in 1 .. N1, NEW j \in 1 .. N2
                     PROVE  F3[<<b, i, j, N3 + 1>>] = F3[<<Next3(b), i, j, 1>>]
            BY DEF SharedFacesAgree
        <3>1. F3[<<b, i, j, N3 + 1>>] = 0
            BY EndElements DEF Init
        <3>2. F3[<<Next3(b), i, j, 1>>] = 0
            BY EndElements, NextBlock DEF Init
        <3> QED BY <3>1, <3>2
    <2>2. EdgesAgree
        BY DEF Init, EdgesAgree
    <2> QED BY <2>1, <2>2, RefinedInit
<1>2. Inv /\ [RefinedNext]_vars => Inv'
    <2> SUFFICES ASSUME Inv, [RefinedNext]_vars PROVE Inv'
        OBVIOUS
    <2>1. RefinedInv'
        BY RefinedStep
    <2>2. CASE [Next]_vars
        BY <2>1, <2>2, EdgesStep, SharedFacesStep DEF RefinedInv
    <2>3. CASE DerefinePoles
        <3>1. SharedFacesAgree'
            BY <2>3, MergingKeepsSharedFaces DEF RefinedInv, TypeOK
        <3>2. EdgesAgree'
            BY <2>3 DEF DerefinePoles, EdgesAgree
        <3> QED BY <2>1, <3>1, <3>2
    <2> QED BY <2>2, <2>3 DEF RefinedNext
<1>3. Inv => SharedFacesAgree
    OBVIOUS
<1> HIDE DEF Inv
<1> QED BY <1>1, <1>2, <1>3, PTL DEF RefinedSpec

\* Merging moves no flux between coarse cells, whatever the substeps before it did
THEOREM MergingKeepsCoarseFluxes == RefinedSpec => CoarseFluxesKept
<1> DEFINE Kept ==
        at = "DerefinePoles" =>
         \A b \in Blocks, j \in Rows, k \in 1 .. N3 :
            /\ \A i \in 1 .. N1 + 1 :
                  Flux1(b, i, j, Cell(j, k))' = Flux1(b, i, j, Cell(j, k))
            /\ \A i \in 1 .. N1, f \in {j, j + 1} :
                  Flux2(b, i, f, Cell(j, k))' = Flux2(b, i, f, Cell(j, k))
            /\ \A i \in 1 .. N1 : F3'[<<b, i, j, Start(j, k)>>] = F3[<<b, i, j, Start(j, k)>>]
<1>1. RefinedInv /\ [RefinedNext]_vars => [Kept]_vars
    <2> SUFFICES ASSUME RefinedInv, RefinedNext, at = "DerefinePoles" PROVE Kept
        OBVIOUS
    <2>1. DerefinePoles \/ KeepPoles
        BY DEF RefinedNext, Next, CalculateEMF, ExchangeEMF, BoundaryEMF, AddSource, ReconnectB3
    <2>2. CASE DerefinePoles
        <3>1. PICK g \in Int : Fits(g)
            BY MergingFits
        <3> SUFFICES ASSUME NEW b \in Blocks, NEW j \in Rows, NEW k \in 1 .. N3
                     PROVE  /\ \A i \in 1 .. N1 + 1 :
                                  Flux1(b, i, j, Cell(j, k))' = Flux1(b, i, j, Cell(j, k))
                            /\ \A i \in 1 .. N1, f \in {j, j + 1} :
                                  Flux2(b, i, f, Cell(j, k))' = Flux2(b, i, f, Cell(j, k))
                            /\ \A i \in 1 .. N1 :
                                  F3'[<<b, i, j, Start(j, k)>>] = F3[<<b, i, j, Start(j, k)>>]
            OBVIOUS
        <3> QED BY <2>2, <3>1, MergingKeepsFluxes
    <2>3. CASE KeepPoles
        <3>1. Rows = {}
            <4>1. \A j \in 1 .. N2 : Depth(j) >= 0
                BY DepthIs, MeshAssumption
            <4>2. Levels = 0
                BY <2>3 DEF KeepPoles, Levels
            <4>3. ASSUME NEW j \in 1 .. N2, Depth(j) < 0
                  PROVE  FALSE
                BY <4>3, DepthIs, MeshAssumption
            <4> QED BY <4>2, <4>3 DEF Rows
        <3> QED BY <3>1
    <2> QED BY <2>1, <2>2, <2>3
<1>2. RefinedSpec => [][Kept]_vars
    <2> HIDE DEF Kept
    <2> QED BY <1>1, RefinedInvHolds, PTL DEF RefinedSpec
<1> QED BY <1>2 DEF CoarseFluxesKept
=============================================================================
