------------------------- MODULE OrderBilling_proofs -------------------------
(***************************************************************************)
(* Facts about the sums that a bill is made of, and about the bill itself, *)
(* for any finite set of lines and any prices.  Facts about a sum over a   *)
(* finite set are proved on a least counterexample: of the subsets that    *)
(* lack the property, one none of whose proper subsets lacks it.           *)
(***************************************************************************)
EXTENDS OrderBilling, FiniteSetTheorems, TLAPS

\* Of a set of subsets of a finite set, one with no other below it.
LEMMA LeastSubset ==
  ASSUME NEW S, IsFiniteSet(S), NEW B \in SUBSET SUBSET S, B # {}
  PROVE  \E U \in B : \A W \in SUBSET U : W # U => W \notin B
<1>1. IsWellFoundedOn(StrictSubsetOrdering(S), SUBSET S)
  BY FS_StrictSubsetOrderingWellFounded, FS_FiniteSubsetsOfFinite
<1>2. PICK U \in B : \A W \in B : ~ (<<W, U>> \in StrictSubsetOrdering(S))
  <2> HIDE DEF StrictSubsetOrdering
  <2> QED BY <1>1, WFMin
<1>3. ASSUME NEW W \in SUBSET U, W # U, W \in B PROVE FALSE
  <2>1. <<W, U>> \in StrictSubsetOrdering(S)
    BY <1>3 DEF StrictSubsetOrdering
  <2> QED BY <1>2, <1>3, <2>1
<1> QED BY <1>3

-----------------------------------------------------------------------------
(***************************************************************************)
(* The sum of a function of integers over a finite set.                    *)
(***************************************************************************)

One(T) == CHOOSE x \in T : TRUE

\* f gives the sum of v over each subset of S, one element taken at a time.
Sums(v, S, f) ==
  f = [T \in SUBSET S |-> IF T = {} THEN 0 ELSE v[One(T)] + f[T \ {One(T)}]]

Total(v, S) == (CHOOSE f : Sums(v, S, f))[S]

\* The element taken is one of the set's.
LEMMA OneIn == ASSUME NEW T, T # {} PROVE One(T) \in T
<1> QED BY DEF One

\* What f says of one subset.
LEMMA SumsAt ==
  ASSUME NEW v, NEW S, NEW f, Sums(v, S, f), NEW T \in SUBSET S
  PROVE  f[T] = IF T = {} THEN 0 ELSE v[One(T)] + f[T \ {One(T)}]
<1> QED BY DEF Sums

\* No two functions do.
LEMMA SumsUnique ==
  ASSUME NEW v, NEW S, IsFiniteSet(S), NEW f, NEW g, Sums(v, S, f), Sums(v, S, g)
  PROVE  \A T \in SUBSET S : f[T] = g[T]
<1> DEFINE B == {T \in SUBSET S : f[T] # g[T]}
<1> SUFFICES ASSUME B # {} PROVE FALSE
  OBVIOUS
<1>1. PICK U \in B : \A W \in SUBSET U : W # U => W \notin B
  <2>1. B \in SUBSET SUBSET S
    OBVIOUS
  <2> HIDE DEF B
  <2> QED BY <2>1, LeastSubset
<1>2. CASE U = {}
  BY <1>2, SumsAt
<1>3. CASE U # {}
  <2>1. U \ {One(U)} \in SUBSET U /\ U \ {One(U)} # U
    BY <1>3, OneIn
  <2>2. f[U \ {One(U)}] = g[U \ {One(U)}]
    BY <1>1, <2>1
  <2>3. f[U] = v[One(U)] + f[U \ {One(U)}] /\ g[U] = v[One(U)] + g[U \ {One(U)}]
    BY <1>3, SumsAt
  <2> QED BY <2>2, <2>3
<1> QED BY <1>2, <1>3

\* It says the same of a subset as one for that subset alone.
LEMMA TotalIs ==
  ASSUME NEW v, NEW S, IsFiniteSet(S), NEW f, Sums(v, S, f), NEW T \in SUBSET S
  PROVE  Total(v, T) = f[T]
<1> DEFINE g == [W \in SUBSET T |-> f[W]]
<1> DEFINE h == CHOOSE k : Sums(v, T, k)
<1>1. IsFiniteSet(T)
  BY FS_Subset
<1>2. Sums(v, T, g)
  <2>1. ASSUME NEW W \in SUBSET T
        PROVE  f[W] = IF W = {} THEN 0 ELSE v[One(W)] + g[W \ {One(W)}]
    <3>1. W \in SUBSET S /\ W \ {One(W)} \in SUBSET T
      OBVIOUS
    <3> QED BY <3>1, SumsAt
  <2> QED BY <2>1 DEF Sums
<1> HIDE DEF g
<1>3. Sums(v, T, h)
  BY <1>2
<1> HIDE DEF h
<1>4. h[T] = g[T]
  BY <1>1, <1>2, <1>3, SumsUnique
<1>5. g[T] = f[T]
  BY DEF g
<1> QED BY <1>4, <1>5 DEF Total, h

\* Over a finite set there is such a function.
LEMMA SumsExist ==
  ASSUME NEW v, NEW S, IsFiniteSet(S)
  PROVE  \E f : Sums(v, S, f)
<1> DEFINE B == {T \in SUBSET S : ~ \E f : Sums(v, T, f)}
<1> SUFFICES ASSUME B # {} PROVE FALSE
  OBVIOUS
<1>1. PICK U \in B : \A W \in SUBSET U : W # U => W \notin B
  <2>1. B \in SUBSET SUBSET S
    OBVIOUS
  <2> HIDE DEF B
  <2> QED BY <2>1, LeastSubset
<1> DEFINE f == [T \in SUBSET U |-> IF T = {} THEN 0
                                    ELSE v[One(T)] + Total(v, T \ {One(T)})]
<1>2. ASSUME NEW T \in SUBSET U, T # U PROVE f[T] = Total(v, T)
  <2>1. PICK g : Sums(v, T, g)
    BY <1>1, <1>2
  <2>2. IsFiniteSet(T)
    BY FS_Subset
  <2>3. Total(v, T) = g[T]
    BY <2>1, <2>2, TotalIs
  <2>4. CASE T = {}
    BY <2>1, <2>3, <2>4, SumsAt
  <2>5. CASE T # {}
    <3>1. Total(v, T \ {One(T)}) = g[T \ {One(T)}]
      BY <2>1, <2>2, TotalIs
    <3>2. g[T] = v[One(T)] + g[T \ {One(T)}]
      BY <2>1, <2>5, SumsAt
    <3> QED BY <2>3, <2>5, <3>1, <3>2
  <2> QED BY <2>4, <2>5
<1>3. ASSUME NEW T \in SUBSET U, T # {} PROVE f[T \ {One(T)}] = Total(v, T \ {One(T)})
  <2>1. T \ {One(T)} \in SUBSET U /\ T \ {One(T)} # U
    BY <1>3, OneIn
  <2> HIDE DEF f
  <2> QED BY <1>2, <2>1
<1>4. Sums(v, U, f)
  <2>1. \A T \in SUBSET U : f[T] = IF T = {} THEN 0 ELSE v[One(T)] + f[T \ {One(T)}]
    BY <1>3
  <2> QED BY <2>1 DEF Sums
<1> QED BY <1>4

\* The sum over nothing is nothing; over something, one of its elements' and
\* the rest's.
LEMMA TotalStep ==
  ASSUME NEW v, NEW S, IsFiniteSet(S)
  PROVE  /\ Total(v, {}) = 0
         /\ S # {} => Total(v, S) = v[One(S)] + Total(v, S \ {One(S)})
<1>1. PICK f : Sums(v, S, f)
  BY SumsExist
<1>2. \A T \in SUBSET S : Total(v, T) = f[T]
  BY <1>1, TotalIs
<1>3. f[{}] = 0
  BY <1>1, SumsAt
<1>4. S # {} => f[S] = v[One(S)] + f[S \ {One(S)}]
  BY <1>1, SumsAt
<1>5. {} \in SUBSET S /\ S \in SUBSET S /\ S \ {One(S)} \in SUBSET S
  OBVIOUS
<1> QED BY <1>2, <1>3, <1>4, <1>5

\* Sums of integers are integers,
LEMMA TotalType ==
  ASSUME NEW v, NEW S, IsFiniteSet(S), \A x \in S : v[x] \in Int
  PROVE  \A T \in SUBSET S : Total(v, T) \in Int
<1> DEFINE B == {T \in SUBSET S : Total(v, T) \notin Int}
<1> SUFFICES ASSUME B # {} PROVE FALSE
  OBVIOUS
<1>1. PICK U \in B : \A W \in SUBSET U : W # U => W \notin B
  <2>1. B \in SUBSET SUBSET S
    OBVIOUS
  <2> HIDE DEF B
  <2> QED BY <2>1, LeastSubset
<1>2. IsFiniteSet(U)
  BY FS_Subset
<1>3. U # {}
  <2>1. Total(v, {}) = 0
    BY <1>2, TotalStep
  <2> QED BY <2>1
<1>4. One(U) \in U /\ U \ {One(U)} \in SUBSET U /\ U \ {One(U)} # U
  BY <1>3, OneIn
<1>5. Total(v, U \ {One(U)}) \in Int
  BY <1>1, <1>4
<1>6. Total(v, U) = v[One(U)] + Total(v, U \ {One(U)})
  BY <1>2, <1>3, TotalStep
<1> QED BY <1>4, <1>5, <1>6

\* and whichever element is taken out first, the sum is its own and the rest's.
LEMMA TotalSplit ==
  ASSUME NEW v, NEW S, IsFiniteSet(S), \A x \in S : v[x] \in Int
  PROVE  \A x \in S : Total(v, S) = v[x] + Total(v, S \ {x})
<1> DEFINE Splits(T) == \A x \in T : Total(v, T) = v[x] + Total(v, T \ {x})
<1> DEFINE B == {T \in SUBSET S : ~ Splits(T)}
<1> SUFFICES ASSUME B # {} PROVE FALSE
  OBVIOUS
<1>1. PICK U \in B : \A W \in SUBSET U : W # U => W \notin B
  <2>1. B \in SUBSET SUBSET S
    OBVIOUS
  <2> HIDE DEF B
  <2> QED BY <2>1, LeastSubset
<1>2. PICK x \in U : Total(v, U) # v[x] + Total(v, U \ {x})
  OBVIOUS
<1> DEFINE c == One(U)
<1> DEFINE W == U \ {c}
<1>3. IsFiniteSet(U) /\ c \in U
  BY <1>2, FS_Subset, OneIn
<1>4. Total(v, U) = v[c] + Total(v, W)
  BY <1>2, <1>3, TotalStep
<1>5. c # x
  BY <1>2, <1>4
<1>6. W \in SUBSET U /\ W # U /\ U \ {x} \in SUBSET U /\ U \ {x} # U
  BY <1>3
<1>7. Splits(W) /\ Splits(U \ {x})
  BY <1>1, <1>6
<1> HIDE DEF c
<1>8. Total(v, W) = v[x] + Total(v, W \ {x})
  BY <1>2, <1>5, <1>7
<1>9. Total(v, U \ {x}) = v[c] + Total(v, (U \ {x}) \ {c})
  BY <1>3, <1>5, <1>7
<1>10. W \ {x} = (U \ {x}) \ {c} /\ W \ {x} \in SUBSET S
  OBVIOUS
<1>11. v[x] \in Int /\ v[c] \in Int /\ Total(v, W \ {x}) \in Int
  BY <1>2, <1>3, <1>10, TotalType
<1> HIDE DEF W
<1>12. Total(v, U) = v[c] + (v[x] + Total(v, W \ {x}))
  BY <1>4, <1>8
<1>13. Total(v, U \ {x}) = v[c] + Total(v, W \ {x})
  BY <1>9, <1>10
<1>14. \A a, b, r \in Int : a + (b + r) = b + (a + r)
  OBVIOUS
<1>15. Total(v, U) = v[x] + Total(v, U \ {x})
  BY <1>11, <1>12, <1>13, <1>14
<1> QED BY <1>2, <1>15

\* More of it is more, when nothing counts below zero.
LEMMA TotalGrows ==
  ASSUME NEW v, NEW S, IsFiniteSet(S), \A x \in S : v[x] \in Nat
  PROVE  \A T \in SUBSET S : 0 <= Total(v, T) /\ Total(v, T) <= Total(v, S)
<1>0. \A T \in SUBSET S : IsFiniteSet(T) /\ Total(v, T) \in Int
  BY FS_Subset, TotalType
<1>1. ASSUME NEW T \in SUBSET S PROVE \A W \in SUBSET T : Total(v, W) <= Total(v, T)
  <2> DEFINE Bad(W) == Total(v, W) > Total(v, T)
  <2> DEFINE B == {D \in SUBSET T : Total(v, T \ D) > Total(v, T)}
  <2>1. ASSUME B # {} PROVE FALSE
    <3>1. PICK D \in B : \A E \in SUBSET D : E # D => E \notin B
      <4>1. B \in SUBSET SUBSET T /\ IsFiniteSet(T)
        BY <1>0
      <4> HIDE DEF B
      <4> QED BY <2>1, <4>1, LeastSubset
    <3>2. D # {}
      <4>1. Total(v, T) \in Int /\ T \ {} = T
        BY <1>0
      <4> QED BY <4>1
    <3>3. PICK x : x \in D
      BY <3>2
    <3> DEFINE E == D \ {x}
    <3>4. E \in SUBSET D /\ E # D /\ E \in SUBSET T
      BY <3>3
    <3>5. ~ (Total(v, T \ E) > Total(v, T))
      BY <3>1, <3>4
    <3>6. Total(v, T \ E) = v[x] + Total(v, (T \ E) \ {x})
      <4>1. IsFiniteSet(T \ E) /\ x \in T \ E /\ \A y \in T \ E : v[y] \in Int
        BY <1>0, <3>3
      <4> HIDE DEF E
      <4> QED BY <4>1, TotalSplit
    <3>7. (T \ E) \ {x} = T \ D
      BY <3>3
    <3>8. v[x] \in Nat /\ Total(v, T \ D) \in Int /\ Total(v, T) \in Int
          /\ Total(v, T \ E) \in Int
      BY <1>0, <3>3
    <3>9. Total(v, T \ D) > Total(v, T)
      OBVIOUS
    <3> HIDE DEF E
    <3>10. \A n \in Nat, d, s, e \in Int : e = n + d /\ d > s => e > s
      OBVIOUS
    <3> QED BY <3>5, <3>6, <3>7, <3>8, <3>9, <3>10
  <2>2. ASSUME NEW W \in SUBSET T PROVE Total(v, W) <= Total(v, T)
    <3>1. T \ W \in SUBSET T /\ T \ (T \ W) = W
      OBVIOUS
    <3>2. ~ (Total(v, W) > Total(v, T))
      BY <2>1, <3>1
    <3> QED BY <1>0, <3>2
  <2> QED BY <2>2
<1>2. Total(v, {}) = 0
  BY TotalStep
<1> QED BY <1>1, <1>2

\* The difference of two sums is the sum of the differences.
LEMMA TotalMinus ==
  ASSUME NEW S, IsFiniteSet(S), NEW v, NEW w, NEW d,
         \A x \in S : v[x] \in Int /\ w[x] \in Int /\ d[x] = v[x] - w[x]
  PROVE  Total(d, S) = Total(v, S) - Total(w, S)
<1> DEFINE B == {T \in SUBSET S : Total(d, T) # Total(v, T) - Total(w, T)}
<1>1. ASSUME B # {} PROVE FALSE
  <2>1. PICK U \in B : \A W \in SUBSET U : W # U => W \notin B
    <3>1. B \in SUBSET SUBSET S
      OBVIOUS
    <3> HIDE DEF B
    <3> QED BY <1>1, <3>1, LeastSubset
  <2>2. IsFiniteSet(U)
    BY FS_Subset
  <2>3. U # {}
    <3>1. Total(d, {}) = 0 /\ Total(v, {}) = 0 /\ Total(w, {}) = 0
      BY <2>2, TotalStep
    <3>2. Total(d, {}) = Total(v, {}) - Total(w, {})
      BY <3>1
    <3> QED BY <3>2
  <2> DEFINE c == One(U)
  <2> DEFINE W == U \ {c}
  <2>4. c \in U /\ W \in SUBSET U /\ W # U
    BY <2>3, OneIn
  <2>5. /\ Total(d, U) = d[c] + Total(d, W)
        /\ Total(v, U) = v[c] + Total(v, W)
        /\ Total(w, U) = w[c] + Total(w, W)
    BY <2>2, <2>3, TotalStep
  <2>6. Total(d, W) = Total(v, W) - Total(w, W)
    BY <2>1, <2>4
  <2>7. Total(v, W) \in Int /\ Total(w, W) \in Int
    BY <2>4, TotalType
  <2>8. v[c] \in Int /\ w[c] \in Int /\ d[c] = v[c] - w[c]
    BY <2>4
  <2>9. \A a, b, p, q \in Int : (a - b) + (p - q) = (a + p) - (b + q)
    OBVIOUS
  <2> HIDE DEF c, W
  <2>10. Total(d, U) = Total(v, U) - Total(w, U)
    BY <2>5, <2>6, <2>7, <2>8, <2>9
  <2> QED BY <2>10
<1> QED BY <1>1

-----------------------------------------------------------------------------
(***************************************************************************)
(* The parts of a bill.                                                    *)
(***************************************************************************)

LineTotals(item)  == [l \in DOMAIN item |-> LineTotal(item[l])]
DealSavings(item) == [l \in DOMAIN item |-> DealSaving(item[l])]
LineBases(item)   == [l \in DOMAIN item |-> LineTotal(item[l]) - DealSaving(item[l])]

\* Subtotal and DealDiscount are such sums over the lines.
LEMMA BillSums ==
  ASSUME NEW item, NEW S \in SUBSET DOMAIN item
  PROVE  /\ Subtotal(item, S) = Total(LineTotals(item), S)
         /\ DealDiscount(item, S) = Total(DealSavings(item), S)
<1>1. \A T \in SUBSET S : T # {} =>
        /\ LineTotals(item)[One(T)] = LineTotal(item[One(T)])
        /\ DealSavings(item)[One(T)] = DealSaving(item[One(T)])
  BY OneIn DEF LineTotals, DealSavings
<1>2. Subtotal(item, S) = Total(LineTotals(item), S)
  <2>1. \A f : Sums(LineTotals(item), S, f) <=>
             f = [T \in SUBSET S |-> IF T = {} THEN 0
                   ELSE LineTotal(item[One(T)]) + f[T \ {One(T)}]]
    BY <1>1 DEF Sums
  <2> QED BY <2>1, ZenonT(60) DEF Subtotal, MapThenSumSet, MapThenFoldSet, Total, One
<1>3. DealDiscount(item, S) = Total(DealSavings(item), S)
  <2>1. \A f : Sums(DealSavings(item), S, f) <=>
             f = [T \in SUBSET S |-> IF T = {} THEN 0
                   ELSE DealSaving(item[One(T)]) + f[T \ {One(T)}]]
    BY <1>1 DEF Sums
  <2> QED BY <2>1, ZenonT(60) DEF DealDiscount, MapThenSumSet, MapThenFoldSet, Total, One
<1> QED BY <1>2, <1>3

\* A line's deal saves no more than its price.
LEMMA LineAmounts ==
  ASSUME NEW it \in BilledLine
  PROVE  /\ LineTotal(it) \in Nat /\ DealSaving(it) \in Nat
         /\ LineTotal(it) - DealSaving(it) \in Nat
<1> DEFINE u == it.unit
<1> DEFINE q == it.qty
<1> DEFINE p == it.deal
<1> DEFINE k == it.dealQty
<1>1. u \in Nat /\ q \in Nat /\ p \in Nat /\ k \in Nat /\ k <= q
  BY DEF BilledLine
<1> HIDE DEF u, q, p, k
<1>2. u * q \in Int /\ u * k \in Int /\ u * q >= 0 /\ u * k <= u * q
  BY <1>1
<1>3. (u - p) * k \in Int /\ (u - p) * k <= u * k
  BY <1>1
<1>4. \A a, b, c \in Int : a >= 0 /\ b <= c /\ c <= a
        => Greatest(0, b) \in Nat /\ a - Greatest(0, b) \in Nat
  BY DEF Greatest
<1>5. Greatest(0, (u - p) * k) \in Nat /\ u * q - Greatest(0, (u - p) * k) \in Nat
  BY <1>2, <1>3, <1>4
<1> QED BY <1>2, <1>5 DEF LineTotal, DealSaving, u, q, p, k

\* What the lines of a bill come to: nothing is negative, and fewer lines
\* come to no more.
LEMMA LinesAmount ==
  ASSUME NEW L, IsFiniteSet(L), NEW item \in [L -> BilledLine], NEW S \in SUBSET L
  PROVE  /\ Subtotal(item, S) \in Nat /\ DealDiscount(item, S) \in Nat
         /\ Basis(item, S) \in Nat /\ Basis(item, S) <= Basis(item, L)
<1>1. DOMAIN item = L /\ \A l \in L : item[l] \in BilledLine
  OBVIOUS
<1>2. \A l \in L : /\ LineTotals(item)[l] \in Nat /\ DealSavings(item)[l] \in Nat
                  /\ LineBases(item)[l] \in Nat
                  /\ LineBases(item)[l] = LineTotals(item)[l] - DealSavings(item)[l]
  BY <1>1, LineAmounts DEF LineTotals, DealSavings, LineBases
<1>3. ASSUME NEW T \in SUBSET L
      PROVE  /\ Subtotal(item, T) = Total(LineTotals(item), T)
             /\ DealDiscount(item, T) = Total(DealSavings(item), T)
             /\ Basis(item, T) = Total(LineBases(item), T)
  <2>1. /\ Subtotal(item, T) = Total(LineTotals(item), T)
        /\ DealDiscount(item, T) = Total(DealSavings(item), T)
    BY <1>1, BillSums
  <2>2. IsFiniteSet(T)
    BY FS_Subset
  <2>3. \A l \in T : /\ LineTotals(item)[l] \in Int /\ DealSavings(item)[l] \in Int
                    /\ LineBases(item)[l] = LineTotals(item)[l] - DealSavings(item)[l]
    BY <1>2
  <2>4. Total(LineBases(item), T) = Total(LineTotals(item), T) - Total(DealSavings(item), T)
    BY <2>2, <2>3, TotalMinus
  <2> QED BY <2>1, <2>4 DEF Basis
<1>4. ASSUME NEW v, \A l \in L : v[l] \in Nat
      PROVE  Total(v, S) \in Nat /\ Total(v, S) <= Total(v, L)
  <2>1. Total(v, S) \in Int
    BY <1>4, TotalType
  <2>2. 0 <= Total(v, S) /\ Total(v, S) <= Total(v, L)
    BY <1>4, TotalGrows
  <2> QED BY <2>1, <2>2
<1> QED BY <1>2, <1>3, <1>4

-----------------------------------------------------------------------------
(***************************************************************************)
(* The coupon's share.                                                     *)
(***************************************************************************)

\* Division rounds down.
LEMMA Divided ==
  ASSUME NEW a \in Int, NEW n \in Int, n > 0
  PROVE  a \div n \in Int /\ n * (a \div n) <= a /\ a < n * (a \div n) + n
<1> QED OBVIOUS

\* With everything billed the share is the whole; with less, never more.
LEMMA ShareBounds ==
  ASSUME NEW c \in Nat, NEW b \in Nat, NEW d \in Nat, d > 0, b <= d
  PROVE  /\ RoundedShare(c, b, d) \in Nat /\ RoundedShare(c, b, d) <= c
         /\ RoundedShare(c, d, d) = c
<1> DEFINE n == 2 * d
<1>0. n \in Int /\ n > 0 /\ n = d + d
  OBVIOUS
<1>1. ASSUME NEW e \in Nat, e <= d
      PROVE  /\ RoundedShare(c, e, d) \in Nat /\ RoundedShare(c, e, d) <= c
             /\ e = d => RoundedShare(c, e, d) = c
  <2> DEFINE a == 2 * c * e + d
  <2> DEFINE q == a \div n
  <2>1. a \in Int /\ a >= d
    BY <1>1
  <2>2. a < n * c + n
    <3>1. c * e <= c * d
      BY <1>1
    <3>2. 2 * c * e = 2 * (c * e) /\ n * c = 2 * (c * d) /\ c * e \in Int /\ c * d \in Int
      BY <1>1
    <3> QED BY <1>0, <3>1, <3>2
  <2>3. e = d => a >= n * c
    BY <1>1
  <2> HIDE DEF a, n
  <2>4. q \in Int /\ n * q <= a /\ a < n * q + n
    BY <1>0, <2>1, Divided
  <2> HIDE DEF q
  <2>5. q <= c
    BY <1>0, <2>1, <2>2, <2>4
  <2>6. q >= 0
    BY <1>0, <2>1, <2>4
  <2>7. e = d => q >= c
    BY <1>0, <2>1, <2>3, <2>4
  <2>8. RoundedShare(c, e, d) = q
    BY DEF RoundedShare, q, a, n
  <2> QED BY <2>4, <2>5, <2>6, <2>7, <2>8
<1> QED BY <1>1

\* A bill for some of the lines, from a snapshot of what was granted on all of
\* them: it bills no more of a promotion than was granted, and all of it that
\* the lines bear when all of them are billed.
THEOREM BillOf ==
  ASSUME NEW L, IsFiniteSet(L), L # {}, NEW item \in [L -> BilledLine], NEW S \in SUBSET L,
         NEW granted, granted.couponBasis = Basis(item, L),
         granted.couponItems \in Nat, granted.waiver \in Nat, granted.charges \in Nat,
         NEW bill, bill = CalculateOrderBilling(granted, item, S)
  PROVE  /\ bill \in [subtotal : Nat, deal : Nat, waiver : Nat, charges : Nat,
                      discount : Nat, total : Nat]
         /\ bill.waiver <= granted.waiver
         /\ bill.discount - bill.deal - bill.waiver <= granted.couponItems
         /\ S = L =>
              /\ bill.waiver = granted.waiver /\ bill.charges = granted.charges
              /\ bill.discount - bill.deal
                   = granted.waiver + Least(Basis(item, L), granted.couponItems)
              /\ bill.total = Greatest(0, bill.subtotal + granted.charges - bill.discount)
<1> DEFINE subtotal == Subtotal(item, S)
<1> DEFINE deal     == DealDiscount(item, S)
<1> DEFINE b        == Basis(item, S)
<1> DEFINE d        == Basis(item, L)
<1> DEFINE c        == granted.couponItems
<1> DEFINE w        == IF S # {} THEN granted.waiver ELSE 0
<1> DEFINE ch       == IF S # {} THEN granted.charges ELSE 0
<1> DEFINE share    == IF d > 0 THEN Least(b, RoundedShare(c, b, d)) ELSE 0
<1> DEFINE total    == IF S # {} THEN Greatest(0, subtotal + ch - (deal + share + w)) ELSE 0
<1>1. subtotal \in Nat /\ deal \in Nat /\ b \in Nat /\ b <= d /\ b = subtotal - deal
  BY LinesAmount DEF Basis
<1>2. d \in Nat
  <2>1. L \in SUBSET L
    OBVIOUS
  <2> QED BY <2>1, LinesAmount
<1>3. Greatest(0, subtotal - deal) = b
  BY <1>1 DEF Greatest
<1>4. bill = [subtotal |-> subtotal, deal |-> deal, waiver |-> w, charges |-> ch,
              discount |-> deal + share + w, total |-> total]
  BY <1>3 DEF CalculateOrderBilling
<1>5. w \in Nat /\ w <= granted.waiver /\ ch \in Nat
      /\ (S = L => w = granted.waiver /\ ch = granted.charges)
  OBVIOUS
<1> HIDE DEF subtotal, deal, b, d, w, ch
<1>6. share \in Nat /\ share <= c /\ (S = L => share = Least(b, c))
  <2>1. CASE d > 0
    <3>1. RoundedShare(c, b, d) \in Nat /\ RoundedShare(c, b, d) <= c
          /\ RoundedShare(c, d, d) = c
      BY <1>1, <1>2, <2>1, ShareBounds
    <3>2. S = L => b = d
      BY DEF b, d
    <3>3. c \in Nat
      OBVIOUS
    <3> HIDE DEF c
    <3> QED BY <1>1, <2>1, <3>1, <3>2, <3>3 DEF Least
  <2>2. CASE ~ (d > 0)
    BY <1>1, <1>2, <2>2 DEF Least
  <2> QED BY <2>1, <2>2
<1> HIDE DEF share, c
<1>7. total \in Nat
  BY <1>1, <1>5, <1>6 DEF Greatest
<1>8. S = L => total = Greatest(0, subtotal + ch - (deal + share + w))
  OBVIOUS
<1> HIDE DEF total
<1>9. /\ bill.subtotal = subtotal /\ bill.deal = deal /\ bill.waiver = w
      /\ bill.charges = ch /\ bill.discount = deal + share + w /\ bill.total = total
  BY <1>4
<1>10. deal + share + w \in Nat /\ (deal + share + w) - deal - w = share
       /\ (deal + share + w) - deal = w + share
  BY <1>1, <1>5, <1>6
<1>11. bill \in [subtotal : Nat, deal : Nat, waiver : Nat, charges : Nat,
                 discount : Nat, total : Nat]
  BY <1>1, <1>4, <1>5, <1>6, <1>7, <1>10
<1>12. bill.waiver <= granted.waiver /\ bill.discount - bill.deal - bill.waiver <= c
  BY <1>5, <1>6, <1>9, <1>10
<1>13. ASSUME S = L
       PROVE  /\ bill.waiver = granted.waiver /\ bill.charges = granted.charges
              /\ bill.discount - bill.deal = granted.waiver + Least(d, c)
              /\ bill.total = Greatest(0, bill.subtotal + granted.charges - bill.discount)
  <2>1. b = d
    BY <1>13 DEF b, d
  <2> QED BY <1>5, <1>6, <1>8, <1>9, <1>10, <1>13, <2>1
<1> QED BY <1>11, <1>12, <1>13 DEF c, d
=============================================================================
