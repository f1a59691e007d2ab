----------------------------- MODULE DataLemmas -----------------------------
(***************************************************************************)
(* Facts about data that the proofs of several components need: division   *)
(* and places around a circle, least and greatest elements, functions      *)
(* defined by recursion on the naturals, folds and sums over finite sets,  *)
(* the levels of a set of resting orders, induction up an interval, what   *)
(* one more at a place does to counters and to their total, and sequences  *)
(* with an element removed.  Each induction rests on LeastNat: a property  *)
(* that fails for some natural number fails for a least one.               *)
(***************************************************************************)
EXTENDS Integers, FiniteSets, SequencesExt, FiniteSetsExt, FiniteSetTheorems, SequenceTheorems,
        WellFoundedInduction, TLAPS

\* Every non-empty set of naturals has a least element.
LEMMA LeastNat ==
  ASSUME NEW T, T \subseteq Nat, T # {}
  PROVE  \E m \in T : \A k \in T : m <= k
<1> DEFINE R == OpToRel(<, Nat)
<1>1. IsWellFoundedOn(R, Nat)  BY NatLessThanWellFounded
<1> HIDE DEF R
<1>2. PICK m \in T : \A k \in T : <<k, m>> \notin R
  BY <1>1, WFMin
<1>3. \A k \in T : ~(k < m)  BY <1>2 DEF R, OpToRel
<1> QED  BY <1>2, <1>3

\* Min and Max of the community modules name an element that is least, or greatest.
LEMMA MinNat ==
  ASSUME NEW T, T \subseteq Nat, T # {}
  PROVE  Min(T) \in T /\ \A k \in T : Min(T) <= k
BY LeastNat DEF Min

LEMMA MaxBounded ==
  ASSUME NEW n \in Nat, NEW T, T \subseteq 0 .. n, T # {}
  PROVE  Max(T) \in T /\ \A k \in T : Max(T) >= k
<1> DEFINE D == {n - k : k \in T}
<1>1. \A k \in T : k \in 0 .. n  OBVIOUS
<1>2. D # {}  OBVIOUS
<1>3. D \subseteq Nat  BY <1>1
<1>4. PICK m \in D : \A k \in D : m <= k  BY <1>2, <1>3, LeastNat
<1>5. PICK t \in T : m = n - t  BY <1>4
<1>6. \A k \in T : t >= k
  <2> TAKE k \in T
  <2>1. m <= n - k  BY <1>4
  <2> QED  BY <1>1, <1>5, <2>1
<1> QED  BY <1>6 DEF Max

------------------------------------------------------------------------------
(* Quotients and remainders *)

LEMMA DivMod ==
  ASSUME NEW a \in Int, NEW n \in Nat \ {0}
  PROVE  /\ a % n \in 0 .. n - 1
         /\ a \div n \in Int
         /\ a = n * (a \div n) + (a % n)
  OBVIOUS

LEMMA MultiplesApart ==
  ASSUME NEW n \in Nat \ {0}, NEW p \in Int, NEW q \in Int, q < p
  PROVE  n * q + n <= n * p
<1>1. n * (p - q - 1) >= 0
  BY p - q - 1 >= 0
<1>2. n * (p - q - 1) = n * p - n * q - n
  OBVIOUS
<1>3. n * p \in Int /\ n * q \in Int
  OBVIOUS
<1>4. QED
  BY <1>1, <1>2, <1>3

\* A quotient lies between two multiples.
LEMMA QuotientBounds ==
  ASSUME NEW r \in Nat \ {0}, NEW a \in Int, NEW q \in Int
  PROVE  /\ r * q <= a => q <= a \div r
         /\ a < r * q + r => a \div r <= q
<1> DEFINE d == a \div r
           m == a % r
<1>1. m \in 0 .. r - 1 /\ d \in Int /\ a = r * d + m  BY DivMod
<1> HIDE DEF d, m
<1>2. r * d \in Int /\ r * q \in Int  BY <1>1
<1>3. ASSUME r * q <= a PROVE q <= d
  <2> SUFFICES ASSUME d < q PROVE FALSE  BY <1>1
  <2>1. r * d + r <= r * q  BY <1>1, MultiplesApart
  <2> QED  BY <1>1, <1>2, <1>3, <2>1
<1>4. ASSUME a < r * q + r PROVE d <= q
  <2> SUFFICES ASSUME q < d PROVE FALSE  BY <1>1
  <2>1. r * q + r <= r * d  BY <1>1, MultiplesApart
  <2> QED  BY <1>1, <1>2, <1>4, <2>1
<1> QED  BY <1>3, <1>4 DEF d

LEMMA CancelFactor ==
  ASSUME NEW n \in Nat \ {0}, NEW p \in Int, NEW q \in Int, n * p < n * q
  PROVE  p < q
<1> SUFFICES ASSUME q <= p PROVE FALSE  OBVIOUS
<1>1. n * p \in Int /\ n * q \in Int  OBVIOUS
<1>2. CASE q = p  BY <1>1, <1>2
<1>3. CASE q < p
  <2>1. n * q + n <= n * p  BY <1>3, MultiplesApart
  <2> QED  BY <1>1, <2>1
<1> QED  BY <1>2, <1>3

LEMMA ModUnique ==
  ASSUME NEW n \in Nat \ {0}, NEW q \in Int, NEW r \in 0 .. n - 1
  PROVE  (n * q + r) % n = r
<1> DEFINE a == n * q + r
           d == a \div n
           m == a % n
<1>1. a \in Int /\ n * q \in Int
  OBVIOUS
<1>2. m \in 0 .. n - 1 /\ d \in Int /\ a = n * d + m
  BY <1>1, DivMod
<1> HIDE DEF d, m
<1>3. n * d \in Int
  BY <1>2
<1>4. d = q
  <2>1. ~(d < q)
    BY <1>1, <1>2, <1>3, MultiplesApart
  <2>2. ~(q < d)
    BY <1>1, <1>2, <1>3, MultiplesApart
  <2>3. QED
    BY <1>2, <2>1, <2>2
<1>5. m = r
  BY <1>1, <1>2, <1>3, <1>4
<1>6. QED
  BY <1>5 DEF m

\* A step around a circle of n places.
LEMMA Cyclic ==
  ASSUME NEW n \in Nat \ {0}, NEW a \in 0 .. 2 * n - 1
  PROVE  a % n = IF a < n THEN a ELSE a - n
<1>1. CASE a < n
  <2>1. (n * 0 + a) % n = a  BY <1>1, ModUnique
  <2> QED  BY <1>1, <2>1
<1>2. CASE a >= n
  <2>1. (n * 1 + (a - n)) % n = a - n  BY <1>2, ModUnique
  <2> QED  BY <1>2, <2>1
<1> QED  BY <1>1, <1>2

------------------------------------------------------------------------------
(* Sums *)

\* W is the table of partial sums from which MapThenSumSet reads its result.
IsSum(W, g, S) ==
  W = [s \in SUBSET S |-> IF s = {} THEN 0
                          ELSE LET x == CHOOSE x \in s : TRUE IN g[x] + W[s \ {x}]]

Total(g, S) == MapThenSumSet(LAMBDA i : g[i], S)

LEMMA SmallerSubset ==
  ASSUME NEW S, IsFiniteSet(S), NEW s \in SUBSET S, s # {}
  PROVE  LET c == CHOOSE x \in s : TRUE
         IN c \in s /\ IsFiniteSet(s) /\ Cardinality(s \ {c}) = Cardinality(s) - 1
            /\ Cardinality(s) \in Nat /\ s \ {c} \in SUBSET S
<1>1. (CHOOSE x \in s : TRUE) \in s  OBVIOUS
<1>2. IsFiniteSet(s)  BY FS_Subset
<1>3. Cardinality(s) \in Nat  BY <1>2, FS_CardinalityType
<1> QED  BY <1>1, <1>2, <1>3, FS_RemoveElement

LEMMA SumTableExists ==
  ASSUME NEW S, IsFiniteSet(S), NEW g
  PROVE  \E W : IsSum(W, g, S)
<1> DEFINE Right(W, s) == W[s] = IF s = {} THEN 0
                                 ELSE LET x == CHOOSE x \in s : TRUE IN g[x] + W[s \ {x}]
           UpTo(n) == \E W : \A s \in SUBSET S : Cardinality(s) <= n => Right(W, s)
           Bad == {n \in Nat : ~UpTo(n)}
<1>c. \A s \in SUBSET S : IsFiniteSet(s) /\ Cardinality(s) \in Nat /\ Cardinality(s) <= Cardinality(S)
  BY FS_Subset, FS_CardinalityType
<1>0. UpTo(0)
  <2> DEFINE Z == [s \in SUBSET S |-> 0]
  <2>1. \A s \in SUBSET S : Cardinality(s) <= 0 => s = {}  BY <1>c, FS_EmptySet
  <2>2. \A s \in SUBSET S : Cardinality(s) <= 0 => Right(Z, s)  BY <2>1
  <2> QED  BY <2>2
<1>1. ASSUME NEW n \in Nat, UpTo(n) PROVE UpTo(n + 1)
  <2>1. PICK W : \A s \in SUBSET S : Cardinality(s) <= n => Right(W, s)  BY <1>1
  <2> DEFINE V == [s \in SUBSET S |->
                     IF Cardinality(s) <= n THEN W[s]
                     ELSE LET x == CHOOSE x \in s : TRUE IN g[x] + W[s \ {x}]]
  <2>2. ASSUME NEW s \in SUBSET S, Cardinality(s) <= n + 1 PROVE Right(V, s)
    <3>1. CASE s = {}
      <4>1. Cardinality(s) = 0  BY <3>1, FS_EmptySet
      <4> QED  BY <3>1, <4>1, <2>1
    <3>2. CASE s # {}
      <4> DEFINE c == CHOOSE x \in s : TRUE
      <4>1. c \in s /\ Cardinality(s \ {c}) = Cardinality(s) - 1 /\ Cardinality(s) \in Nat /\ s \ {c} \in SUBSET S
        BY <3>2, SmallerSubset
      <4>2. V[s \ {c}] = W[s \ {c}]
        BY <4>1, <2>2
      <4>3. V[s] = g[c] + W[s \ {c}]
        BY <2>1, <3>2
      <4> QED  BY <4>2, <4>3, <3>2
    <3> QED  BY <3>1, <3>2
  <2> QED  BY <2>2
<1>2. Bad = {}
  <2> SUFFICES ASSUME Bad # {} PROVE FALSE  OBVIOUS
  <2> HIDE DEF UpTo
  <2>1. PICK m \in Bad : \A k \in Bad : m <= k  BY LeastNat
  <2>2. m # 0  BY <1>0
  <2>3. m - 1 \in Nat /\ UpTo(m - 1)  BY <2>1, <2>2
  <2>4. UpTo((m - 1) + 1)  BY <2>3, <1>1
  <2> QED  BY <2>4
<1>3. UpTo(Cardinality(S))
  <2> HIDE DEF UpTo
  <2>1. Cardinality(S) \in Nat  BY FS_CardinalityType
  <2> QED  BY <1>2, <2>1
<1>4. PICK W : \A s \in SUBSET S : Cardinality(s) <= Cardinality(S) => Right(W, s)  BY <1>3
<1> DEFINE V == [s \in SUBSET S |-> W[s]]
<1>5. \A s \in SUBSET S : Right(V, s)
  BY <1>4, <1>c
<1>6. IsSum(V, g, S)  BY <1>5 DEF IsSum
<1> QED  BY <1>6

\* Two tables agree on a set on which the two functions agree.
LEMMA SumTablesAgree ==
  ASSUME NEW S, IsFiniteSet(S), NEW g, NEW V, IsSum(V, g, S),
         NEW R, IsFiniteSet(R), NEW h, NEW W, IsSum(W, h, R),
         NEW A, A \subseteq S, A \subseteq R, \A x \in A : g[x] = h[x]
  PROVE  V[A] = W[A]
<1> DEFINE Bad == {n \in Nat : \E s \in SUBSET A : Cardinality(s) = n /\ V[s] # W[s]}
<1>1. ASSUME Bad # {} PROVE FALSE
  <2>1. PICK m \in Bad : \A k \in Bad : m <= k  BY <1>1, LeastNat
  <2>2. PICK s \in SUBSET A : Cardinality(s) = m /\ V[s] # W[s]  BY <2>1
  <2>3. s \in SUBSET S /\ s \in SUBSET R  OBVIOUS
  <2>4. s # {}  BY <2>2, <2>3 DEF IsSum
  <2> DEFINE c == CHOOSE x \in s : TRUE
  <2>5. c \in s /\ Cardinality(s \ {c}) = m - 1 /\ m - 1 \in Nat /\ s \ {c} \in SUBSET A
    <3>1. c \in s /\ Cardinality(s \ {c}) = Cardinality(s) - 1 /\ Cardinality(s) \in Nat
      BY <2>3, <2>4, SmallerSubset
    <3>2. Cardinality(s \ {c}) \in Nat
      BY <2>3, <3>1, FS_Subset, FS_CardinalityType
    <3> QED  BY <2>2, <3>1, <3>2
  <2>6. m - 1 \notin Bad  BY <2>1, <2>5
  <2>7. V[s \ {c}] = W[s \ {c}]  BY <2>5, <2>6
  <2>8. V[s] = g[c] + V[s \ {c}] /\ W[s] = h[c] + W[s \ {c}]
    BY <2>3, <2>4 DEF IsSum
  <2> QED  BY <2>2, <2>5, <2>7, <2>8
<1>2. A \in SUBSET A /\ Cardinality(A) \in Nat  BY FS_Subset, FS_CardinalityType
<1> QED  BY <1>1, <1>2

\* What MapThenSumSet returns is in such a table.
LEMMA TotalInTable ==
  ASSUME NEW S, IsFiniteSet(S), NEW g, NEW W, IsSum(W, g, S), NEW s \in SUBSET S
  PROVE  Total(g, s) = W[s]
<1> DEFINE V == CHOOSE V : IsSum(V, g, s)
<1>1. IsFiniteSet(s)  BY FS_Subset
<1>2. IsSum(V, g, s)  BY <1>1, SumTableExists
<1>3. Total(g, s) = V[s]
  BY DEF Total, MapThenSumSet, MapThenFoldSet, IsSum
<1> HIDE DEF V
<1> QED  BY <1>1, <1>2, <1>3, SumTablesAgree

LEMMA TotalEmpty == ASSUME NEW g PROVE Total(g, {}) = 0
<1>1. IsFiniteSet({})  BY FS_EmptySet
<1>2. PICK W : IsSum(W, g, {})  BY <1>1, SumTableExists
<1>3. Total(g, {}) = W[{}]  BY <1>1, <1>2, TotalInTable
<1>4. W[{}] = 0  BY <1>2 DEF IsSum
<1> QED  BY <1>3, <1>4

LEMMA TotalsAgree ==
  ASSUME NEW S, IsFiniteSet(S), NEW g, NEW h, \A x \in S : g[x] = h[x]
  PROVE  Total(g, S) = Total(h, S)
<1>1. PICK V : IsSum(V, g, S)  BY SumTableExists
<1>2. PICK W : IsSum(W, h, S)  BY SumTableExists
<1>3. V[S] = W[S]  BY <1>1, <1>2, SumTablesAgree
<1>4. S \in SUBSET S  OBVIOUS
<1>5. Total(g, S) = V[S]  BY <1>1, <1>4, TotalInTable
<1>6. Total(h, S) = W[S]  BY <1>2, <1>4, TotalInTable
<1> QED  BY <1>3, <1>5, <1>6

LEMMA TotalInt ==
  ASSUME NEW S, IsFiniteSet(S), NEW g, \A x \in S : g[x] \in Int
  PROVE  Total(g, S) \in Int
<1>0. PICK W : IsSum(W, g, S)  BY SumTableExists
<1> DEFINE Bad == {n \in Nat : \E s \in SUBSET S : Cardinality(s) = n /\ W[s] \notin Int}
<1>1. ASSUME Bad # {} PROVE FALSE
  <2>1. PICK m \in Bad : \A k \in Bad : m <= k  BY <1>1, LeastNat
  <2>2. PICK s \in SUBSET S : Cardinality(s) = m /\ W[s] \notin Int  BY <2>1
  <2>4. s # {}  BY <1>0, <2>2 DEF IsSum
  <2> DEFINE c == CHOOSE x \in s : TRUE
  <2>5. c \in s /\ Cardinality(s \ {c}) = m - 1 /\ m - 1 \in Nat /\ s \ {c} \in SUBSET S
    <3>1. c \in s /\ Cardinality(s \ {c}) = Cardinality(s) - 1 /\ Cardinality(s) \in Nat
      BY <2>4, SmallerSubset
    <3>2. Cardinality(s \ {c}) \in Nat
      BY <3>1, FS_Subset, FS_CardinalityType
    <3> QED  BY <2>2, <3>1, <3>2
  <2>6. m - 1 \notin Bad  BY <2>1, <2>5
  <2>7. W[s \ {c}] \in Int  BY <2>5, <2>6
  <2>8. W[s] = g[c] + W[s \ {c}]  BY <1>0, <2>4 DEF IsSum
  <2> QED  BY <2>2, <2>5, <2>7, <2>8
<1>2. S \in SUBSET S /\ Cardinality(S) \in Nat  BY FS_CardinalityType
<1>3. W[S] \in Int  BY <1>1, <1>2
<1> QED  BY <1>0, <1>2, <1>3, TotalInTable

\* A sum does not depend on which element is added last.
LEMMA TotalWithout ==
  ASSUME NEW S, IsFiniteSet(S), NEW g, \A x \in S : g[x] \in Int, NEW y \in S
  PROVE  Total(g, S) = g[y] + Total(g, S \ {y})
<1>0. PICK W : IsSum(W, g, S)  BY SumTableExists
<1>i. \A s \in SUBSET S : W[s] \in Int
  <2> TAKE s \in SUBSET S
  <2>1. IsFiniteSet(s)  BY FS_Subset
  <2>2. Total(g, s) \in Int  BY <2>1, TotalInt
  <2> QED  BY <1>0, <2>2, TotalInTable
<1> DEFINE Bad == {n \in Nat : \E s \in SUBSET S, x \in S :
                      x \in s /\ Cardinality(s) = n /\ W[s] # g[x] + W[s \ {x}]}
<1>1. ASSUME Bad # {} PROVE FALSE
  <2>1. PICK m \in Bad : \A k \in Bad : m <= k  BY <1>1, LeastNat
  <2>2. PICK s \in SUBSET S, x \in S : x \in s /\ Cardinality(s) = m /\ W[s] # g[x] + W[s \ {x}]
    BY <2>1
  <2> DEFINE c == CHOOSE z \in s : TRUE
  <2>4. s # {}  BY <2>2
  <2>5. c \in s /\ Cardinality(s \ {c}) = m - 1 /\ m - 1 \in Nat /\ s \ {c} \in SUBSET S
    <3>1. c \in s /\ Cardinality(s \ {c}) = Cardinality(s) - 1 /\ Cardinality(s) \in Nat
      BY <2>4, SmallerSubset
    <3>2. Cardinality(s \ {c}) \in Nat
      BY <3>1, FS_Subset, FS_CardinalityType
    <3> QED  BY <2>2, <3>1, <3>2
  <2>6. W[s] = g[c] + W[s \ {c}]  BY <1>0, <2>4 DEF IsSum
  <2>7. c # x  BY <2>2, <2>6
  <2>8. m - 1 \notin Bad
    <3>1. m \in Nat  OBVIOUS
    <3> HIDE DEF Bad
    <3> QED  BY <2>1, <3>1
  <2>9. s \ {x} \in SUBSET S /\ Cardinality(s \ {x}) = m - 1 /\ c \in s \ {x} /\ x \in s \ {c}
    <3>1. IsFiniteSet(s)  BY FS_Subset
    <3>2. Cardinality(s \ {x}) = Cardinality(s) - 1  BY <2>2, <3>1, FS_RemoveElement
    <3> QED  BY <2>2, <2>5, <2>7, <3>2
  <2>10. W[s \ {c}] = g[x] + W[(s \ {c}) \ {x}]  BY <2>5, <2>8, <2>9
  <2>11. W[s \ {x}] = g[c] + W[(s \ {x}) \ {c}]  BY <2>5, <2>8, <2>9
  <2>12. (s \ {x}) \ {c} = (s \ {c}) \ {x}  OBVIOUS
  <2>13. g[c] \in Int /\ g[x] \in Int /\ W[(s \ {c}) \ {x}] \in Int
    <3>1. (s \ {c}) \ {x} \in SUBSET S /\ c \in S  BY <2>5
    <3> HIDE DEF c
    <3> QED  BY <1>i, <3>1
  <2>14. W[s] = g[c] + (g[x] + W[(s \ {c}) \ {x}])  BY <2>6, <2>10, Zenon
  <2>15. g[x] + W[s \ {x}] = g[x] + (g[c] + W[(s \ {c}) \ {x}])  BY <2>11, <2>12, Zenon
  <2>16. \A i, j, k \in Int : i + (j + k) = j + (i + k)  OBVIOUS
  <2>17. g[c] + (g[x] + W[(s \ {c}) \ {x}]) = g[x] + (g[c] + W[(s \ {c}) \ {x}])
    BY <2>13, <2>16, Zenon
  <2> QED  BY <2>2, <2>14, <2>15, <2>17, Zenon
<1>2. S \in SUBSET S /\ S \ {y} \in SUBSET S /\ Cardinality(S) \in Nat  BY FS_CardinalityType
<1>3. W[S] = g[y] + W[S \ {y}]  BY <1>1, <1>2
<1>4. Total(g, S) = W[S]  BY <1>0, <1>2, TotalInTable
<1>5. Total(g, S \ {y}) = W[S \ {y}]  BY <1>0, <1>2, TotalInTable
<1> QED  BY <1>3, <1>4, <1>5

LEMMA TotalWith ==
  ASSUME NEW S, IsFiniteSet(S), NEW g, \A x \in S : g[x] \in Int, NEW y, y \notin S, g[y] \in Int
  PROVE  Total(g, S \cup {y}) = g[y] + Total(g, S)
<1>1. IsFiniteSet(S \cup {y})  BY FS_AddElement
<1>2. (S \cup {y}) \ {y} = S  OBVIOUS
<1> QED  BY <1>1, <1>2, TotalWithout

\* A sum of naturals is a natural, and at least each of its terms.
LEMMA TotalNat ==
  ASSUME NEW S, IsFiniteSet(S), NEW g, \A x \in S : g[x] \in Nat
  PROVE  Total(g, S) \in Nat
<1>0. PICK W : IsSum(W, g, S)  BY SumTableExists
<1> DEFINE Bad == {n \in Nat : \E s \in SUBSET S : Cardinality(s) = n /\ W[s] \notin Nat}
<1>1. ASSUME Bad # {} PROVE FALSE
  <2>1. PICK m \in Bad : \A k \in Bad : m <= k  BY <1>1, LeastNat
  <2>2. PICK s \in SUBSET S : Cardinality(s) = m /\ W[s] \notin Nat  BY <2>1
  <2>4. s # {}  BY <1>0, <2>2 DEF IsSum
  <2> DEFINE c == CHOOSE x \in s : TRUE
  <2>5. c \in s /\ Cardinality(s \ {c}) = m - 1 /\ m - 1 \in Nat /\ s \ {c} \in SUBSET S
    <3>1. c \in s /\ Cardinality(s \ {c}) = Cardinality(s) - 1 /\ Cardinality(s) \in Nat
      BY <2>4, SmallerSubset
    <3>2. Cardinality(s \ {c}) \in Nat
      BY <3>1, FS_Subset, FS_CardinalityType
    <3> QED  BY <2>2, <3>1, <3>2
  <2>6. m - 1 \notin Bad  BY <2>1, <2>5
  <2>7. W[s \ {c}] \in Nat  BY <2>5, <2>6
  <2>8. W[s] = g[c] + W[s \ {c}]  BY <1>0, <2>4 DEF IsSum
  <2> QED  BY <2>2, <2>5, <2>7, <2>8
<1>2. S \in SUBSET S /\ Cardinality(S) \in Nat  BY FS_CardinalityType
<1>3. W[S] \in Nat  BY <1>1, <1>2
<1> QED  BY <1>0, <1>2, <1>3, TotalInTable

LEMMA TotalAtLeastTerm ==
  ASSUME NEW S, IsFiniteSet(S), NEW g, \A x \in S : g[x] \in Nat, NEW y \in S
  PROVE  Total(g, S) >= g[y]
<1>1. Total(g, S) = g[y] + Total(g, S \ {y})  BY TotalWithout
<1>2. IsFiniteSet(S \ {y})  BY FS_Subset
<1>3. Total(g, S \ {y}) \in Nat  BY <1>2, TotalNat
<1> QED  BY <1>1, <1>3

\* A sum over two sets apart is the sum of both, and a larger set has no smaller sum.
LEMMA TotalUnion ==
  ASSUME NEW A, IsFiniteSet(A), NEW B, IsFiniteSet(B), A \cap B = {},
         NEW g, \A x \in A \cup B : g[x] \in Int
  PROVE  Total(g, A \cup B) = Total(g, A) + Total(g, B)
<1> DEFINE Bad == {n \in Nat : \E s \in SUBSET B : /\ Cardinality(s) = n
                                 /\ Total(g, A \cup s) # Total(g, A) + Total(g, s)}
<1>0. Total(g, A) \in Int /\ \A x \in A : g[x] \in Int  BY TotalInt
<1>1. ASSUME Bad # {} PROVE FALSE
  <2>1. PICK m \in Bad : \A k \in Bad : m <= k  BY <1>1, LeastNat
  <2>2. PICK s \in SUBSET B : Cardinality(s) = m /\ Total(g, A \cup s) # Total(g, A) + Total(g, s)
    BY <2>1
  <2>3. IsFiniteSet(s) /\ \A x \in s : g[x] \in Int  BY FS_Subset
  <2>4. s # {}
    <3>1. SUFFICES ASSUME s = {} PROVE FALSE  OBVIOUS
    <3>2. Total(g, s) = 0  BY <3>1, TotalEmpty
    <3>3. A \cup s = A  BY <3>1
    <3>4. Total(g, A \cup s) = Total(g, A)  BY <3>3
    <3> QED  BY <1>0, <2>2, <3>2, <3>4
  <2>5. PICK c \in s : TRUE  BY <2>4
  <2>6. Cardinality(s \ {c}) = m - 1 /\ IsFiniteSet(s \ {c})
    BY <2>2, <2>3, FS_RemoveElement
  <2>7. m - 1 \in Nat /\ m - 1 \notin Bad
    <3>1. m - 1 \in Nat /\ m \in Nat  BY <2>6, FS_CardinalityType
    <3>2. ~(m <= m - 1)  BY <3>1
    <3> HIDE DEF Bad
    <3> QED  BY <2>1, <3>1, <3>2
  <2>8. Total(g, A \cup (s \ {c})) = Total(g, A) + Total(g, s \ {c})  BY <2>6, <2>7
  <2>9. Total(g, s) = g[c] + Total(g, s \ {c})  BY <2>3, TotalWithout
  <2>10. Total(g, A \cup s) = g[c] + Total(g, A \cup (s \ {c}))
    <3>1. IsFiniteSet(A \cup s)  BY <2>3, FS_Union
    <3>2. (A \cup s) \ {c} = A \cup (s \ {c}) /\ c \in A \cup s  OBVIOUS
    <3>3. \A x \in A \cup s : g[x] \in Int  BY <1>0, <2>3
    <3>4. Total(g, A \cup s) = g[c] + Total(g, (A \cup s) \ {c})  BY <3>1, <3>2, <3>3, TotalWithout
    <3> QED  BY <3>2, <3>4
  <2>11. Total(g, s \ {c}) \in Int /\ g[c] \in Int
    <3>1. \A x \in s \ {c} : g[x] \in Int  BY <2>3
    <3> QED  BY <2>3, <2>6, <3>1, TotalInt
  <2> QED  BY <1>0, <2>2, <2>8, <2>9, <2>10, <2>11
<1>2. B \in SUBSET B /\ Cardinality(B) \in Nat  BY FS_CardinalityType
<1> QED  BY <1>1, <1>2

LEMMA TotalMonotone ==
  ASSUME NEW S, IsFiniteSet(S), NEW g, \A x \in S : g[x] \in Nat, NEW R \in SUBSET S
  PROVE  Total(g, R) <= Total(g, S)
<1> DEFINE D == S \ R
<1>1. /\ IsFiniteSet(R) /\ IsFiniteSet(D) /\ R \cap D = {} /\ R \cup D = S
      /\ (\A x \in R : g[x] \in Nat) /\ \A x \in D : g[x] \in Nat
  BY FS_Subset
<1>2. \A x \in R \cup D : g[x] \in Int  BY <1>1
<1> HIDE DEF D
<1>3. Total(g, R) \in Nat /\ Total(g, D) \in Nat  BY <1>1, TotalNat
<1>4. Total(g, R \cup D) = Total(g, R) + Total(g, D)  BY <1>1, <1>2, TotalUnion
<1>5. Total(g, S) = Total(g, R) + Total(g, D)
  <2>1. R \cup D = S  BY <1>1
  <2> QED  BY <1>4, <2>1
<1> QED  BY <1>3, <1>5

\* A sum is bounded by the bound of its terms times their number.
LEMMA TotalBounded ==
  ASSUME NEW S, IsFiniteSet(S), NEW b \in Nat, NEW g, \A x \in S : g[x] \in 0 .. b
  PROVE  Total(g, S) <= Cardinality(S) * b
<1> DEFINE Bad == {n \in Nat : \E s \in SUBSET S : Cardinality(s) = n /\ ~(Total(g, s) <= n * b)}
<1>1. ASSUME Bad # {} PROVE FALSE
  <2>1. PICK m \in Bad : \A k \in Bad : m <= k  BY <1>1, LeastNat
  <2>2. PICK s \in SUBSET S : Cardinality(s) = m /\ ~(Total(g, s) <= m * b)  BY <2>1
  <2>3. IsFiniteSet(s)  BY FS_Subset
  <2>4. s # {}
    <3>1. SUFFICES ASSUME s = {} PROVE FALSE  OBVIOUS
    <3>2. m = 0  BY <2>2, <3>1, FS_EmptySet
    <3>3. Total(g, s) = 0  BY <3>1, TotalEmpty
    <3> QED  BY <2>2, <3>2, <3>3
  <2>5. PICK c \in s : TRUE  BY <2>4
  <2>6. Cardinality(s \ {c}) = m - 1 /\ IsFiniteSet(s \ {c})
    BY <2>2, <2>3, FS_RemoveElement
  <2>7. m - 1 \in Nat /\ m - 1 \notin Bad
    <3>1. m - 1 \in Nat  BY <2>6, FS_CardinalityType
    <3> QED  BY <2>1, <3>1
  <2>8. Total(g, s \ {c}) <= (m - 1) * b  BY <2>6, <2>7
  <2>9. Total(g, s) = g[c] + Total(g, s \ {c})  BY <2>3, TotalWithout
  <2>10. Total(g, s \ {c}) \in Nat  BY <2>6, TotalNat
  <2>11. (m - 1) * b + b = m * b  BY <2>7
  <2>12. (m - 1) * b \in Nat /\ m * b \in Nat  BY <2>7
  <2>13. g[c] \in 0 .. b  OBVIOUS
  <2> QED  BY <2>2, <2>8, <2>9, <2>10, <2>11, <2>12, <2>13
<1>2. S \in SUBSET S /\ Cardinality(S) \in Nat  BY FS_CardinalityType
<1> QED  BY <1>1, <1>2

------------------------------------------------------------------------------
(* Recursion on the naturals *)

\* A function whose value at k is made from its value at k - 1 exists, so that the one
\* a recursive definition chooses satisfies the definition.
IsRecursive(f, n, a, F) ==
  f = [k \in 0 .. n |-> IF k = 0 THEN a ELSE F[<<k, f[k - 1]>>]]

LEMMA RecursionExists ==
  ASSUME NEW n \in Nat, NEW S, NEW a \in S, NEW F,
         \A k \in 1 .. n, s \in S : F[<<k, s>>] \in S
  PROVE  \E f \in [0 .. n -> S] : IsRecursive(f, n, a, F)
<1> DEFINE Upto(f, m) == \A k \in 0 .. m : f[k] = IF k = 0 THEN a ELSE F[<<k, f[k - 1]>>]
           Bad == {m \in 0 .. n : ~\E f \in [0 .. m -> S] : Upto(f, m)}
<1>1. ASSUME Bad # {} PROVE FALSE
  <2>1. PICK m \in Bad : \A k \in Bad : m <= k
    <3>1. Bad \subseteq Nat  OBVIOUS
    <3> HIDE DEF Bad
    <3> QED  BY <1>1, <3>1, LeastNat
  <2>2. CASE m = 0
    <3> DEFINE f == [k \in 0 .. 0 |-> a]
    <3>1. f \in [0 .. 0 -> S] /\ Upto(f, 0)  OBVIOUS
    <3> QED  BY <2>1, <2>2, <3>1
  <2>3. CASE m # 0
    <3>1. m - 1 \in 0 .. n /\ m \in 1 .. n /\ m - 1 \notin Bad
      <4>1. m \in 0 .. n  OBVIOUS
      <4> HIDE DEF Bad
      <4>2. m - 1 \in 0 .. n /\ m \in 1 .. n /\ ~(m <= m - 1)  BY <2>3, <4>1
      <4> QED  BY <2>1, <4>2
    <3>2. PICK f \in [0 .. m - 1 -> S] : Upto(f, m - 1)  BY <3>1
    <3> DEFINE g == [k \in 0 .. m |-> IF k = m THEN F[<<m, f[m - 1]>>] ELSE f[k]]
    <3>3. m - 1 \in 0 .. m - 1 /\ f[m - 1] \in S  BY <3>1
    <3>4. F[<<m, f[m - 1]>>] \in S  BY <3>1, <3>3
    <3>5. g \in [0 .. m -> S]
      <4>1. \A k \in 0 .. m : k = m \/ k \in 0 .. m - 1  BY <3>1
      <4> QED  BY <3>4, <4>1
    <3>6. Upto(g, m)
      <4> SUFFICES ASSUME NEW k \in 0 .. m
                   PROVE  g[k] = IF k = 0 THEN a ELSE F[<<k, g[k - 1]>>]
        OBVIOUS
      <4>1. CASE k = m
        <5>1. m - 1 \in 0 .. m /\ m - 1 # m  BY <3>1
        <5>2. g[m - 1] = f[m - 1]  BY <5>1
        <5> QED  BY <2>3, <4>1, <5>2
      <4>2. CASE k # m
        <5>1. k \in 0 .. m - 1  BY <3>1, <4>2
        <5>2. g[k] = f[k]  BY <4>2
        <5>3. k # 0 => k - 1 \in 0 .. m /\ k - 1 # m  BY <3>1, <5>1
        <5>4. k # 0 => g[k - 1] = f[k - 1]  BY <5>3
        <5> QED  BY <3>2, <5>1, <5>2, <5>4
      <4> QED  BY <4>1, <4>2
    <3>7. \E h \in [0 .. m -> S] : Upto(h, m)  BY <3>5, <3>6
    <3> QED  BY <3>7
  <2> QED  BY <2>2, <2>3
<1>2. n \in 0 .. n  OBVIOUS
<1>3. PICK f \in [0 .. n -> S] : Upto(f, n)  BY <1>1, <1>2
<1>4. IsRecursive(f, n, a, F)  BY <1>3 DEF IsRecursive
<1> QED  BY <1>4

\* The table of a fold over a finite set exists, whichever element ch takes next, and its
\* values stay in V when every step does.
IsFold(W, S, base, F, ch) ==
  W = [s \in SUBSET S |-> IF s = {} THEN base ELSE F[<<ch[s], W[s \ {ch[s]}]>>]]

LEMMA FoldTableExists ==
  ASSUME NEW S, IsFiniteSet(S), NEW V, NEW base \in V, NEW F, NEW ch,
         \A x \in S, v \in V : F[<<x, v>>] \in V,
         \A s \in SUBSET S : s # {} => ch[s] \in s
  PROVE  \E W \in [SUBSET S -> V] : IsFold(W, S, base, F, ch)
<1> DEFINE Right(W, s) == W[s] = IF s = {} THEN base ELSE F[<<ch[s], W[s \ {ch[s]}]>>]
           UpTo(n) == \E W \in [SUBSET S -> V] :
                        \A s \in SUBSET S : Cardinality(s) <= n => Right(W, s)
           Bad == {n \in Nat : ~UpTo(n)}
<1>c. \A s \in SUBSET S : /\ IsFiniteSet(s) /\ Cardinality(s) \in Nat
                          /\ Cardinality(s) <= Cardinality(S)
  BY FS_Subset, FS_CardinalityType
<1>d. ASSUME NEW s \in SUBSET S, s # {}
      PROVE  /\ ch[s] \in s /\ ch[s] \in S /\ s \ {ch[s]} \in SUBSET S
             /\ Cardinality(s \ {ch[s]}) = Cardinality(s) - 1
  <2>1. ch[s] \in s  BY <1>d
  <2> QED  BY <1>c, <2>1, FS_RemoveElement
<1>0. UpTo(0)
  <2> DEFINE Z == [s \in SUBSET S |-> base]
  <2>1. Z \in [SUBSET S -> V]  OBVIOUS
  <2>2. \A s \in SUBSET S : Cardinality(s) <= 0 => s = {}  BY <1>c, FS_EmptySet
  <2>3. \A s \in SUBSET S : Cardinality(s) <= 0 => Right(Z, s)  BY <2>2
  <2> QED  BY <2>1, <2>3
<1>1. ASSUME NEW n \in Nat, UpTo(n) PROVE UpTo(n + 1)
  <2>1. PICK W \in [SUBSET S -> V] : \A s \in SUBSET S : Cardinality(s) <= n => Right(W, s)
    BY <1>1
  <2> DEFINE next(s) == F[<<ch[s], W[s \ {ch[s]}]>>]
             X == [s \in SUBSET S |-> IF Cardinality(s) <= n THEN W[s] ELSE next(s)]
  <2>2. ASSUME NEW s \in SUBSET S PROVE X[s] \in V
    <3>1. CASE Cardinality(s) <= n  BY <3>1
    <3>2. CASE ~(Cardinality(s) <= n)
      <4>1. s # {}
        <5>1. SUFFICES ASSUME s = {} PROVE FALSE  OBVIOUS
        <5>2. Cardinality(s) = 0  BY <5>1, FS_EmptySet
        <5> QED  BY <3>2, <5>2
      <4>2. ch[s] \in S /\ s \ {ch[s]} \in SUBSET S  BY <1>d, <4>1
      <4>3. W[s \ {ch[s]}] \in V  BY <4>2
      <4>4. next(s) \in V  BY <4>2, <4>3
      <4> QED  BY <3>2, <4>4
    <3> QED  BY <3>1, <3>2
  <2>3. X \in [SUBSET S -> V]  BY <2>2
  <2>4. ASSUME NEW s \in SUBSET S, Cardinality(s) <= n + 1 PROVE Right(X, s)
    <3>1. CASE s = {}
      <4>1. Cardinality(s) <= n  BY <3>1, FS_EmptySet
      <4> QED  BY <2>1, <3>1, <4>1
    <3>2. CASE s # {}
      <4>1. /\ s \ {ch[s]} \in SUBSET S
            /\ Cardinality(s \ {ch[s]}) = Cardinality(s) - 1
        BY <1>d, <3>2
      <4>2. Cardinality(s) \in Nat  BY <1>c
      <4>3. X[s \ {ch[s]}] = W[s \ {ch[s]}]  BY <2>4, <4>1, <4>2
      <4>4. X[s] = F[<<ch[s], W[s \ {ch[s]}]>>]  BY <2>1, <3>2
      <4> QED  BY <3>2, <4>3, <4>4
    <3> QED  BY <3>1, <3>2
  <2> HIDE DEF X
  <2> QED  BY <2>3, <2>4
<1>2. Bad = {}
  <2> SUFFICES ASSUME Bad # {} PROVE FALSE  OBVIOUS
  <2> HIDE DEF UpTo
  <2>1. PICK m \in Bad : \A k \in Bad : m <= k  BY LeastNat
  <2>2. m # 0  BY <1>0
  <2>3. m - 1 \in Nat /\ UpTo(m - 1)  BY <2>1, <2>2
  <2>4. UpTo((m - 1) + 1)  BY <2>3, <1>1
  <2> QED  BY <2>4
<1>3. UpTo(Cardinality(S))
  <2> HIDE DEF UpTo
  <2>1. Cardinality(S) \in Nat  BY FS_CardinalityType
  <2> QED  BY <1>2, <2>1
<1>4. PICK W \in [SUBSET S -> V] :
        \A s \in SUBSET S : Cardinality(s) <= Cardinality(S) => Right(W, s)
  BY <1>3
<1>5. \A s \in SUBSET S : Right(W, s)  BY <1>4, <1>c
<1>6. W = [s \in SUBSET S |-> IF s = {} THEN base ELSE F[<<ch[s], W[s \ {ch[s]}]>>]]
  <2> DEFINE R == [s \in SUBSET S |-> IF s = {} THEN base ELSE F[<<ch[s], W[s \ {ch[s]}]>>]]
  <2>1. DOMAIN W = SUBSET S /\ DOMAIN R = SUBSET S  OBVIOUS
  <2>2. \A s \in SUBSET S : W[s] = R[s]  BY <1>5
  <2> QED  BY <2>1, <2>2
<1> QED  BY <1>6 DEF IsFold

------------------------------------------------------------------------------
(* Books: functions from the ids that rest to [side, level, qty] *)

OrdersAt(book, side, level) ==
  {id \in {id \in DOMAIN book : book[id].side = side} : book[id].level = level}
DepthAt(book, side, level) ==
  MapThenSumSet(LAMBDA id : book[id].qty, OrdersAt(book, side, level))
LevelsOf(book, side) == {book[id].level : id \in {id \in DOMAIN book : book[id].side = side}}
BestLevel(book, side) ==
  IF LevelsOf(book, side) = {} THEN -1
  ELSE IF side = "Buy" THEN Max(LevelsOf(book, side)) ELSE Min(LevelsOf(book, side))

LEMMA SumOfQuantities ==
  ASSUME NEW S, IsFiniteSet(S), NEW book, NEW g, \A i \in S : g[i] = book[i].qty
  PROVE  MapThenSumSet(LAMBDA id : book[id].qty, S) = Total(g, S)
<1> DEFINE IsV(V) == V = [s \in SUBSET S |-> IF s = {} THEN 0
                            ELSE LET x == CHOOSE x \in s : TRUE IN book[x].qty + V[s \ {x}]]
           V == CHOOSE V : IsV(V)
<1>1. MapThenSumSet(LAMBDA id : book[id].qty, S) = V[S]
  BY DEF MapThenSumSet, MapThenFoldSet
<1>2. \A s \in SUBSET S : s # {} => (CHOOSE x \in s : TRUE) \in S  OBVIOUS
<1>3. \A W : IsV(W) <=> IsSum(W, g, S)  BY <1>2 DEF IsSum
<1>4. \E W : IsV(W)
  <2>1. PICK W : IsSum(W, g, S)  BY SumTableExists
  <2> HIDE DEF IsV
  <2> QED  BY <1>3, <2>1
<1>5. IsV(V)
  <2> HIDE DEF IsV
  <2> QED  BY <1>4
<1>6. IsSum(V, g, S) /\ S \in SUBSET S  BY <1>3, <1>5
<1> HIDE DEF V
<1> QED  BY <1>1, <1>6, TotalInTable

\* Two books that agree but for one id differ, at each level, by what that id has there.
LEMMA DepthOfOneMore ==
  ASSUME NEW b, NEW c, IsFiniteSet(DOMAIN b), IsFiniteSet(DOMAIN c),
         \A i \in DOMAIN b : b[i].qty \in Nat, \A i \in DOMAIN c : c[i].qty \in Nat,
         NEW id, DOMAIN b \ {id} = DOMAIN c \ {id}, \A i \in DOMAIN b \ {id} : b[i] = c[i],
         NEW side, NEW level
  PROVE  \E rest \in Nat :
           /\ DepthAt(b, side, level)
                = (IF id \in OrdersAt(b, side, level) THEN b[id].qty ELSE 0) + rest
           /\ DepthAt(c, side, level)
                = (IF id \in OrdersAt(c, side, level) THEN c[id].qty ELSE 0) + rest
<1> DEFINE A == OrdersAt(b, side, level)
           B == OrdersAt(c, side, level)
           R == A \ {id}
           g == [i \in A |-> b[i].qty]
           h == [i \in B |-> c[i].qty]
<1>1. A \subseteq DOMAIN b /\ B \subseteq DOMAIN c  BY DEF OrdersAt
<1>2. IsFiniteSet(A) /\ IsFiniteSet(B)  BY <1>1, FS_Subset
<1>3. IsFiniteSet(R)  BY <1>2, FS_Subset
<1>4. R = B \ {id}  BY DEF OrdersAt
<1>5. (\A i \in A : g[i] = b[i].qty /\ g[i] \in Nat /\ g[i] \in Int)
      /\ (\A i \in B : h[i] = c[i].qty /\ h[i] \in Nat /\ h[i] \in Int)
  BY <1>1
<1>6. \A i \in R : g[i] = h[i]
  <2> TAKE i \in R
  <2>1. i \in A /\ i \in B /\ i \in DOMAIN b \ {id}  BY <1>1, <1>4
  <2> QED  BY <1>5, <2>1
<1>7. DepthAt(b, side, level) = Total(g, A) /\ DepthAt(c, side, level) = Total(h, B)
  BY <1>2, <1>5, SumOfQuantities DEF DepthAt
<1> HIDE DEF g, h
<1>8. Total(g, R) = Total(h, R)  BY <1>3, <1>6, TotalsAgree
<1>9. Total(g, R) \in Nat
  <2>1. \A i \in R : g[i] \in Nat  BY <1>5
  <2> HIDE DEF R
  <2> QED  BY <1>3, <2>1, TotalNat
<1>10. Total(g, A) = (IF id \in A THEN b[id].qty ELSE 0) + Total(g, R)
  <2>1. CASE id \in A
    <3>1. \A i \in A : g[i] \in Int  BY <1>5
    <3> HIDE DEF A
    <3>2. Total(g, A) = g[id] + Total(g, R)  BY <1>2, <2>1, <3>1, TotalWithout
    <3> QED  BY <1>5, <2>1, <3>2
  <2>2. CASE id \notin A
    <3>1. R = A  BY <2>2
    <3> HIDE DEF R, A
    <3> QED  BY <1>9, <2>2, <3>1
  <2> QED  BY <2>1, <2>2
<1>11. Total(h, B) = (IF id \in B THEN c[id].qty ELSE 0) + Total(h, R)
  <2>1. CASE id \in B
    <3>1. \A i \in B : h[i] \in Int  BY <1>5
    <3>2. Total(h, B) = h[id] + Total(h, B \ {id})
      <4> HIDE DEF B
      <4> QED  BY <1>2, <2>1, <3>1, TotalWithout
    <3>3. Total(h, B) = h[id] + Total(h, R)  BY <1>4, <3>2
    <3> QED  BY <1>5, <2>1, <3>3
  <2>2. CASE id \notin B
    <3>1. R = B  BY <1>4, <2>2
    <3> HIDE DEF R, B
    <3> QED  BY <1>8, <1>9, <2>2, <3>1
  <2> QED  BY <2>1, <2>2
<1> HIDE DEF R, A, B
<1>12. DepthAt(b, side, level) = (IF id \in A THEN b[id].qty ELSE 0) + Total(g, R)
  BY <1>7, <1>10
<1>13. DepthAt(c, side, level) = (IF id \in B THEN c[id].qty ELSE 0) + Total(g, R)
  BY <1>7, <1>8, <1>11
<1> QED  BY <1>9, <1>12, <1>13 DEF A, B

\* A level has no quantity exactly when no order rests there.
LEMMA DepthZero ==
  ASSUME NEW b, IsFiniteSet(DOMAIN b), \A i \in DOMAIN b : b[i].qty \in Nat \ {0},
         NEW side, NEW level
  PROVE  /\ DepthAt(b, side, level) \in Nat
         /\ DepthAt(b, side, level) # 0 <=> level \in LevelsOf(b, side)
         /\ \A n \in Nat : (\A i \in DOMAIN b : b[i].qty <= n)
                           => DepthAt(b, side, level) <= Cardinality(DOMAIN b) * n
<1> DEFINE A == OrdersAt(b, side, level)
           g == [i \in A |-> b[i].qty]
<1>1. A \subseteq DOMAIN b  BY DEF OrdersAt
<1>2. IsFiniteSet(A)  BY <1>1, FS_Subset
<1>3. \A i \in A : g[i] = b[i].qty /\ g[i] \in Nat \ {0}  BY <1>1
<1>4. DepthAt(b, side, level) = Total(g, A)  BY <1>2, <1>3, SumOfQuantities DEF DepthAt
<1>5. level \in LevelsOf(b, side) <=> A # {}  BY DEF LevelsOf, OrdersAt
<1> HIDE DEF A, g
<1>6. Total(g, A) \in Nat  BY <1>2, <1>3, TotalNat
<1>7. A = {} => Total(g, A) = 0  BY TotalEmpty
<1>8. ASSUME NEW i \in A PROVE Total(g, A) # 0
  <2>1. \A j \in A : g[j] \in Nat  BY <1>3
  <2>2. Total(g, A) >= g[i]  BY <1>2, <2>1, TotalAtLeastTerm
  <2> QED  BY <1>3, <1>6, <2>2
<1>9. ASSUME NEW n \in Nat, \A i \in DOMAIN b : b[i].qty <= n
      PROVE  Total(g, A) <= Cardinality(DOMAIN b) * n
  <2>1. \A i \in A : g[i] \in 0 .. n  BY <1>1, <1>3, <1>9
  <2>2. Total(g, A) <= Cardinality(A) * n  BY <1>2, <2>1, TotalBounded
  <2>3. Cardinality(A) <= Cardinality(DOMAIN b) /\ Cardinality(A) \in Nat /\ Cardinality(DOMAIN b) \in Nat
    BY <1>1, <1>2, FS_Subset, FS_CardinalityType
  <2>4. \A k, m \in Nat : k <= m => k * n <= m * n
    <3> SUFFICES ASSUME NEW k \in Nat, NEW m \in Nat, k <= m PROVE k * n <= m * n  OBVIOUS
    <3>1. m - k \in Nat  OBVIOUS
    <3>2. (m - k) * n \in Nat  BY <3>1
    <3>3. (m - k) * n = m * n - k * n  OBVIOUS
    <3>4. m * n \in Nat /\ k * n \in Nat  OBVIOUS
    <3> QED  BY <3>2, <3>3, <3>4
  <2>5. Cardinality(A) * n \in Nat /\ Cardinality(DOMAIN b) * n \in Nat  BY <2>3
  <2>6. Cardinality(A) * n <= Cardinality(DOMAIN b) * n  BY <2>3, <2>4
  <2> QED  BY <1>6, <2>2, <2>5, <2>6
<1> QED  BY <1>4, <1>5, <1>6, <1>7, <1>8, <1>9

\* The best level is the extremal one at which an order rests.
LEMMA BestLevelIs ==
  ASSUME NEW n \in Nat, NEW b, NEW side, LevelsOf(b, side) \subseteq 0 .. n
  PROVE  /\ LevelsOf(b, side) = {} => BestLevel(b, side) = -1
         /\ LevelsOf(b, side) # {} =>
              /\ BestLevel(b, side) \in LevelsOf(b, side)
              /\ \A l \in LevelsOf(b, side) :
                   IF side = "Buy" THEN l <= BestLevel(b, side) ELSE BestLevel(b, side) <= l
         /\ \A x \in LevelsOf(b, side) :
              (\A l \in LevelsOf(b, side) : IF side = "Buy" THEN l <= x ELSE x <= l)
                => x = BestLevel(b, side)
<1> DEFINE L == LevelsOf(b, side)
           m == BestLevel(b, side)
<1>1. L = {} => m = -1  BY DEF BestLevel
<1>2. ASSUME L # {}
      PROVE  m \in L /\ \A l \in L : IF side = "Buy" THEN l <= m ELSE m <= l
  <2>1. L \subseteq Nat  OBVIOUS
  <2>2. Min(L) \in L /\ \A l \in L : Min(L) <= l
    <3> HIDE DEF L
    <3> QED  BY <1>2, <2>1, MinNat
  <2>3. Max(L) \in L /\ \A l \in L : Max(L) >= l
    <3>1. L \subseteq 0 .. n  OBVIOUS
    <3> HIDE DEF L
    <3> QED  BY <1>2, <3>1, MaxBounded
  <2> QED  BY <1>2, <2>1, <2>2, <2>3 DEF BestLevel
<1> HIDE DEF m
<1>3. ASSUME NEW x \in L, \A l \in L : IF side = "Buy" THEN l <= x ELSE x <= l PROVE x = m
  <2>1. m \in L /\ m \in Nat /\ x \in Nat  BY <1>2
  <2>2. CASE side = "Buy"  BY <1>2, <1>3, <2>1, <2>2
  <2>3. CASE side # "Buy"  BY <1>2, <1>3, <2>1, <2>3
  <2> QED  BY <2>2, <2>3
<1> QED  BY <1>1, <1>2, <1>3 DEF m

-----------------------------------------------------------------------------
(* Induction from below, and the sets a fold from the left passes through. *)

(* Upward induction, for a set of naturals. *)
LEMMA Upward ==
  ASSUME NEW n \in Nat, NEW P, 0 \in P, \A k \in 0 .. n - 1 : k \in P => k + 1 \in P
  PROVE  \A k \in 0 .. n : k \in P
<1> DEFINE Bad == {k \in 0 .. n : k \notin P}
<1>1. SUFFICES ASSUME Bad # {} PROVE FALSE
  OBVIOUS
<1>2. PICK k \in Bad : \A j \in Bad : k <= j
  <2>1. Bad \subseteq Nat
    OBVIOUS
  <2>2. QED
    BY <1>1, <2>1, LeastNat
<1>3. k \in 0 .. n /\ k \notin P /\ k # 0
  BY <1>2
<1>4. k - 1 \in 0 .. n - 1 /\ k - 1 \in 0 .. n /\ ~(k <= k - 1)
  BY <1>3
<1>5. k - 1 \in P
  BY <1>2, <1>4
<1>6. (k - 1) + 1 = k
  BY <1>3
<1>7. k \in P
  BY <1>4, <1>5, <1>6
<1>8. QED
  BY <1>3, <1>7

(* The sets a fold from the left passes through. *)
LEMMA Intervals ==
  ASSUME NEW k \in Nat, k # 0
  PROVE  Max(1 .. k) = k /\ (1 .. k) \ {k} = 1 .. k - 1 /\ 1 .. k # {}
<1>1. /\ 1 .. k \subseteq 0 .. k /\ k \in 1 .. k
      /\ (1 .. k) \ {k} = 1 .. k - 1 /\ 1 .. k # {}
  OBVIOUS
<1>2. Max(1 .. k) \in 1 .. k /\ Max(1 .. k) >= k
  BY <1>1, MaxBounded
<1>3. QED
  BY <1>1, <1>2

LEMMA LastTaken ==
  ASSUME NEW n \in Nat, NEW ch, ch = [t \in SUBSET (1 .. n) |-> Max(t)]
  PROVE  \A t \in SUBSET (1 .. n) : t # {} => ch[t] \in t
<1> SUFFICES ASSUME NEW t \in SUBSET (1 .. n), t # {} PROVE Max(t) \in t
  OBVIOUS
<1>1. t \subseteq 0 .. n
  OBVIOUS
<1>2. QED
  BY <1>1, MaxBounded

(* One more of v adds one to every sum that has v among its terms. *)
Counter(f, D) == f \in [D -> Nat]
OneMore(f, g, v) == g = [f EXCEPT ![v] = @ + 1]

LEMMA TotalOneMore ==
  ASSUME NEW D, NEW f, Counter(f, D), NEW g, NEW v, v \in D, OneMore(f, g, v)
  PROVE  \A S \in SUBSET D : IsFiniteSet(S) =>
           Total(g, S) = Total(f, S) + (IF v \in S THEN 1 ELSE 0)
<1> SUFFICES ASSUME NEW S \in SUBSET D, IsFiniteSet(S)
             PROVE  Total(g, S) = Total(f, S) + (IF v \in S THEN 1 ELSE 0)
  OBVIOUS
<1>0. f \in [D -> Nat]
  BY DEF Counter
<1>1. /\ g \in [D -> Nat] /\ g[v] = f[v] + 1
      /\ \A x \in D \ {v} : g[x] = f[x]
  BY <1>0 DEF OneMore
<1>2. CASE v \notin S
  <2>1. \A x \in S : g[x] = f[x]
    BY <1>1, <1>2
  <2>2. Total(g, S) = Total(f, S)
    BY <2>1, TotalsAgree
  <2>3. Total(f, S) \in Int
    <3>1. \A x \in S : f[x] \in Int
      BY <1>0
    <3>2. QED
      BY <3>1, TotalInt
  <2>4. QED
    BY <1>2, <2>2, <2>3
<1>3. CASE v \in S
  <2>1. IsFiniteSet(S \ {v})
    BY FS_RemoveElement
  <2>2. /\ \A x \in S : f[x] \in Int
        /\ \A x \in S : g[x] \in Int
        /\ \A x \in S \ {v} : f[x] \in Int
        /\ \A x \in S \ {v} : g[x] = f[x]
    BY <1>0, <1>1
  <2>3. Total(g, S) = g[v] + Total(g, S \ {v})
    BY <1>3, <2>2, TotalWithout
  <2>4. Total(f, S) = f[v] + Total(f, S \ {v})
    BY <1>3, <2>2, TotalWithout
  <2>5. Total(g, S \ {v}) = Total(f, S \ {v})
    BY <2>1, <2>2, TotalsAgree
  <2>6. Total(f, S \ {v}) \in Int
    BY <2>1, <2>2, TotalInt
  <2>7. f[v] \in Int
    BY <1>3, <2>2
  <2>8. QED
    BY <1>1, <1>3, <2>3, <2>4, <2>5, <2>6, <2>7
<1>4. QED
  BY <1>2, <1>3

(* A sum taken over places instead of what they lead to. *)
LEMMA TotalReindexed ==
  ASSUME NEW S, IsFiniteSet(S), NEW H, NEW z, NEW w,
         \A x \in S : w[x] \in Int /\ z[H[x]] = w[x], \A x, y \in S : H[x] = H[y] => x = y
  PROVE  Total(z, {H[x] : x \in S}) = Total(w, S)
<1> DEFINE Image(s) == {H[x] : x \in s}
           Bad == {n \in Nat : \E s \in SUBSET S : Cardinality(s) = n /\ Total(z, Image(s)) # Total(w, s)}
<1>1. ASSUME Bad # {} PROVE FALSE
  <2>1. PICK m \in Bad : \A k \in Bad : m <= k
    BY <1>1, LeastNat
  <2>2. PICK s \in SUBSET S : Cardinality(s) = m /\ Total(z, Image(s)) # Total(w, s)
    BY <2>1
  <2>3. IsFiniteSet(s) /\ \A x \in s : w[x] \in Int
    BY FS_Subset
  <2>4. s # {}
    <3>1. SUFFICES ASSUME s = {} PROVE FALSE
      OBVIOUS
    <3>2. Image(s) = {}
      BY <3>1
    <3>3. Total(z, {}) = 0 /\ Total(w, {}) = 0
      BY TotalEmpty
    <3>4. Total(z, Image(s)) = 0 /\ Total(w, s) = 0
      BY <3>1, <3>2, <3>3
    <3>5. QED
      BY <2>2, <3>4
  <2>5. PICK a \in s : TRUE
    BY <2>4
  <2>6. Cardinality(s \ {a}) = m - 1 /\ IsFiniteSet(s \ {a})
    BY <2>2, <2>3, FS_RemoveElement
  <2>7. m - 1 \in Nat /\ m - 1 \notin Bad
    <3>1. m - 1 \in Nat /\ m \in Nat
      BY <2>6, FS_CardinalityType
    <3>2. ~(m <= m - 1)
      BY <3>1
    <3> HIDE DEF Bad
    <3>3. QED
      BY <2>1, <3>1, <3>2
  <2>8. Total(z, Image(s \ {a})) = Total(w, s \ {a})
    BY <2>6, <2>7
  <2>9. Total(w, s) = w[a] + Total(w, s \ {a})
    BY <2>3, TotalWithout
  <2>10. H[a] \in Image(s) /\ Image(s) \ {H[a]} = Image(s \ {a})
    <3>1. \A x \in s : H[x] = H[a] <=> x = a
      OBVIOUS
    <3>2. QED
      BY <3>1
  <2>11. IsFiniteSet(Image(s))
    <3>1. PICK J : J = [q \in s |-> H[q]]
      OBVIOUS
    <3>2. J \in Surjection(s, Image(s))
      BY <3>1 DEF Surjection
    <3>3. QED
      BY <2>3, <3>2, FS_Surjection
  <2>12. \A v \in Image(s) : z[v] \in Int
    BY <2>3
  <2>13. Total(z, Image(s)) = z[H[a]] + Total(z, Image(s \ {a}))
    <3> HIDE DEF Image
    <3>1. Total(z, Image(s)) = z[H[a]] + Total(z, Image(s) \ {H[a]})
      BY <2>10, <2>11, <2>12, TotalWithout
    <3>2. QED
      BY <2>10, <3>1
  <2>14. z[H[a]] = w[a]
    OBVIOUS
  <2>15. QED
    BY <2>2, <2>8, <2>9, <2>13, <2>14
<1>2. S \in SUBSET S /\ Cardinality(S) \in Nat
  BY FS_CardinalityType
<1>3. QED
  BY <1>1, <1>2

-----------------------------------------------------------------------------
(* A sequence without its element number p. *)
LEMMA RemoveAtIs ==
  ASSUME NEW S, NEW s \in Seq(S), NEW p \in 1 .. Len(s)
  PROVE  /\ RemoveAt(s, p) \in Seq(S) /\ Len(RemoveAt(s, p)) = Len(s) - 1
         /\ DOMAIN RemoveAt(s, p) = 1 .. Len(s) - 1
         /\ \A k \in 1 .. Len(s) - 1 : RemoveAt(s, p)[k] = IF k < p THEN s[k] ELSE s[k + 1]
<1> DEFINE a == SubSeq(s, 1, p - 1)
           b == SubSeq(s, p + 1, Len(s))
           n == Len(s)
<1>1. n \in Nat /\ p \in Nat /\ 1 <= p /\ p <= n /\ \A k \in 1 .. n : s[k] \in S
  OBVIOUS
<1>2. a \in Seq(S) /\ Len(a) = p - 1 /\ \A k \in 1 .. p - 1 : a[k] = s[k]
  <2>1. \A k \in 1 .. p - 1 : s[k] \in S
    BY <1>1
  <2>2. /\ a \in Seq(S) /\ Len(a) = (IF 1 <= p - 1 THEN p - 1 - 1 + 1 ELSE 0)
        /\ \A k \in 1 .. p - 1 - 1 + 1 : a[k] = s[1 + k - 1]
    BY <1>1, <2>1, SubSeqProperties
  <2>3. QED
    BY <1>1, <2>2
<1>3. b \in Seq(S) /\ Len(b) = n - p /\ \A k \in 1 .. n - p : b[k] = s[p + k]
  <2>1. \A k \in p + 1 .. n : s[k] \in S
    BY <1>1
  <2>2. /\ b \in Seq(S) /\ Len(b) = (IF p + 1 <= n THEN n - (p + 1) + 1 ELSE 0)
        /\ \A k \in 1 .. n - (p + 1) + 1 : b[k] = s[(p + 1) + k - 1]
    BY <1>1, <2>1, SubSeqProperties
  <2>3. QED
    BY <1>1, <2>2
<1>4. RemoveAt(s, p) = a \o b
  BY DEF RemoveAt
<1> HIDE DEF a, b, n
<1>5. /\ a \o b \in Seq(S) /\ Len(a \o b) = Len(a) + Len(b)
      /\ \A k \in 1 .. Len(a) + Len(b) : (a \o b)[k] = IF k <= Len(a) THEN a[k] ELSE b[k - Len(a)]
  BY <1>2, <1>3, ConcatProperties
<1>6. Len(a \o b) = n - 1
  BY <1>1, <1>2, <1>3, <1>5
<1>7. ASSUME NEW k \in 1 .. n - 1 PROVE (a \o b)[k] = IF k < p THEN s[k] ELSE s[k + 1]
  <2>1. k \in 1 .. Len(a) + Len(b)
    BY <1>1, <1>2, <1>3
  <2>2. CASE k < p
    BY <1>1, <1>2, <1>5, <2>1, <2>2
  <2>3. CASE ~(k < p)
    <3>1. ~(k <= Len(a)) /\ k - Len(a) \in 1 .. n - p /\ p + (k - Len(a)) = k + 1
      BY <1>1, <1>2, <2>3
    <3>2. (a \o b)[k] = b[k - Len(a)]
      BY <1>5, <2>1, <3>1
    <3>3. b[k - Len(a)] = s[k + 1]
      BY <1>3, <3>1
    <3>4. QED
      BY <2>3, <3>2, <3>3
  <2>4. QED
    BY <2>2, <2>3
<1>8. RemoveAt(s, p) \in Seq(S) /\ Len(RemoveAt(s, p)) = n - 1
  BY <1>4, <1>5, <1>6
<1>9. DOMAIN RemoveAt(s, p) = 1 .. n - 1
  BY <1>8, LenProperties
<1>10. \A k \in 1 .. n - 1 : RemoveAt(s, p)[k] = IF k < p THEN s[k] ELSE s[k + 1]
  BY <1>4, <1>7
<1>11. QED
  BY <1>8, <1>9, <1>10 DEF n
=============================================================================
