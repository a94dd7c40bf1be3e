------------------------------- MODULE Induction -------------------------------
(***************************************************************************)
(* Induction over the naturals, for membership in a set, and the existence *)
(* of functions that are defined by recursion: what the proofs about       *)
(* recursive functions rest on.  And how many of some places come before   *)
(* another, and products of the first factors of a list.                   *)
(***************************************************************************)
EXTENDS Counting, FiniteSetTheorems, NaturalsInduction, WellFoundedInduction, TLAPS

\* Induction over the naturals, for membership in a set.
LEMMA SetInduction ==
    ASSUME NEW S, 0 \in S, \A n \in Nat : n \in S => n + 1 \in S
    PROVE  \A n \in Nat : n \in S
<1> DEFINE T == {n \in Nat : n \notin S}
<1> SUFFICES ASSUME T # {}
             PROVE  FALSE
  OBVIOUS
<1>1. PICK m \in T : \A k \in T : <<k, m>> \notin OpToRel(<, Nat)
  BY WFMin, NatLessThanWellFounded, Zenon
<1>2. \A k \in T : ~(k < m)
  BY <1>1, Zenon DEF OpToRel
<1>3. m # 0 /\ m - 1 \in Nat /\ m - 1 < m
  OBVIOUS
<1>4. m - 1 \in S
  BY <1>2, <1>3
<1> QED
  BY <1>3, <1>4

\* f starts at a, and G yields each further value from the one before.
IsRecursion(f, V, a, n, G) ==
    /\ f \in [0..n -> V]
    /\ \A p \in 0..n : f[p] = IF p = 0 THEN a ELSE G[<<f[p - 1], p>>]

\* Such a function exists if G stays in V.
LEMMA RecursionExists ==
    ASSUME NEW V, NEW a \in V, NEW n \in Nat, NEW G,
           \A v \in V, p \in 1..n : G[<<v, p>>] \in V
    PROVE  \E f : IsRecursion(f, V, a, n, G)
<1> DEFINE Up(m) == \E f \in [0..m -> V] :
                       \A p \in 0..m : f[p] = IF p = 0 THEN a ELSE G[<<f[p - 1], p>>]
           S == {m \in Nat : m <= n => Up(m)}
<1>1. 0 \in S
  <2> DEFINE f == [p \in 0..0 |-> a]
  <2>1. f \in [0..0 -> V] /\ \A p \in 0..0 : p = 0 /\ f[p] = a
    OBVIOUS
  <2> QED
    BY <2>1
<1>2. ASSUME NEW m \in Nat, m \in S
      PROVE  m + 1 \in S
  <2> SUFFICES ASSUME m + 1 <= n
               PROVE  Up(m + 1)
    OBVIOUS
  <2>1. PICK f \in [0..m -> V] :
           \A p \in 0..m : f[p] = IF p = 0 THEN a ELSE G[<<f[p - 1], p>>]
    BY <1>2
  <2> DEFINE g == [p \in 0..(m + 1) |-> IF p = m + 1 THEN G[<<f[m], m + 1>>] ELSE f[p]]
  <2>2. G[<<f[m], m + 1>>] \in V
    OBVIOUS
  <2>3. g \in [0..(m + 1) -> V]
    BY <2>2
  <2>4. ASSUME NEW p \in 0..(m + 1)
        PROVE  g[p] = IF p = 0 THEN a ELSE G[<<g[p - 1], p>>]
    <3>1. CASE p = m + 1
      BY <3>1
    <3>2. CASE p \in 0..m
      <4>1. g[p] = f[p] /\ (p # 0 => g[p - 1] = f[p - 1])
        BY <3>2
      <4> QED
        BY <2>1, <3>2, <4>1
    <3> QED
      BY <3>1, <3>2
  <2> QED
    BY <2>3, <2>4
<1>3. n \in S
  <2> HIDE DEF S
  <2> QED
    BY <1>1, <1>2, SetInduction
<1> QED
  BY <1>3 DEF IsRecursion

\* A remainder is below the divisor.
LEMMA ModBelow ==
    ASSUME NEW a \in Nat, NEW w \in Nat \ {0, 1}
    PROVE  a % w \in 0..(w - 1)
  BY SMT

\* The products of the first factors: each is the one before times a factor.
AreProducts(r, c, n, w) ==
    /\ r \in [0..n -> 0..(w - 1)]
    /\ \A p \in 0..n : r[p] = IF p = 0 THEN 1 ELSE (r[p - 1] * c[p]) % w

\* WordProducts are these.
LEMMA WordProductsStep ==
    ASSUME NEW n \in Nat, NEW w \in Nat \ {0, 1}, NEW c \in [1..n -> Nat]
    PROVE  AreProducts(WordProducts(c, n, w), c, n, w)
<1> DEFINE V == 0..(w - 1)
           G == [x \in V \X (1..n) |-> (x[1] * c[x[2]]) % w]
           Body(r) == [p \in 0..n |->
                          IF p = 0 THEN 1 ELSE (r[p - 1] * c[p]) % w]
<1>1. n \in Nat /\ w \in Nat /\ 1 \in V
  OBVIOUS
<1>2. ASSUME NEW v \in V, NEW p \in 1..n
      PROVE  G[<<v, p>>] = (v * c[p]) % w /\ G[<<v, p>>] \in V
  <2>1. v \in Nat /\ c[p] \in Nat /\ p \in 1..n
    BY <1>1
  <2>2. v * c[p] \in Nat
    BY <2>1
  <2> QED
    BY <2>1, <2>2, ModBelow
<1>3. PICK f \in [0..n -> V] :
         \A p \in 0..n : f[p] = IF p = 0 THEN 1 ELSE G[<<f[p - 1], p>>]
  <2>1. \A v \in V, p \in 1..n : G[<<v, p>>] \in V
    BY <1>2
  <2> HIDE DEF G, V
  <2>2. \E f : IsRecursion(f, V, 1, n, G)
    BY <1>1, <2>1, RecursionExists
  <2> QED
    BY <2>2 DEF IsRecursion
<1>4. \A p \in 0..n : f[p] = IF p = 0 THEN 1 ELSE (f[p - 1] * c[p]) % w
  <2> SUFFICES ASSUME NEW p \in 0..n, p # 0
               PROVE  f[p] = (f[p - 1] * c[p]) % w
    BY <1>3
  <2>1. f[p - 1] \in V /\ p \in 1..n
    BY <1>1, <1>3
  <2> QED
    BY <1>2, <1>3, <2>1
<1>5. f = Body(f)
  <2>1. f = [p \in 0..n |-> f[p]]
    BY <1>3
  <2> QED
    BY <1>4, <2>1
<1> DEFINE r == CHOOSE g : g = Body(g)
<1>6. r = Body(r)
  <2> HIDE DEF Body
  <2> QED
    BY <1>5, Zenon
<1>7. WordProducts(c, n, w) = r
  BY Zenon DEF WordProducts
<1> HIDE DEF r
<1>8. \A p \in 0..n : r[p] = IF p = 0 THEN 1 ELSE (r[p - 1] * c[p]) % w
  BY <1>6
<1>9. \A p \in Nat : p \in {m \in Nat : m <= n => r[m] \in V}
  <2> DEFINE S == {m \in Nat : m <= n => r[m] \in V}
  <2>1. 0 \in S
    BY <1>1, <1>8
  <2>2. ASSUME NEW m \in Nat, m \in S
        PROVE  m + 1 \in S
    <3> SUFFICES ASSUME m + 1 <= n
                 PROVE  r[m + 1] \in V
      OBVIOUS
    <3>1. r[m] \in Nat /\ c[m + 1] \in Nat
      BY <1>1, <2>2
    <3>2. r[m + 1] = (r[m] * c[m + 1]) % w
      BY <1>1, <1>8
    <3>3. r[m] * c[m + 1] \in Nat
      BY <3>1
    <3> QED
      BY <3>2, <3>3, ModBelow
  <2> HIDE DEF S
  <2>3. \A p \in Nat : p \in S
    BY <2>1, <2>2, SetInduction
  <2> QED
    BY <2>3 DEF S
<1>10. r \in [0..n -> V]
  <2>1. r = [p \in 0..n |-> r[p]]
    BY <1>6
  <2>2. \A p \in 0..n : r[p] \in V
    BY <1>1, <1>9
  <2> QED
    BY <2>1, <2>2
<1> QED
  BY <1>7, <1>8, <1>10 DEF AreProducts

\* Once a product is 0, the last one is 0 as well.
LEMMA WordProductsZero ==
    ASSUME NEW n \in Nat, NEW w \in Nat \ {0, 1}, NEW c \in [1..n -> Nat],
           NEW p \in 0..n, WordProducts(c, n, w)[p] = 0
    PROVE  WordProducts(c, n, w)[n] = 0
<1> DEFINE r == WordProducts(c, n, w)
           S == {m \in Nat : p + m <= n => r[p + m] = 0}
<1>1. AreProducts(r, c, n, w)
  BY WordProductsStep
<1> HIDE DEF r
<1>2. 0 \in S
  <2>1. p + 0 = p
    OBVIOUS
  <2> QED
    BY <2>1 DEF r
<1>3. ASSUME NEW m \in Nat, m \in S
      PROVE  m + 1 \in S
  <2> SUFFICES ASSUME p + (m + 1) <= n
               PROVE  r[p + (m + 1)] = 0
    OBVIOUS
  <2>1. p + (m + 1) \in 1..n /\ p + (m + 1) \in 0..n
        /\ p + (m + 1) # 0 /\ p + (m + 1) - 1 = p + m
    OBVIOUS
  <2>2. r[p + m] = 0
    BY <1>3
  <2>3. r[p + (m + 1)] = (r[p + m] * c[p + (m + 1)]) % w
    BY <1>1, <2>1 DEF AreProducts
  <2>4. c[p + (m + 1)] \in Nat
    BY <2>1
  <2>5. 0 * c[p + (m + 1)] = 0 /\ 0 % w = 0
    BY <2>4
  <2> QED
    BY <2>2, <2>3, <2>5
<1>4. \A m \in Nat : m \in S
  <2> HIDE DEF S
  <2> QED
    BY <1>2, <1>3, SetInduction
<1>5. n - p \in Nat /\ p + (n - p) = n
  OBVIOUS
<1>6. r[n] = 0
  BY <1>4, <1>5
<1> QED
  BY <1>6 DEF r

\* Induction from all smaller numbers.
LEMMA StrongInduction ==
    ASSUME NEW S, \A n \in Nat : (\A m \in 0..(n - 1) : m \in S) => n \in S
    PROVE  \A n \in Nat : n \in S
<1> DEFINE T == {n \in Nat : \A m \in 0..n : m \in S}
<1>1. 0 \in T
  <2>1. \A m \in 0..(0 - 1) : m \in S
    OBVIOUS
  <2>2. 0 \in S
    BY <2>1
  <2> QED
    BY <2>2
<1>2. ASSUME NEW n \in Nat, n \in T
      PROVE  n + 1 \in T
  <2>1. \A m \in 0..((n + 1) - 1) : m \in S
    BY <1>2
  <2>2. n + 1 \in S
    BY <2>1
  <2> QED
    BY <1>2, <2>2
<1>3. \A n \in Nat : n \in T
  <2> HIDE DEF T
  <2> QED
    BY <1>1, <1>2, SetInduction
<1> QED
  BY <1>3

\* Of some numbers one is the least.
LEMMA LeastExists ==
    ASSUME NEW S \in SUBSET Nat, S # {}
    PROVE  \E m \in S : \A k \in S : m <= k
<1>1. PICK m \in S : \A k \in S : <<k, m>> \notin OpToRel(<, Nat)
  BY WFMin, NatLessThanWellFounded, Zenon
<1>2. \A k \in S : ~(k < m)
  BY <1>1, Zenon DEF OpToRel
<1> QED
  BY <1>2
-------------------------------------------------------------------------------
(***************************************************************************)
(* How many of some places come before one.                                *)
(***************************************************************************)
\* There is a count, and it is a number.
LEMMA BeforeNat ==
    ASSUME NEW n \in Nat, NEW P \in SUBSET (1..n), NEW i
    PROVE  IsFiniteSet({j \in P : j < i}) /\ Before(P, i) \in Nat
<1>1. IsFiniteSet(1..n)
  BY FS_Interval
<1>2. {j \in P : j < i} \in SUBSET (1..n)
  OBVIOUS
<1>3. IsFiniteSet({j \in P : j < i})
  BY <1>1, <1>2, FS_Subset
<1> QED
  BY <1>3, FS_CardinalityType DEF Before

\* It goes up by one at each of the places.
LEMMA BeforeStep ==
    ASSUME NEW n \in Nat, NEW P \in SUBSET (1..n), NEW i \in Nat
    PROVE  Before(P, i + 1) = IF i \in P THEN Before(P, i) + 1 ELSE Before(P, i)
<1>0. \A j \in P : j \in Int /\ 1 <= j /\ j <= n
  OBVIOUS
<1>1. IsFiniteSet({j \in P : j < i})
  BY BeforeNat
<1>2. CASE i \in P
  <2>1. {j \in P : j < i + 1} = {j \in P : j < i} \cup {i} /\ i \notin {j \in P : j < i}
    <3>1. (\A j \in P : j < i + 1 <=> j < i \/ j = i) /\ ~(i < i)
      BY <1>0, <1>2
    <3> QED
      BY <1>2, <3>1, Zenon
  <2> QED
    BY <1>1, <1>2, <2>1, FS_AddElement DEF Before
<1>3. CASE i \notin P
  <2>1. {j \in P : j < i + 1} = {j \in P : j < i}
    <3>1. \A j \in P : j < i + 1 <=> j < i
      BY <1>0, <1>3
    <3> QED
      BY <3>1, Zenon
  <2> QED
    BY <1>3, <2>1 DEF Before
<1> QED
  BY <1>2, <1>3

\* None comes before the first.
LEMMA BeforeFirst ==
    ASSUME NEW n \in Nat, NEW P \in SUBSET (1..n)
    PROVE  Before(P, 1) = 0
<1>0. \A j \in P : j \in Int /\ 1 <= j /\ j <= n
  OBVIOUS
<1>1. {j \in P : j < 1} = {}
  <2>1. \A j \in P : ~(j < 1)
    BY <1>0
  <2> QED
    BY <2>1, Zenon
<1> QED
  BY <1>1, FS_EmptySet DEF Before

\* All come before the end.
LEMMA BeforeAll ==
    ASSUME NEW n \in Nat, NEW P \in SUBSET (1..n)
    PROVE  Before(P, n + 1) = Cardinality(P)
<1>0. \A j \in P : j \in Int /\ 1 <= j /\ j <= n
  OBVIOUS
<1>1. {j \in P : j < n + 1} = P
  <2>1. \A j \in P : j < n + 1
    BY <1>0
  <2> QED
    BY <2>1, Zenon
<1> QED
  BY <1>1 DEF Before

\* Each place before i is one of the places or one of the others.
LEMMA BeforeSplit ==
    ASSUME NEW n \in Nat, NEW P \in SUBSET (1..n)
    PROVE  \A i \in 1..(n + 1) : Before(P, i) + Before((1..n) \ P, i) = i - 1
<1> DEFINE Q == (1..n) \ P
           S == {k \in Nat : k <= n => Before(P, k + 1) + Before(Q, k + 1) = k}
<1>1. Q \in SUBSET (1..n)
  OBVIOUS
<1>2. 0 \in S
  <2>1. Before(P, 1) = 0 /\ Before(Q, 1) = 0
    BY <1>1, BeforeFirst
  <2>2. Before(P, 1) + Before(Q, 1) = 0
    BY <2>1
  <2>3. 0 + 1 = 1
    OBVIOUS
  <2>4. Before(P, 0 + 1) + Before(Q, 0 + 1) = 0
    BY <2>2, <2>3, Zenon
  <2> QED
    BY <2>4
<1>3. ASSUME NEW k \in Nat, k \in S
      PROVE  k + 1 \in S
  <2> SUFFICES ASSUME k + 1 <= n
               PROVE  Before(P, k + 1 + 1) + Before(Q, k + 1 + 1) = k + 1
    OBVIOUS
  <2>1. Before(P, k + 1) + Before(Q, k + 1) = k
    BY <1>3
  <2>2. Before(P, k + 1) \in Nat /\ Before(Q, k + 1) \in Nat
    BY <1>1, BeforeNat
  <2>3. k + 1 \in Nat /\ (k + 1 \in Q <=> k + 1 \notin P)
    OBVIOUS
  <2>4. Before(P, k + 1 + 1) = IF k + 1 \in P THEN Before(P, k + 1) + 1 ELSE Before(P, k + 1)
    BY <2>3, BeforeStep
  <2>5. Before(Q, k + 1 + 1) = IF k + 1 \in Q THEN Before(Q, k + 1) + 1 ELSE Before(Q, k + 1)
    BY <1>1, <2>3, BeforeStep
  <2> HIDE DEF Q
  <2>6. PICK p, q, up, uq : /\ p = Before(P, k + 1) /\ q = Before(Q, k + 1)
                            /\ up = Before(P, k + 1 + 1) /\ uq = Before(Q, k + 1 + 1)
    OBVIOUS
  <2>7. up + uq = k + 1
    BY <2>1, <2>2, <2>3, <2>4, <2>5, <2>6
  <2> QED
    BY <2>6, <2>7
<1>4. \A k \in Nat : k \in S
  <2> HIDE DEF S
  <2> QED
    BY <1>2, <1>3, SetInduction
<1>5. ASSUME NEW i \in 1..(n + 1)
      PROVE  Before(P, i) + Before(Q, i) = i - 1
  <2>1. i - 1 \in Nat /\ i - 1 <= n /\ i - 1 + 1 = i
    OBVIOUS
  <2>2. i - 1 \in S
    BY <1>4, <2>1
  <2> QED
    BY <2>1, <2>2
<1> QED
  BY <1>5

\* The count grows with i, past each of the places by one at least.
LEMMA BeforeGrows ==
    ASSUME NEW n \in Nat, NEW P \in SUBSET (1..n), NEW i \in Int, NEW j \in Int, i < j
    PROVE  /\ Before(P, i) <= Before(P, j)
           /\ i \in P => Before(P, i) < Before(P, j)
<1>0. \A k \in P : k \in Int /\ 1 <= k /\ k <= n
  OBVIOUS
<1>1. IsFiniteSet({k \in P : k < i}) /\ IsFiniteSet({k \in P : k < j})
  BY BeforeNat
<1>2. {k \in P : k < i} \in SUBSET {k \in P : k < j}
  <2>1. \A k \in P : k < i => k < j
    BY <1>0
  <2> QED
    BY <2>1, Zenon
<1>3. Cardinality({k \in P : k < i}) <= Cardinality({k \in P : k < j})
  BY <1>1, <1>2, FS_Subset
<1>4. i \in P => Cardinality({k \in P : k < i}) # Cardinality({k \in P : k < j})
  <2>1. i \in P => {k \in P : k < i} # {k \in P : k < j}
    OBVIOUS
  <2> QED
    BY <1>1, <1>2, <2>1, FS_Subset
<1>5. Before(P, i) \in Nat /\ Before(P, j) \in Nat
  BY BeforeNat
<1> QED
  BY <1>3, <1>4, <1>5 DEF Before

\* In a run of the places the count goes up by one each.
LEMMA BeforeRun ==
    ASSUME NEW n \in Nat, NEW P \in SUBSET (1..n), NEW o \in Nat, NEW m \in Nat,
           \A k \in o..(o + m - 1) : k \in P
    PROVE  Before(P, o + m) = Before(P, o) + m
<1> DEFINE S == {d \in Nat : d <= m => Before(P, o + d) = Before(P, o) + d}
<1>1. Before(P, o) \in Nat
  BY BeforeNat
<1>2. 0 \in S
  <2>1. o + 0 = o /\ Before(P, o) + 0 = Before(P, o)
    BY <1>1
  <2>2. Before(P, o + 0) = Before(P, o) + 0
    BY <2>1, Zenon
  <2> QED
    BY <2>2
<1>3. ASSUME NEW d \in Nat, d \in S
      PROVE  d + 1 \in S
  <2> SUFFICES ASSUME d + 1 <= m
               PROVE  Before(P, o + (d + 1)) = Before(P, o) + (d + 1)
    OBVIOUS
  <2>1. o + d \in P /\ o + d \in Nat /\ o + (d + 1) = o + d + 1
    OBVIOUS
  <2>2. Before(P, o + d + 1) = Before(P, o + d) + 1
    BY <2>1, BeforeStep
  <2>3. Before(P, o + d) = Before(P, o) + d
    BY <1>3
  <2>4. Before(P, o) + d + 1 = Before(P, o) + (d + 1)
    BY <1>1
  <2> QED
    BY <2>1, <2>2, <2>3, <2>4
<1>4. m \in S
  <2> HIDE DEF S
  <2> QED
    BY <1>2, <1>3, SetInduction
<1> QED
  BY <1>4

\* Each count up to that of all belongs to one of the places.
LEMMA BeforeFinds ==
    ASSUME NEW n \in Nat, NEW P \in SUBSET (1..n), NEW k \in 1..Cardinality(P)
    PROVE  \E i \in P : Before(P, i) = k - 1
<1> DEFINE T == {i \in Nat : i <= n + 1 /\ Before(P, i) >= k}
<1>0. k \in Nat /\ k <= Cardinality(P)
  <2>1. Before(P, n + 1) = Cardinality(P) /\ Before(P, n + 1) \in Nat
    BY BeforeAll, BeforeNat
  <2> QED
    BY <2>1
<1>1. n + 1 \in T
  <2>1. Before(P, n + 1) = Cardinality(P) /\ Before(P, n + 1) \in Nat
    BY BeforeAll, BeforeNat
  <2> QED
    BY <2>1
<1>2. \A i \in Nat : i <= 1 => i \notin T
  <2>1. Before(P, 1) = 0
    BY BeforeFirst
  <2>2. Before(P, 0) = 0
    <3>1. Before(P, 0) \in Nat /\ Before(P, 0 + 1) \in {Before(P, 0), Before(P, 0) + 1}
      BY BeforeNat, BeforeStep
    <3>2. 0 + 1 = 1 /\ 0 \notin P
      OBVIOUS
    <3>3. Before(P, 0 + 1) = Before(P, 0)
      BY <3>2, BeforeStep
    <3> QED
      BY <2>1, <3>2, <3>3
  <2>3. \A i \in Nat : i <= 1 => i = 0 \/ i = 1
    OBVIOUS
  <2> QED
    BY <2>1, <2>2, <2>3
<1> HIDE DEF T
<1>3. T \in SUBSET Nat
  BY DEF T
<1>4. PICK i \in T : \A j \in T : i <= j
  BY <1>1, <1>3, LeastExists
<1>5. PICK m \in Nat : i = m + 1
  <2>1. i \in Nat /\ i > 1
    BY <1>2, <1>3, <1>4
  <2>2. i - 1 \in Nat /\ i = i - 1 + 1
    BY <2>1
  <2> QED
    BY <2>2
<1>6. m <= n + 1 /\ Before(P, m) \in Nat /\ ~(Before(P, m) >= k)
  <2>1. m \notin T
    BY <1>4, <1>5
  <2>2. m + 1 <= n + 1
    BY <1>4, <1>5 DEF T
  <2>3. Before(P, m) \in Nat
    BY BeforeNat
  <2>4. m <= n + 1
    BY <2>2
  <2> QED
    BY <2>1, <2>3, <2>4 DEF T
<1>7. Before(P, m + 1) >= k
  BY <1>4, <1>5 DEF T
<1>8. Before(P, m + 1) = IF m \in P THEN Before(P, m) + 1 ELSE Before(P, m)
  BY BeforeStep
<1>9. m \in P /\ Before(P, m) = k - 1
  <2>1. PICK b, c : b \in Nat /\ b = Before(P, m) /\ c = Before(P, m + 1)
    BY <1>6
  <2>2. ~(b >= k) /\ c >= k /\ c = IF m \in P THEN b + 1 ELSE b
    BY <1>6, <1>7, <1>8, <2>1
  <2>3. m \in P /\ b = k - 1
    BY <1>0, <2>1, <2>2
  <2> QED
    BY <2>1, <2>3
<1> QED
  BY <1>9
===============================================================================
