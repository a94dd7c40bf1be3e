-------------------------- MODULE ParamSweep_proofs --------------------------
(***************************************************************************)
(* Proofs about the parameter sweep, for every number of parameters, every *)
(* word size, all counts, totals and indices.                              *)
(***************************************************************************)
EXTENDS ParamSweepProps, Induction, FiniteSetTheorems, TLAPS

-----------------------------------------------------------------------------
(***************************************************************************)
(* Arithmetic of the word.                                                 *)
(***************************************************************************)
\* Quotients and remainders of naturals.
LEMMA DivisionBounds ==
    ASSUME NEW a \in Nat, NEW b \in Nat \ {0}
    PROVE  /\ a \div b \in Nat
           /\ a % b \in 0..(b - 1)
           /\ b * (a \div b) <= a
  BY SMT

\* A remainder is not above the dividend.
LEMMA ModBounds ==
    ASSUME NEW a \in Nat, NEW b \in Nat \ {0}
    PROVE  a % b \in Nat /\ a % b <= a
  BY SMT

\* Multiplication keeps the order.
LEMMA TimesMonotone ==
    ASSUME NEW a \in Nat, NEW b \in Nat, NEW c \in Nat, a <= b
    PROVE  c * a <= c * b
  BY SMT

\* A quotient is not above the dividend.
LEMMA QuotientBelow ==
    ASSUME NEW a \in Nat, NEW b \in Nat \ {0}
    PROVE  a \div b \in Nat /\ a \div b <= a
<1> DEFINE q == a \div b
<1>1. q \in Nat /\ b * q <= a
  BY DivisionBounds
<1> HIDE DEF q
<1>2. q * 1 <= q * b
  BY <1>1, TimesMonotone
<1>3. q * 1 = q /\ q * b = b * q /\ b * q \in Nat
  BY <1>1
<1> QED
  BY <1>1, <1>2, <1>3 DEF q

\* What size_t makes of a number.
LEMMA ModWord ==
    ASSUME NEW a \in Nat
    PROVE  a % Word \in 0..(Word - 1) /\ a % Word <= a
  BY SweepAssumption, IndexAssumption, SMT

\* A quotient is below every number that bounds the dividend.
LEMMA QuotientBound ==
    ASSUME NEW a \in Nat, NEW b \in Nat \ {0}, NEW c \in Nat, a < b * c
    PROVE  a \div b < c
<1> DEFINE q == a \div b
<1>1. q \in Nat /\ b * q <= a
  BY DivisionBounds
<1>2. ~(c <= q)
  <2> HIDE DEF q
  <2>1. b * q \in Nat /\ b * c \in Nat
    BY <1>1
  <2>2. c <= q => b * c <= b * q
    BY <1>1, TimesMonotone
  <2> QED
    BY <1>1, <2>1, <2>2
<1> QED
  BY <1>1, <1>2
-----------------------------------------------------------------------------
(***************************************************************************)
(* The arithmetic of the sweep.                                            *)
(***************************************************************************)
\* The products that getRequiredStepsForSweeps goes through.
IsRequired(c, r) ==
    /\ r \in [0..NumParams -> 0..(Word - 1)]
    /\ \A p \in 0..NumParams :
          r[p] = IF p = 0 THEN 1 ELSE (r[p - 1] * c[p]) % Word

\* RequiredSteps is the last of them.
LEMMA RequiredExists ==
    ASSUME NEW c \in [Params -> Nat]
    PROVE  /\ IsRequired(c, WordProducts(c, NumParams, Word))
           /\ RequiredSteps(c) = WordProducts(c, NumParams, Word)[NumParams]
  BY IndexAssumption, WordProductsStep
     DEF IsRequired, AreProducts, RequiredSteps, Params

\* They are determined by the counts.
LEMMA RequiredUnique ==
    ASSUME NEW c \in [Params -> Nat], NEW r, IsRequired(c, r)
    PROVE  \A p \in 0..NumParams : r[p] = WordProducts(c, NumParams, Word)[p]
<1> DEFINE w == WordProducts(c, NumParams, Word)
           S == {n \in Nat : n <= NumParams => r[n] = w[n]}
<1>1. NumParams \in Nat /\ IsRequired(c, w)
  BY IndexAssumption, RequiredExists
<1> HIDE DEF w
<1>2. 0 \in S
  BY <1>1 DEF IsRequired
<1>3. ASSUME NEW n \in Nat, n \in S
      PROVE  n + 1 \in S
  <2> SUFFICES ASSUME n + 1 <= NumParams
               PROVE  r[n + 1] = w[n + 1]
    OBVIOUS
  <2>1. n + 1 \in 0..NumParams /\ n + 1 # 0 /\ (n + 1) - 1 = n /\ r[n] = w[n]
    BY <1>1, <1>3
  <2> QED
    BY <1>1, <2>1 DEF IsRequired
<1>4. \A n \in Nat : n \in S
  <2> HIDE DEF S
  <2> QED
    BY <1>2, <1>3, SetInduction
<1> QED
  BY <1>1, <1>4 DEF w

\* The weight of a digit is the product of the counts before it.
LEMMA PlaceMagnitudeIsRequired ==
    ASSUME NEW c \in [Params -> Nat], NEW r, IsRequired(c, r), NEW p \in Params
    PROVE  PlaceMagnitude(c)[p] = r[p - 1]
<1>1. p - 1 \in 0..NumParams
  BY IndexAssumption DEF Params
<1> QED
  BY <1>1, RequiredUnique DEF PlaceMagnitude

\* Once a product is 0, the products after it are 0 as well.
LEMMA ProductsPositive ==
    ASSUME NEW c \in [Params -> Nat], NEW r, IsRequired(c, r), r[NumParams] > 0
    PROVE  \A p \in 0..NumParams : r[p] > 0
<1> SUFFICES ASSUME NEW p \in 0..NumParams, r[p] = 0
             PROVE  FALSE
  BY IndexAssumption DEF IsRequired
<1>1. r[NumParams] = WordProducts(c, NumParams, Word)[NumParams]
      /\ WordProducts(c, NumParams, Word)[p] = 0
  BY IndexAssumption, RequiredUnique
<1>2. c \in [1..NumParams -> Nat]
  BY DEF Params
<1>3. WordProducts(c, NumParams, Word)[NumParams] = 0
  BY IndexAssumption, <1>1, <1>2, WordProductsZero
<1> QED
  BY <1>1, <1>3

\* What is left of the index at each digit.
LEMMA RemainderStep ==
    ASSUME NEW c, NEW index \in Nat,
           \A p \in Params : PlaceMagnitude(c)[p] \in Nat \ {0}
    PROVE  \A p \in Params :
              /\ Remainder(c, index)[p] \in 0..index
              /\ Remainder(c, index)[p] =
                    IF p = NumParams THEN index
                    ELSE Remainder(c, index)[p + 1] % PlaceMagnitude(c)[p + 1]
<1> DEFINE M == PlaceMagnitude(c)
           G == [x \in Nat \X Params |-> x[1] % M[NumParams - x[2] + 1]]
           Body(l) == [p \in Params |-> IF p = NumParams THEN index
                                        ELSE l[p + 1] % PlaceMagnitude(c)[p + 1]]
           l == CHOOSE g : g = Body(g)
<1> HIDE DEF M
<1>1. NumParams \in Nat /\ NumParams - 1 \in Nat
  BY SweepAssumption, IndexAssumption
<1>2. ASSUME NEW v \in Nat, NEW p \in 1..(NumParams - 1)
      PROVE  G[<<v, p>>] = v % M[NumParams - p + 1] /\ G[<<v, p>>] \in Nat
  <2>1. p \in Params /\ NumParams - p + 1 \in Params
    BY <1>1 DEF Params
  <2>2. M[NumParams - p + 1] \in Nat \ {0}
    BY <2>1 DEF M
  <2>3. v % M[NumParams - p + 1] \in Nat
    BY <2>2, DivisionBounds
  <2> QED
    BY <2>1, <2>3
<1>3. PICK h \in [0..(NumParams - 1) -> Nat] :
         \A p \in 0..(NumParams - 1) :
            h[p] = IF p = 0 THEN index ELSE G[<<h[p - 1], p>>]
  <2>1. \A v \in Nat, p \in 1..(NumParams - 1) : G[<<v, p>>] \in Nat
    BY <1>2
  <2> HIDE DEF G
  <2>2. \E h : IsRecursion(h, Nat, index, NumParams - 1, G)
    BY <1>1, <2>1, RecursionExists
  <2> QED
    BY <2>2 DEF IsRecursion
<1> DEFINE f == [p \in Params |-> h[NumParams - p]]
<1>4. ASSUME NEW p \in Params
      PROVE  f[p] = IF p = NumParams THEN index ELSE f[p + 1] % M[p + 1]
  <2>1. CASE p = NumParams
    <3>1. f[p] = h[0] /\ 0 \in 0..(NumParams - 1)
      BY <1>1, <2>1
    <3> HIDE DEF f, G
    <3> QED
      BY <1>3, <2>1, <3>1
  <2>2. CASE p # NumParams
    <3> DEFINE k == NumParams - p
    <3>1. k \in 1..(NumParams - 1) /\ k \in 0..(NumParams - 1) /\ k # 0
          /\ k - 1 \in 0..(NumParams - 1) /\ p + 1 \in Params
          /\ k - 1 = NumParams - (p + 1) /\ NumParams - k + 1 = p + 1
      BY <1>1, <2>2 DEF Params
    <3>2. f[p] = h[k] /\ f[p + 1] = h[k - 1]
      BY <3>1
    <3> HIDE DEF k, f, G
    <3>3. h[k] = G[<<h[k - 1], k>>] /\ h[k - 1] \in Nat
      BY <1>3, <3>1
    <3>4. G[<<h[k - 1], k>>] = h[k - 1] % M[NumParams - k + 1]
      BY <1>2, <3>1, <3>3
    <3> QED
      BY <2>2, <3>1, <3>2, <3>3, <3>4
  <2> QED
    BY <2>1, <2>2
<1>5. f = Body(f)
  <2> HIDE DEF f
  <2>1. f = [p \in Params |-> f[p]]
    BY DEF f
  <2> QED
    BY <1>4, <2>1 DEF M
<1>6. l = Body(l)
  <2> HIDE DEF Body
  <2> QED
    BY <1>5, Zenon
<1>7. Remainder(c, index) = l
  BY Zenon DEF Remainder
<1> HIDE DEF l
<1>8. \A p \in Params : l[p] = IF p = NumParams THEN index ELSE l[p + 1] % M[p + 1]
  BY <1>6 DEF M
<1> DEFINE S == {n \in Nat : NumParams - n \in Params => l[NumParams - n] \in 0..index}
<1>9. 0 \in S
  BY <1>1, <1>8
<1>10. ASSUME NEW n \in Nat, n \in S
       PROVE  n + 1 \in S
  <2> SUFFICES ASSUME NumParams - (n + 1) \in Params
               PROVE  l[NumParams - (n + 1)] \in 0..index
    OBVIOUS
  <2>1. NumParams - n \in Params /\ NumParams - (n + 1) # NumParams
        /\ NumParams - (n + 1) + 1 = NumParams - n
    BY <1>1 DEF Params
  <2>2. l[NumParams - n] \in 0..index /\ M[NumParams - n] \in Nat \ {0}
    BY <1>10, <2>1 DEF M
  <2>3. l[NumParams - (n + 1)] = l[NumParams - n] % M[NumParams - n]
    BY <1>8, <2>1
  <2>4. l[NumParams - n] % M[NumParams - n] \in 0..index
    <3> DEFINE a == l[NumParams - n]
               b == M[NumParams - n]
    <3>1. a \in 0..index /\ a \in Nat /\ b \in Nat \ {0}
      BY <2>2
    <3> HIDE DEF a, b
    <3>2. a % b \in Nat /\ a % b <= a
      BY <3>1, ModBounds
    <3>3. a % b \in 0..index
      BY <3>1, <3>2
    <3> QED
      BY <3>3 DEF a, b
  <2> QED
    BY <2>3, <2>4
<1>11. \A n \in Nat : n \in S
  <2> HIDE DEF S
  <2> QED
    BY <1>9, <1>10, SetInduction
<1>12. \A p \in Params : l[p] \in 0..index
  <2> SUFFICES ASSUME NEW p \in Params
               PROVE  l[p] \in 0..index
    OBVIOUS
  <2>1. NumParams - p \in Nat /\ NumParams - (NumParams - p) = p
    BY <1>1 DEF Params
  <2> QED
    BY <1>11, <2>1
<1> QED
  BY <1>7, <1>8, <1>12 DEF M

\* An index below the required number of steps divides by no 0, and decodes to
\* a step within each count.
LEMMA IndexDecodes ==
    ASSUME NEW c \in [Params -> Nat], NEW index \in Nat,
           index < RequiredSteps(c)
    PROVE  /\ ~DividesByZero(c, index)
           /\ Steps(c, index) \in [Params -> Nat]
           /\ \A p \in Params : Steps(c, index)[p] < c[p]
<1> DEFINE M == PlaceMagnitude(c)
           L == Remainder(c, index)
<1>1. NumParams \in Nat /\ NumParams # 0
  BY SweepAssumption, IndexAssumption
<1>2. PICK r : IsRequired(c, r) /\ RequiredSteps(c) = r[NumParams]
  BY RequiredExists
<1>3. \A p \in 0..NumParams : r[p] \in Nat /\ r[p] > 0
  <2>1. \A p \in 0..NumParams : r[p] \in Nat
    BY SweepAssumption, IndexAssumption, <1>2 DEF IsRequired
  <2>2. r[NumParams] > 0
    BY <1>1, <1>2, <2>1
  <2> QED
    BY <1>2, <2>1, <2>2, ProductsPositive
<1>4. \A p \in Params : M[p] = r[p - 1] /\ M[p] \in Nat \ {0}
  <2>1. \A p \in Params : M[p] = r[p - 1] /\ p - 1 \in 0..NumParams
    BY <1>1, <1>2, PlaceMagnitudeIsRequired DEF Params
  <2> QED
    BY <1>3, <2>1
<1>5. \A p \in Params : r[p] <= M[p] * c[p] /\ c[p] > 0
  <2> SUFFICES ASSUME NEW p \in Params
               PROVE  r[p] <= M[p] * c[p] /\ c[p] > 0
    OBVIOUS
  <2> HIDE DEF M
  <2>1. p \in 0..NumParams /\ p # 0 /\ c[p] \in Nat
    BY <1>1 DEF Params
  <2>2. r[p] = (M[p] * c[p]) % Word
    BY <1>2, <1>4, <2>1 DEF IsRequired
  <2>3. M[p] * c[p] \in Nat
    BY <1>4, <2>1
  <2>4. r[p] <= M[p] * c[p]
    BY <2>2, <2>3, ModWord
  <2>5. c[p] # 0
    <3>1. M[p] * 0 = 0
      BY <1>4
    <3>2. r[p] > 0
      BY <1>3, <2>1
    <3> QED
      BY <1>3, <2>1, <2>4, <3>1, <3>2
  <2> QED
    BY <2>1, <2>4, <2>5
<1>6. ~DividesByZero(c, index)
  BY <1>4 DEF DividesByZero
<1>7. \A p \in Params :
         /\ L[p] \in Nat
         /\ L[p] = IF p = NumParams THEN index ELSE L[p + 1] % M[p + 1]
  BY <1>4, RemainderStep
<1> HIDE DEF M, L
<1>8. ASSUME NEW p \in Params
      PROVE  L[p] < r[p]
  <2>1. CASE p = NumParams
    BY <1>2, <1>7, <2>1
  <2>2. CASE p # NumParams
    <3>1. p + 1 \in Params /\ (p + 1) - 1 = p
      BY <1>1, <2>2 DEF Params
    <3>2. L[p + 1] \in Nat /\ M[p + 1] \in Nat \ {0} /\ M[p + 1] = r[p]
      BY <1>4, <1>7, <3>1
    <3>3. L[p + 1] % M[p + 1] < M[p + 1]
      BY <3>2, DivisionBounds
    <3> QED
      BY <1>7, <2>2, <3>2, <3>3
  <2> QED
    BY <2>1, <2>2
<1>9. ASSUME NEW p \in Params
      PROVE  L[p] \div M[p] \in Nat /\ L[p] \div M[p] < c[p]
  <2>1. L[p] \in Nat /\ M[p] \in Nat \ {0} /\ c[p] \in Nat /\ p \in 0..NumParams
    BY <1>1, <1>4, <1>7 DEF Params
  <2>2. r[p] \in Nat /\ M[p] * c[p] \in Nat
    BY <1>3, <2>1
  <2>3. L[p] < M[p] * c[p]
    BY <1>5, <1>8, <2>1, <2>2
  <2> QED
    BY <2>1, <2>3, DivisionBounds, QuotientBound
<1>10. CASE index = 0
  BY <1>5, <1>6, <1>10 DEF Steps
<1>11. CASE index # 0
  <2>1. Steps(c, index) = [p \in Params |-> L[p] \div M[p]]
    BY <1>11 DEF Steps, L, M
  <2> QED
    BY <1>6, <1>9, <2>1
<1> QED
  BY <1>10, <1>11

\* Whatever the index, the steps are not above it.
LEMMA StepsBelowIndex ==
    ASSUME NEW c \in [Params -> Nat], NEW index \in Nat,
           ~DividesByZero(c, index)
    PROVE  Steps(c, index) \in [Params -> 0..index]
<1> DEFINE M == PlaceMagnitude(c)
           L == Remainder(c, index)
<1>1. CASE index = 0
  BY <1>1 DEF Steps
<1>2. CASE index # 0
  <2>1. PICK r : IsRequired(c, r)
    BY RequiredExists
  <2>2. \A p \in Params : M[p] \in Nat \ {0}
    <3>1. \A p \in Params : M[p] = r[p - 1] /\ p - 1 \in 0..NumParams
      BY SweepAssumption, IndexAssumption, <2>1, PlaceMagnitudeIsRequired DEF Params
    <3>2. \A p \in Params : M[p] \in Nat
      BY SweepAssumption, IndexAssumption, <2>1, <3>1 DEF IsRequired
    <3> QED
      BY <1>2, <3>2 DEF DividesByZero
  <2>3. \A p \in Params : L[p] \in 0..index
    BY <2>2, RemainderStep
  <2> HIDE DEF L, M
  <2>4. ASSUME NEW p \in Params
        PROVE  L[p] \div M[p] \in 0..index
    <3>1. L[p] \in Nat /\ L[p] <= index /\ M[p] \in Nat \ {0}
      BY <2>2, <2>3
    <3>2. L[p] \div M[p] \in Nat /\ L[p] \div M[p] <= L[p]
      BY <3>1, QuotientBelow
    <3> QED
      BY <3>1, <3>2
  <2>5. Steps(c, index) = [p \in Params |-> L[p] \div M[p]]
    BY <1>2 DEF Steps, L, M
  <2> QED
    BY <2>4, <2>5
<1> QED
  BY <1>1, <1>2

\* Power is the last of the powers of b.
LEMMA PowerStep ==
    ASSUME NEW b \in Nat, NEW e \in Nat
    PROVE  \E w : /\ w \in [0..e -> Nat]
                  /\ \A n \in 0..e : w[n] = IF n = 0 THEN 1 ELSE b * w[n - 1]
                  /\ Power(b, e) = w[e]
<1> DEFINE G == [x \in Nat \X (1..e) |-> b * x[1]]
           Body(w) == [n \in 0..e |-> IF n = 0 THEN 1 ELSE b * w[n - 1]]
           w == CHOOSE g : g = Body(g)
<1>1. ASSUME NEW v \in Nat, NEW n \in 1..e
      PROVE  G[<<v, n>>] = b * v /\ G[<<v, n>>] \in Nat
  OBVIOUS
<1>2. PICK f \in [0..e -> Nat] :
         \A n \in 0..e : f[n] = IF n = 0 THEN 1 ELSE G[<<f[n - 1], n>>]
  <2>1. \A v \in Nat, n \in 1..e : G[<<v, n>>] \in Nat
    BY <1>1
  <2> HIDE DEF G
  <2>2. \E f : IsRecursion(f, Nat, 1, e, G)
    BY <2>1, RecursionExists
  <2> QED
    BY <2>2 DEF IsRecursion
<1>3. \A n \in 0..e : f[n] = IF n = 0 THEN 1 ELSE b * f[n - 1]
  <2> SUFFICES ASSUME NEW n \in 0..e, n # 0
               PROVE  f[n] = b * f[n - 1]
    BY <1>2
  <2>1. f[n - 1] \in Nat /\ n \in 1..e
    BY <1>2
  <2> QED
    BY <1>1, <1>2, <2>1
<1>4. f = Body(f)
  <2>1. f = [n \in 0..e |-> f[n]]
    BY <1>2
  <2> QED
    BY <1>3, <2>1
<1>5. w = Body(w)
  <2> HIDE DEF Body
  <2> QED
    BY <1>4, Zenon
<1>6. Power(b, e) = w[e]
  BY Zenon DEF Power
<1> HIDE DEF w
<1>7. \A n \in 0..e : w[n] = IF n = 0 THEN 1 ELSE b * w[n - 1]
  BY <1>5
<1> DEFINE S == {n \in Nat : n <= e => w[n] \in Nat}
<1>8. 0 \in S
  BY <1>7
<1>9. ASSUME NEW n \in Nat, n \in S
      PROVE  n + 1 \in S
  <2> SUFFICES ASSUME n + 1 <= e
               PROVE  w[n + 1] \in Nat
    OBVIOUS
  <2>1. w[n] \in Nat /\ w[n + 1] = b * w[n]
    BY <1>7, <1>9
  <2> QED
    BY <2>1
<1>10. \A n \in Nat : n \in S
  <2> HIDE DEF S
  <2> QED
    BY <1>8, <1>9, SetInduction
<1>11. w \in [0..e -> Nat]
  <2>1. w = [n \in 0..e |-> w[n]]
    BY <1>5
  <2> QED
    BY <1>10, <2>1
<1> QED
  BY <1>6, <1>7, <1>11

\* What the roots need of pow.
LEMMA PowerFacts ==
    ASSUME NEW b \in Nat, NEW e \in Nat \ {0}
    PROVE  /\ Power(b, e) \in Nat
           /\ b \in {0, 1} => Power(b, e) = b
           /\ b <= Power(b, e)
<1>1. PICK w : /\ w \in [0..e -> Nat]
               /\ \A n \in 0..e : w[n] = IF n = 0 THEN 1 ELSE b * w[n - 1]
               /\ Power(b, e) = w[e]
  BY PowerStep
<1>2. Power(b, e) \in Nat
  BY <1>1
<1>3. CASE b = 0
  <2>1. w[e - 1] \in Nat /\ w[e] = 0 * w[e - 1]
    BY <1>1, <1>3
  <2> QED
    BY <1>1, <1>2, <1>3, <2>1
<1>4. CASE b # 0
  <2> DEFINE S == {n \in Nat : n + 1 <= e =>
                      b <= w[n + 1] /\ (b = 1 => w[n + 1] = 1)}
  <2>1. 0 \in S
    <3>1. 1 <= e => w[1] = b * w[0] /\ w[0] = 1
      BY <1>1
    <3> QED
      BY <1>4, <3>1
  <2>2. ASSUME NEW n \in Nat, n \in S
        PROVE  n + 1 \in S
    <3> SUFFICES ASSUME n + 1 + 1 <= e
                 PROVE  b <= w[n + 1 + 1] /\ (b = 1 => w[n + 1 + 1] = 1)
      OBVIOUS
    <3>1. /\ n + 1 \in 0..e /\ n + 1 + 1 \in 0..e
          /\ b <= w[n + 1] /\ (b = 1 => w[n + 1] = 1)
      BY <2>2
    <3>2. w[n + 1] \in Nat /\ w[n + 1 + 1] = b * w[n + 1]
      BY <1>1, <3>1
    <3>3. b * 1 <= b * w[n + 1]
      BY <1>4, <3>1, <3>2, TimesMonotone
    <3> QED
      BY <3>1, <3>2, <3>3
  <2>3. \A n \in Nat : n \in S
    <3> HIDE DEF S
    <3> QED
      BY <2>1, <2>2, SetInduction
  <2>4. e - 1 \in S
    BY <2>3
  <2> QED
    BY <1>1, <1>2, <1>4, <2>4
<1> QED
  BY <1>3, <1>4

\* A larger base has a larger power.
LEMMA PowerMonotone ==
    ASSUME NEW a \in Nat, NEW b \in Nat, a <= b, NEW e \in Nat
    PROVE  Power(a, e) <= Power(b, e)
<1>1. PICK v : /\ v \in [0..e -> Nat]
               /\ \A n \in 0..e : v[n] = IF n = 0 THEN 1 ELSE a * v[n - 1]
               /\ Power(a, e) = v[e]
  BY PowerStep
<1>2. PICK w : /\ w \in [0..e -> Nat]
               /\ \A n \in 0..e : w[n] = IF n = 0 THEN 1 ELSE b * w[n - 1]
               /\ Power(b, e) = w[e]
  BY PowerStep
<1> DEFINE S == {n \in Nat : n <= e => v[n] <= w[n]}
<1>3. 0 \in S
  BY <1>1, <1>2
<1>4. ASSUME NEW n \in Nat, n \in S
      PROVE  n + 1 \in S
  <2> SUFFICES ASSUME n + 1 <= e
               PROVE  v[n + 1] <= w[n + 1]
    OBVIOUS
  <2>1. v[n] \in Nat /\ w[n] \in Nat /\ v[n] <= w[n]
    BY <1>1, <1>2, <1>4
  <2>2. v[n + 1] = a * v[n] /\ w[n + 1] = b * w[n]
    BY <1>1, <1>2
  <2>3. a * v[n] <= a * w[n] /\ w[n] * a <= w[n] * b
    BY <2>1, TimesMonotone
  <2>4. /\ a * v[n] \in Nat /\ a * w[n] \in Nat /\ b * w[n] \in Nat
        /\ w[n] * a = a * w[n] /\ w[n] * b = b * w[n]
    BY <2>1
  <2> QED
    BY <2>2, <2>3, <2>4
<1>5. \A n \in Nat : n \in S
  <2> HIDE DEF S
  <2> QED
    BY <1>3, <1>4, SetInduction
<1> QED
  BY <1>1, <1>2, <1>5

\* A bounded set of naturals has a largest element.
LEMMA LargestExists ==
    ASSUME NEW n \in Nat, NEW T, T \subseteq 0..n, T # {}
    PROVE  \E k \in T : \A j \in T : j <= k
<1> DEFINE D == {m \in Nat : m <= n /\ n - m \in T}
<1>1. D # {}
  <2>1. PICK k \in T : TRUE
    OBVIOUS
  <2>2. n - k \in Nat /\ n - k <= n /\ n - (n - k) = k
    BY <2>1
  <2>3. n - k \in D
    BY <2>1, <2>2
  <2> QED
    BY <2>3
<1>2. PICK m \in D : \A d \in D : <<d, m>> \notin OpToRel(<, Nat)
  BY <1>1, WFMin, NatLessThanWellFounded, Zenon
<1>3. \A d \in D : ~(d < m)
  <2>1. D \subseteq Nat
    OBVIOUS
  <2> HIDE DEF D
  <2> QED
    BY <1>2, <2>1, Zenon DEF OpToRel
<1>4. ASSUME NEW j \in T
      PROVE  j <= n - m
  <2>1. j \in 0..n /\ m \in Nat
    OBVIOUS
  <2>2. n - j \in Nat /\ n - j <= n /\ n - (n - j) = j
    BY <2>1
  <2>3. n - j \in D
    BY <2>2
  <2>4. ~(n - j < m)
    BY <1>3, <2>3
  <2> HIDE DEF D
  <2> QED
    BY <2>1, <2>4
<1>5. n - m \in T
  OBVIOUS
<1> QED
  BY <1>4, <1>5

\* The count that every swept parameter gets.
LEMMA CountPerParamBounds ==
    ASSUME NEW total \in Nat, NEW active \in Nat \ {0}
    PROVE  LET each == CountPerParam(total, active)
           IN  /\ each \in 0..(total + 1)
               /\ each > total => <<total, active>> \in PowOver
               /\ total >= 1 => each >= 1
               /\ total >= Power(2, active) => each >= 2
               /\ <<total, active>> \notin PowOver => Power(each, active) <= total
               /\ <<total, active>> \notin PowShort
                     => Power(each + 1, active) > total
<1> DEFINE roots == {k \in 0..total : Power(k, active) <= total}
           root == CHOOSE k \in roots : \A j \in roots : j <= k
           short == <<total, active>> \in PowShort
           over == <<total, active>> \in PowOver
<1>1. ASSUME NEW k \in Nat, Power(k, active) <= total
      PROVE  k \in roots
  <2>1. Power(k, active) \in Nat /\ k <= Power(k, active)
    BY PowerFacts
  <2> QED
    BY <1>1, <2>1
<1>2. 0 \in roots
  BY <1>1, PowerFacts
<1>3. root \in roots /\ \A j \in roots : j <= root
  <2> HIDE DEF roots
  <2>1. roots \subseteq 0..total
    BY DEF roots
  <2>2. \E k \in roots : \A j \in roots : j <= k
    BY <1>2, <2>1, LargestExists
  <2> QED
    BY <2>2
<1>4. root \in 0..total
  BY <1>3
<1>5. short => root >= 3
  <2> SUFFICES ASSUME short
               PROVE  root >= 3
    OBVIOUS
  <2>1. Power(3, active) <= total
    BY PowAssumption
  <2>2. 3 \in roots
    BY <1>1, <2>1
  <2> HIDE DEF root, roots
  <2> QED
    BY <1>3, <1>4, <2>2
<1>6. total >= Power(2, active) => root >= 2
  <2> SUFFICES ASSUME total >= Power(2, active)
               PROVE  root >= 2
    OBVIOUS
  <2>1. Power(2, active) \in Nat
    BY PowerFacts
  <2>2. 2 \in roots
    BY <1>1, <2>1
  <2> HIDE DEF root, roots
  <2> QED
    BY <1>3, <1>4, <2>2
<1>7. CountPerParam(total, active) =
         IF short THEN root - 1 ELSE IF over THEN root + 1 ELSE root
  BY DEF CountPerParam
<1>0. total >= 1 => root >= 1
  <2> SUFFICES ASSUME total >= 1
               PROVE  root >= 1
    OBVIOUS
  <2>1. Power(1, active) = 1
    BY PowerFacts
  <2>2. 1 \in roots
    BY <1>1, <2>1
  <2> HIDE DEF root, roots
  <2> QED
    BY <1>3, <1>4, <2>2
<1>8. Power(root, active) <= total /\ Power(root, active) \in Nat
  <2>1. Power(root, active) <= total
    BY <1>3
  <2> QED
    BY <1>4, <2>1, PowerFacts
<1>9. Power(root + 1, active) > total
  <2> HIDE DEF root
  <2>1. root + 1 \in Nat
    BY <1>4
  <2>2. Power(root + 1, active) \in Nat
    BY <2>1, PowerFacts
  <2>3. root + 1 \notin roots
    <3> HIDE DEF roots
    <3> QED
      BY <1>3, <1>4
  <2>4. ~(Power(root + 1, active) <= total)
    <3> HIDE DEF roots
    <3> QED
      BY <1>1, <2>1, <2>3
  <2> QED
    BY <2>2, <2>4
<1> HIDE DEF root, roots, short, over
<1>10. short => Power(root - 1, active) <= total
  <2> SUFFICES ASSUME short
               PROVE  Power(root - 1, active) <= total
    OBVIOUS
  <2>1. root - 1 \in Nat /\ root \in Nat /\ root - 1 <= root
    BY <1>4, <1>5
  <2>2. Power(root - 1, active) \in Nat
    BY <2>1, PowerFacts
  <2>3. Power(root - 1, active) <= Power(root, active)
    BY <2>1, PowerMonotone
  <2> QED
    BY <1>8, <2>2, <2>3
<1>11. (short <=> <<total, active>> \in PowShort) /\ (over <=> <<total, active>> \in PowOver)
  BY DEF short, over
<1>12. over => Power(root + 2, active) > total
  <2>1. root + 1 \in Nat /\ root + 2 \in Nat /\ root + 1 <= root + 2
    BY <1>4
  <2>2. /\ Power(root + 1, active) \in Nat /\ Power(root + 2, active) \in Nat
        /\ Power(root + 1, active) <= Power(root + 2, active)
    BY <2>1, PowerFacts, PowerMonotone
  <2> QED
    BY <1>9, <2>2
<1> DEFINE each == CountPerParam(total, active)
<1> HIDE DEF each
<1>13. CASE short
  <2>1. each = root - 1 /\ each + 1 = root
    BY <1>4, <1>7, <1>13 DEF each
  <2> QED
    BY <1>4, <1>5, <1>10, <1>11, <1>13, <2>1 DEF each
<1>14. CASE ~short /\ over
  <2>1. each = root + 1 /\ each + 1 = root + 2
    BY <1>4, <1>7, <1>14 DEF each
  <2> QED
    BY <1>0, <1>4, <1>6, <1>11, <1>12, <1>14, <2>1 DEF each
<1>15. CASE ~short /\ ~over
  <2>1. each = root
    BY <1>7, <1>15 DEF each
  <2> QED
    BY <1>0, <1>4, <1>6, <1>8, <1>9, <1>11, <1>15, <2>1 DEF each
<1> QED
  BY <1>13, <1>14, <1>15
-----------------------------------------------------------------------------
(***************************************************************************)
(* The invariant: the counts and steps are words, and the last call left   *)
(* steps in range, or died, as the properties say.                         *)
(***************************************************************************)
IInv == TypeOK /\ ResolvedStepsInRange /\ OnlyStrayIndexDies

\* The inputs are words.
LEMMA WordFacts ==
    /\ Word \in Nat /\ 0 \in 0..(Word - 1) /\ 1 \in 0..(Word - 1)
    /\ SweepCounts \subseteq 0..(Word - 1)
    /\ Totals \subseteq 0..(Word - 1)
    /\ Indices \subseteq 0..(Word - 1)
    /\ 0..(Word - 1) \subseteq Nat
  BY SweepAssumption, IndexAssumption

\* The number of swept parameters is a natural number.
LEMMA ActiveCount ==
    ASSUME NEW c
    PROVE  /\ Cardinality(Active(c)) \in Nat
           /\ Active(c) = {} <=> Cardinality(Active(c)) = 0
<1>1. IsFiniteSet(1..NumParams)
  BY SweepAssumption, IndexAssumption, FS_Interval
<1>2. Active(c) \in SUBSET (1..NumParams)
  BY DEF Active, Params
<1>3. IsFiniteSet(Active(c))
  BY <1>1, <1>2, FS_Subset
<1> QED
  BY <1>3, FS_CardinalityType, FS_EmptySet

\* What a request for a total finds and sets.
LEMMA EachBounds ==
    ASSUME NEW total \in Totals, Cardinality(Active(count)) >= 1
    PROVE  LET active == Cardinality(Active(count))
               each   == CountPerParam(total, active)
           IN  /\ active \in Nat \ {0}
               /\ each \in 0..(Word - 1)
               /\ Power(each, active) \in Nat
               /\ total >= 1 => each >= 1
               /\ total >= Power(2, active) => each >= 2
               /\ <<total, active>> \notin PowOver => Power(each, active) <= total
               /\ <<total, active>> \notin PowShort
                     => Power(each + 1, active) > total
<1> DEFINE active == Cardinality(Active(count))
           each   == CountPerParam(total, active)
<1>1. active \in Nat \ {0} /\ total \in Nat /\ total \in 0..(Word - 1)
  BY WordFacts, ActiveCount
<1> HIDE DEF active
<1>2. /\ each \in 0..(total + 1) /\ (each > total => <<total, active>> \in PowOver)
      /\ (total >= 1 => each >= 1) /\ (total >= Power(2, active) => each >= 2)
      /\ <<total, active>> \notin PowOver => Power(each, active) <= total
      /\ <<total, active>> \notin PowShort => Power(each + 1, active) > total
  BY <1>1, CountPerParamBounds
<1> HIDE DEF each
<1>3. each \in 0..(Word - 1) /\ each \in Nat
  <2>1. <<total, active>> \in PowOver => total + 1 < Word
    BY PowAssumption
  <2> QED
    BY <1>1, <1>2, <2>1, WordFacts
<1>4. Power(each, active) \in Nat
  BY <1>1, <1>3, PowerFacts
<1> QED
  BY <1>1, <1>2, <1>3, <1>4 DEF active, each

\* The constructor establishes the invariant.
LEMMA InitInvariant == Init => IInv
<1> SUFFICES ASSUME Init
             PROVE  IInv
  OBVIOUS
<1>1. PICK n \in SweepCounts :
         /\ count \in [Params -> {1, n}]
         /\ step = [p \in Params |-> 0]
         /\ call = [op |-> "Model", arg |-> n, ret |-> 0]
  BY DEF Init
<1>2. TypeOK
  BY <1>1, WordFacts DEF TypeOK
<1> QED
  BY <1>1, <1>2 DEF IInv, ResolvedStepsInRange, OnlyStrayIndexDies

\* Every call keeps the invariant.
LEMMA NextInvariant == IInv /\ [Next]_vars => IInv'
<1> SUFFICES ASSUME IInv, [Next]_vars
             PROVE  IInv'
  OBVIOUS
<1> USE DEF IInv
<1>1. count \in [Params -> Nat]
  BY WordFacts DEF TypeOK
<1>2. ASSUME NEW index \in Indices, ResolveSteps(index)
      PROVE  IInv'
  <2>1. index \in Nat /\ index \in 0..(Word - 1)
    BY WordFacts
  <2>2. /\ ~DividesByZero(count, index) /\ step' = Steps(count, index)
        /\ call' = [op |-> "resolveSteps", arg |-> index, ret |-> 0]
        /\ count' = count
    BY <1>2 DEF ResolveSteps
  <2>3. step' \in [Params -> 0..index]
    BY <1>1, <2>1, <2>2, StepsBelowIndex
  <2>4. step' \in [Params -> 0..(Word - 1)]
    BY <2>1, <2>3, WordFacts
  <2>5. TypeOK'
    BY <2>1, <2>2, <2>4 DEF TypeOK
  <2>6. ResolvedStepsInRange'
    <3>1. index < RequiredSteps(count) => \A p \in Params : step'[p] < count[p]
      BY <1>1, <2>1, <2>2, IndexDecodes
    <3> QED
      BY <2>2, <3>1 DEF ResolvedStepsInRange
  <2>7. OnlyStrayIndexDies'
    BY <2>2 DEF OnlyStrayIndexDies
  <2> QED
    BY <2>5, <2>6, <2>7
<1>3. ASSUME NEW index \in Indices, ResolveStepsDies(index)
      PROVE  IInv'
  <2>1. index \in Nat /\ index \in 0..(Word - 1)
    BY WordFacts
  <2>2. /\ DividesByZero(count, index)
        /\ call' = [op |-> "SIGFPE", arg |-> index, ret |-> 0]
        /\ count' = count /\ step' = step
    BY <1>3 DEF ResolveStepsDies
  <2>3. TypeOK'
    BY <2>1, <2>2 DEF TypeOK
  <2>4. RequiredSteps(count) \in Nat
    BY <1>1, RequiredExists, SweepAssumption, IndexAssumption DEF IsRequired
  <2>5. index >= RequiredSteps(count)
    BY <1>1, <2>1, <2>2, <2>4, IndexDecodes
  <2>6. OnlyStrayIndexDies'
    BY <2>2, <2>5 DEF OnlyStrayIndexDies
  <2> QED
    BY <2>2, <2>3, <2>6 DEF ResolvedStepsInRange
<1>4. ASSUME NEW total \in Totals, SetParamSweepCountClosestTotal(total)
      PROVE  IInv'
  <2> DEFINE active == Cardinality(Active(count))
             each   == CountPerParam(total, active)
  <2>1. /\ active >= 1
        /\ count' = [p \in Params |-> IF count[p] > 1 THEN each ELSE count[p]]
        /\ call' = [op |-> "setTotal", arg |-> total, ret |-> Power(each, active)]
        /\ step' = step
    BY <1>4 DEF SetParamSweepCountClosestTotal
  <2>2. each \in 0..(Word - 1) /\ Power(each, active) \in Nat
    BY <2>1, EachBounds
  <2> HIDE DEF each, active
  <2>3. TypeOK'
    BY <2>1, <2>2, WordFacts DEF TypeOK
  <2> QED
    BY <2>1, <2>3 DEF ResolvedStepsInRange, OnlyStrayIndexDies
<1>5. ASSUME NEW total \in Totals, SetTotalIgnored(total)
      PROVE  IInv'
  <2>1. TypeOK'
    BY <1>5, WordFacts DEF SetTotalIgnored, TypeOK
  <2> QED
    BY <1>5, <2>1 DEF SetTotalIgnored, ResolvedStepsInRange, OnlyStrayIndexDies
<1>6. ASSUME NEW c \in Componants, SetParamRanges(c)
      PROVE  IInv'
  <2> DEFINE own == {p \in Params : Owner[p] = c}
  <2>2. PICK range \in [own -> GivenRanges] :
           /\ count' = [p \in Params |-> IF p \in own THEN range[p][1] ELSE count[p]]
           /\ step' = [p \in Params |-> IF p \in own THEN range[p][2] ELSE step[p]]
    BY <1>6 DEF SetParamRanges
  <2>3. \A p \in own : range[p][1] \in 0..(Word - 1) /\ range[p][2] \in 0..(Word - 1)
    BY SweepAssumption
  <2> HIDE DEF own
  <2>4. count' \in [Params -> 0..(Word - 1)] /\ step' \in [Params -> 0..(Word - 1)]
    BY <2>2, <2>3 DEF TypeOK
  <2>1. TypeOK'
    BY <1>6, <2>4, WordFacts DEF SetParamRanges, TypeOK
  <2> QED
    BY <1>6, <2>1 DEF SetParamRanges, ResolvedStepsInRange, OnlyStrayIndexDies
<1>7. CASE UNCHANGED vars
  BY <1>7 DEF vars, TypeOK, ResolvedStepsInRange, OnlyStrayIndexDies
<1> QED
  BY <1>2, <1>3, <1>4, <1>5, <1>6, <1>7 DEF Next

\* Every variable keeps its type, after every order of calls.
THEOREM TypeCorrect == Spec => []TypeOK
<1>1. IInv => TypeOK
  BY DEF IInv
<1> QED
  BY <1>1, InitInvariant, NextInvariant, PTL DEF Spec

\* An index below getRequiredStepsForSweeps selects a value of every range,
\* even when the products have wrapped.
THEOREM StepsCorrect == Spec => []ResolvedStepsInRange
<1>1. IInv => ResolvedStepsInRange
  BY DEF IInv
<1> QED
  BY <1>1, InitInvariant, NextInvariant, PTL DEF Spec

\* resolveSteps divides by zero only for an index at or above
\* getRequiredStepsForSweeps.
THEOREM DivisionCorrect == Spec => []OnlyStrayIndexDies
<1>1. IInv => OnlyStrayIndexDies
  BY DEF IInv
<1> QED
  BY <1>1, InitInvariant, NextInvariant, PTL DEF Spec
-----------------------------------------------------------------------------
\* setParamSweepCountClosestTotal takes no swept parameter out of the sweep
\* when the total allows two values of each, and puts none in.
LEMMA StepKeepsSweptSet ==
    ASSUME TypeOK, Next, call'.op = "setTotal"
    PROVE  /\ Active(count)' \subseteq Active(count)
           /\ call'.arg >= Power(2, Cardinality(Active(count)))
                => Active(count)' = Active(count)
<1>1. ASSUME NEW total \in Totals, SetParamSweepCountClosestTotal(total)
      PROVE  /\ Active(count)' \subseteq Active(count)
             /\ call'.arg >= Power(2, Cardinality(Active(count)))
                  => Active(count)' = Active(count)
  <2> DEFINE active == Cardinality(Active(count))
             each   == CountPerParam(total, active)
  <2>1. /\ active >= 1
        /\ count' = [p \in Params |-> IF count[p] > 1 THEN each ELSE count[p]]
        /\ call' = [op |-> "setTotal", arg |-> total, ret |-> Power(each, active)]
    BY <1>1 DEF SetParamSweepCountClosestTotal
  <2>2. each \in 0..(Word - 1) /\ (total >= Power(2, active) => each >= 2)
    BY <2>1, EachBounds
  <2> HIDE DEF each
  <2>3. \A p \in Params : count'[p] = IF count[p] > 1 THEN each ELSE count[p]
    BY <2>1
  <2>4. Active(count)' = {p \in Params : count'[p] > 1}
    BY DEF Active
  <2>5. Active(count)' \subseteq Active(count)
    BY <2>3, <2>4 DEF Active
  <2>6. each >= 2 => Active(count) \subseteq Active(count)'
    <3>1. each >= 2 => each > 1
      BY <2>2, WordFacts
    <3> QED
      BY <2>3, <2>4, <3>1 DEF Active
  <2>7. call'.arg = total
    BY <2>1
  <2> QED
    BY <2>2, <2>5, <2>6, <2>7
<1>2. ASSUME NEW total \in Totals, SetTotalIgnored(total)
      PROVE  Active(count)' = Active(count)
  BY <1>2 DEF SetTotalIgnored, Active
<1>3. ASSUME NEW index \in Indices, ResolveSteps(index) \/ ResolveStepsDies(index)
      PROVE  FALSE
  BY <1>3 DEF ResolveSteps, ResolveStepsDies
<1>4. ASSUME NEW c \in Componants, SetParamRanges(c)
      PROVE  FALSE
  BY <1>4 DEF SetParamRanges
<1> QED
  BY <1>1, <1>2, <1>3, <1>4 DEF Next

\* setParamSweepCountClosestTotal changes which parameters are swept only when
\* the total is too small for two values of each.
THEOREM SweptSetCorrect == Spec => [][SweptSetKept]_vars
<1>1. TypeOK /\ [Next]_vars => [SweptSetKept]_vars
  BY StepKeepsSweptSet DEF SweptSetKept
<1> QED
  BY <1>1, TypeCorrect, PTL DEF Spec
-----------------------------------------------------------------------------
(***************************************************************************)
(* Each combination is visited once.                                       *)
(***************************************************************************)
\* Quotient and remainder make up the dividend.
LEMMA Division ==
    ASSUME NEW a \in Nat, NEW b \in Nat \ {0}
    PROVE  a = b * (a \div b) + (a % b)
  BY SMT

\* The magnitudes of a sweep that has steps.
LEMMA MagnitudesPositive ==
    ASSUME NEW c \in [Params -> Nat], RequiredSteps(c) > 0
    PROVE  /\ \A p \in Params : PlaceMagnitude(c)[p] \in Nat \ {0}
           /\ PlaceMagnitude(c)[1] = 1
<1>1. NumParams \in Nat /\ NumParams # 0
  BY SweepAssumption, IndexAssumption
<1>2. PICK r : IsRequired(c, r) /\ RequiredSteps(c) = r[NumParams]
  BY RequiredExists
<1>3. \A p \in 0..NumParams : r[p] \in Nat /\ r[p] > 0
  <2>1. \A p \in 0..NumParams : r[p] \in Nat
    BY SweepAssumption, IndexAssumption, <1>2 DEF IsRequired
  <2> QED
    BY <1>2, <2>1, ProductsPositive
<1>4. \A p \in Params : PlaceMagnitude(c)[p] = r[p - 1] /\ p - 1 \in 0..NumParams
  BY <1>1, <1>2, PlaceMagnitudeIsRequired DEF Params
<1>5. 1 \in Params /\ 1 - 1 = 0 /\ r[0] = 1
  BY <1>1, <1>2 DEF Params, IsRequired
<1> QED
  BY <1>3, <1>4, <1>5

\* Different indices decode to different steps.
LEMMA StepsInjective ==
    ASSUME NEW c \in [Params -> Nat], RequiredSteps(c) > 0,
           NEW i \in Nat, NEW j \in Nat, Steps(c, i) = Steps(c, j)
    PROVE  i = j
<1> DEFINE M == PlaceMagnitude(c)
           L(k) == Remainder(c, k)
<1>1. NumParams \in Nat /\ NumParams # 0
  BY SweepAssumption, IndexAssumption
<1>2. (\A p \in Params : M[p] \in Nat \ {0}) /\ M[1] = 1
  BY MagnitudesPositive
<1>3. \A k \in Nat : \A p \in Params :
         /\ L(k)[p] \in 0..k
         /\ L(k)[p] = IF p = NumParams THEN k ELSE L(k)[p + 1] % M[p + 1]
  BY <1>2, RemainderStep
<1>4. \A k \in Nat : k # 0 => Steps(c, k) = [p \in Params |-> L(k)[p] \div M[p]]
  BY DEF Steps
<1>5. Steps(c, 0) = [p \in Params |-> 0]
  BY DEF Steps
<1> HIDE DEF L, M
<1>6. ASSUME NEW k \in Nat, NEW p \in Params
      PROVE  Steps(c, k)[p] = L(k)[p] \div M[p]
  <2>1. CASE k # 0
    BY <1>4, <2>1
  <2>2. CASE k = 0
    <3>1. L(k)[p] = 0
      BY <1>3, <2>2
    <3>2. 0 \div M[p] = 0
      BY <1>2, QuotientBelow
    <3> QED
      BY <1>5, <2>2, <3>1, <3>2
  <2> QED
    BY <2>1, <2>2
<1>7. \A p \in Params : L(i)[p] \div M[p] = L(j)[p] \div M[p]
  BY <1>6
<1> DEFINE S == {n \in Nat : n + 1 \in Params => L(i)[n + 1] = L(j)[n + 1]}
<1>8. 0 \in S
  <2>1. 1 \in Params /\ L(i)[1] \in Nat /\ L(j)[1] \in Nat
    BY <1>1, <1>3 DEF Params
  <2>2. L(i)[1] \div 1 = L(i)[1] /\ L(j)[1] \div 1 = L(j)[1]
    BY <2>1
  <2> QED
    BY <1>2, <1>7, <2>1, <2>2
<1>9. ASSUME NEW n \in Nat, n \in S
      PROVE  n + 1 \in S
  <2> SUFFICES ASSUME n + 1 + 1 \in Params
               PROVE  L(i)[n + 1 + 1] = L(j)[n + 1 + 1]
    OBVIOUS
  <2> DEFINE q == n + 1 + 1
  <2>1. n + 1 \in Params /\ n + 1 # NumParams /\ q \in Params
    BY <1>1 DEF Params
  <2>2. \A k \in Nat : L(k)[q] \in Nat /\ L(k)[n + 1] = L(k)[q] % M[q]
    BY <1>3, <2>1
  <2>3. L(i)[n + 1] = L(j)[n + 1]
    BY <1>9, <2>1
  <2> HIDE DEF q
  <2>4. \A k \in Nat : L(k)[q] = M[q] * (L(k)[q] \div M[q]) + L(k)[n + 1]
    BY <1>2, <2>1, <2>2, Division
  <2>5. L(i)[q] = L(j)[q]
    BY <1>7, <2>1, <2>3, <2>4
  <2> QED
    BY <2>5 DEF q
<1>10. \A n \in Nat : n \in S
  <2> HIDE DEF S
  <2> QED
    BY <1>8, <1>9, SetInduction
<1>11. NumParams - 1 \in Nat /\ (NumParams - 1) + 1 = NumParams
       /\ NumParams \in Params
  BY <1>1 DEF Params
<1>12. L(i)[NumParams] = L(j)[NumParams]
  BY <1>10, <1>11
<1> QED
  BY <1>3, <1>11, <1>12

\* There are as many different steps as indices.
LEMMA VisitedCount ==
    ASSUME NEW c \in [Params -> Nat]
    PROVE  Cardinality({Steps(c, i) : i \in 0..(RequiredSteps(c) - 1)})
              = RequiredSteps(c)
<1> DEFINE R == RequiredSteps(c)
           D == 0..(R - 1)
           visited == {Steps(c, i) : i \in D}
           f == [i \in D |-> Steps(c, i)]
<1>1. R \in Nat
  BY RequiredExists, SweepAssumption, IndexAssumption DEF IsRequired
<1>2. \A i, j \in D : f[i] = f[j] => i = j
  <2> SUFFICES ASSUME NEW i \in D, NEW j \in D, Steps(c, i) = Steps(c, j)
               PROVE  i = j
    OBVIOUS
  <2>1. R > 0 /\ i \in Nat /\ j \in Nat
    BY <1>1
  <2> QED
    BY <2>1, StepsInjective
<1>3. f \in Surjection(D, visited)
  BY Zenon DEF Surjection
<1>4. f \in Injection(D, visited)
  <2>1. f \in [D -> visited]
    OBVIOUS
  <2> HIDE DEF visited
  <2>2. IsInjective(f)
    BY <1>2 DEF IsInjective
  <2> QED
    BY <2>1, <2>2 DEF Injection
<1>5. IsFiniteSet(D) /\ Cardinality(D) = R
  <2> HIDE DEF R
  <2>1. IsFiniteSet(0..(R - 1)) /\ Cardinality(0..(R - 1)) = IF 0 > R - 1 THEN 0 ELSE R - 1 - 0 + 1
    BY <1>1, FS_Interval
  <2> QED
    BY <1>1, <2>1
<1>6. Cardinality(visited) = Cardinality(D)
  <2> HIDE DEF visited, f, D
  <2> QED
    BY <1>3, <1>4, <1>5, FS_Surjection
<1> QED
  BY <1>5, <1>6

\* The products not reduced to a word.
IsProduct(c, w) ==
    /\ w \in [0..NumParams -> Nat]
    /\ \A p \in 0..NumParams : w[p] = IF p = 0 THEN 1 ELSE w[p - 1] * c[p]

\* Product is the last of them.
LEMMA ProductExists ==
    ASSUME NEW c \in [Params -> Nat]
    PROVE  \E w : IsProduct(c, w) /\ Product(c) = w[NumParams]
<1> DEFINE G == [x \in Nat \X Params |-> x[1] * c[x[2]]]
           Body(w) == [p \in 0..NumParams |-> IF p = 0 THEN 1 ELSE w[p - 1] * c[p]]
           w == CHOOSE g : g = Body(g)
<1>1. NumParams \in Nat
  BY SweepAssumption, IndexAssumption
<1>2. ASSUME NEW v \in Nat, NEW p \in 1..NumParams
      PROVE  G[<<v, p>>] = v * c[p] /\ G[<<v, p>>] \in Nat
  <2>1. c[p] \in Nat /\ p \in Params
    BY <1>1 DEF Params
  <2> QED
    BY <2>1
<1>3. PICK f \in [0..NumParams -> Nat] :
         \A p \in 0..NumParams : f[p] = IF p = 0 THEN 1 ELSE G[<<f[p - 1], p>>]
  <2>1. \A v \in Nat, p \in 1..NumParams : G[<<v, p>>] \in Nat
    BY <1>2
  <2> HIDE DEF G
  <2>2. \E f : IsRecursion(f, Nat, 1, NumParams, G)
    BY <1>1, <2>1, RecursionExists
  <2> QED
    BY <2>2 DEF IsRecursion
<1>4. \A p \in 0..NumParams : f[p] = IF p = 0 THEN 1 ELSE f[p - 1] * c[p]
  <2> SUFFICES ASSUME NEW p \in 0..NumParams, p # 0
               PROVE  f[p] = f[p - 1] * c[p]
    BY <1>3
  <2>1. f[p - 1] \in Nat /\ p \in 1..NumParams
    BY <1>1, <1>3
  <2> QED
    BY <1>2, <1>3, <2>1
<1>5. f = Body(f)
  <2>1. f = [p \in 0..NumParams |-> f[p]]
    BY <1>3
  <2> QED
    BY <1>4, <2>1
<1>6. w = Body(w)
  <2> HIDE DEF Body
  <2> QED
    BY <1>5, Zenon
<1>7. Product(c) = w[NumParams]
  BY Zenon DEF Product
<1> HIDE DEF w
<1>8. \A p \in 0..NumParams : w[p] = IF p = 0 THEN 1 ELSE w[p - 1] * c[p]
  BY <1>6
<1> DEFINE S == {n \in Nat : n <= NumParams => w[n] \in Nat}
<1>9. 0 \in S
  BY <1>1, <1>8
<1>10. ASSUME NEW n \in Nat, n \in S
       PROVE  n + 1 \in S
  <2> SUFFICES ASSUME n + 1 <= NumParams
               PROVE  w[n + 1] \in Nat
    OBVIOUS
  <2>1. w[n] \in Nat /\ c[n + 1] \in Nat /\ w[n + 1] = w[n] * c[n + 1]
    BY <1>1, <1>8, <1>10 DEF Params
  <2> QED
    BY <2>1
<1>11. \A n \in Nat : n \in S
  <2> HIDE DEF S
  <2> QED
    BY <1>9, <1>10, SetInduction
<1>12. w \in [0..NumParams -> Nat]
  <2>1. w = [p \in 0..NumParams |-> w[p]]
    BY <1>6
  <2> QED
    BY <1>1, <1>11, <2>1
<1> QED
  BY <1>7, <1>8, <1>12 DEF IsProduct

\* A product that fits has not wrapped on the way, unless to reach 0.
LEMMA RequiredIsProduct ==
    ASSUME NEW c \in [Params -> Nat], Product(c) < Word
    PROVE  RequiredSteps(c) = Product(c)
<1>1. NumParams \in Nat /\ Word \in Nat /\ Word > 1
  BY SweepAssumption, IndexAssumption
<1>2. PICK r : IsRequired(c, r) /\ RequiredSteps(c) = r[NumParams]
  BY RequiredExists
<1>3. PICK w : IsProduct(c, w) /\ Product(c) = w[NumParams]
  BY ProductExists
<1> DEFINE S == {n \in Nat : n <= NumParams /\ w[n] < Word => r[n] = w[n]}
<1>4. 0 \in S
  BY <1>1, <1>2, <1>3 DEF IsRequired, IsProduct
<1>5. ASSUME NEW n \in Nat, n \in S
      PROVE  n + 1 \in S
  <2> SUFFICES ASSUME n + 1 <= NumParams, w[n + 1] < Word
               PROVE  r[n + 1] = w[n + 1]
    OBVIOUS
  <2>1. n + 1 \in Params /\ n + 1 \in 0..NumParams /\ n \in 0..NumParams
    BY <1>1 DEF Params
  <2>2. w[n] \in Nat /\ r[n] \in Nat /\ c[n + 1] \in Nat
    BY <1>1, <1>2, <1>3, <2>1 DEF IsRequired, IsProduct
  <2>3. w[n + 1] = w[n] * c[n + 1] /\ r[n + 1] = (r[n] * c[n + 1]) % Word
    BY <1>2, <1>3, <2>1 DEF IsRequired, IsProduct
  <2>4. CASE c[n + 1] = 0
    <3>1. w[n] * 0 = 0 /\ r[n] * 0 = 0 /\ 0 % Word = 0
      BY <1>1, <2>2
    <3> QED
      BY <2>3, <2>4, <3>1
  <2>5. CASE c[n + 1] # 0
    <3>1. w[n] * 1 <= w[n] * c[n + 1]
      BY <2>2, <2>5, TimesMonotone
    <3>2. w[n] * c[n + 1] \in Nat /\ w[n] * 1 = w[n]
      BY <2>2
    <3>3. w[n] < Word
      BY <1>1, <2>2, <2>3, <3>1, <3>2
    <3>4. r[n] = w[n]
      BY <1>5, <2>1, <3>3
    <3>5. (w[n] * c[n + 1]) % Word = w[n] * c[n + 1]
      BY <1>1, <2>3, <3>2
    <3> QED
      BY <2>3, <3>4, <3>5
  <2> QED
    BY <2>4, <2>5
<1>6. \A n \in Nat : n \in S
  <2> HIDE DEF S
  <2> QED
    BY <1>4, <1>5, SetInduction
<1> QED
  BY <1>1, <1>2, <1>3, <1>6

\* The indices below getRequiredStepsForSweeps decode to different steps, all
\* in range, as many as there are combinations.
THEOREM SpectraCorrect == Spec => []EverySpectrumOnce
<1>1. ASSUME TypeOK
      PROVE  EverySpectrumOnce
  <2> DEFINE R == RequiredSteps(count)
             visited == {Steps(count, i) : i \in 0..(R - 1)}
  <2>1. count \in [Params -> Nat]
    BY <1>1, WordFacts DEF TypeOK
  <2>2. R \in Nat
    BY <2>1, RequiredExists, SweepAssumption, IndexAssumption DEF IsRequired
  <2>3. Cardinality(visited) = R
    BY <2>1, VisitedCount
  <2>4. ASSUME NEW i \in 0..(R - 1)
        PROVE  \A p \in Params : Steps(count, i)[p] < count[p]
    <3>1. i \in Nat /\ i < R
      BY <2>2
    <3> QED
      BY <2>1, <3>1, IndexDecodes
  <2>5. Fits => R = Combinations
    BY <2>1, RequiredIsProduct DEF Fits, Combinations
  <2> QED
    BY <2>3, <2>4, <2>5 DEF EverySpectrumOnce
<1> QED
  BY <1>1, TypeCorrect, PTL
-----------------------------------------------------------------------------
(***************************************************************************)
(* The total that was asked for.                                           *)
(***************************************************************************)
\* Counts of v for the parameters of A and of 1 for the others.
LEMMA UniformProduct ==
    ASSUME NEW c \in [Params -> Nat], NEW A \in SUBSET Params, NEW v \in Nat,
           \A p \in Params : c[p] = IF p \in A THEN v ELSE 1
    PROVE  Product(c) = Power(v, Cardinality(A))
<1> DEFINE e == Cardinality(A)
           B(n) == A \cap (1..n)
<1>1. NumParams \in Nat
  BY SweepAssumption, IndexAssumption
<1>2. IsFiniteSet(A) /\ e \in Nat
  <2>1. IsFiniteSet(1..NumParams) /\ A \in SUBSET (1..NumParams)
    BY <1>1, FS_Interval DEF Params
  <2>2. IsFiniteSet(A)
    BY <2>1, FS_Subset
  <2> QED
    BY <2>2, FS_CardinalityType
<1>3. \A n : IsFiniteSet(B(n)) /\ Cardinality(B(n)) \in 0..e
  <2> SUFFICES ASSUME NEW n
               PROVE  IsFiniteSet(B(n)) /\ Cardinality(B(n)) \in 0..e
    OBVIOUS
  <2>1. B(n) \in SUBSET A
    OBVIOUS
  <2> HIDE DEF B
  <2>2. IsFiniteSet(B(n)) /\ Cardinality(B(n)) <= e
    BY <1>2, <2>1, FS_Subset
  <2>3. Cardinality(B(n)) \in Nat
    BY <2>2, FS_CardinalityType
  <2> QED
    BY <1>2, <2>2, <2>3
<1>4. PICK w : IsProduct(c, w) /\ Product(c) = w[NumParams]
  BY ProductExists
<1> HIDE DEF e
<1>5. PICK y : /\ y \in [0..e -> Nat]
               /\ \A n \in 0..e : y[n] = IF n = 0 THEN 1 ELSE v * y[n - 1]
               /\ Power(v, e) = y[e]
  BY <1>2, PowerStep
<1> DEFINE S == {n \in Nat : n <= NumParams => w[n] = y[Cardinality(B(n))]}
<1>6. 0 \in S
  <2>1. B(0) = {}
    OBVIOUS
  <2>2. Cardinality(B(0)) = 0
    BY <2>1, FS_EmptySet
  <2>3. w[0] = 1 /\ y[0] = 1
    BY <1>1, <1>2, <1>4, <1>5 DEF IsProduct
  <2> QED
    BY <2>2, <2>3
<1>7. ASSUME NEW n \in Nat, n \in S
      PROVE  n + 1 \in S
  <2> SUFFICES ASSUME n + 1 <= NumParams
               PROVE  w[n + 1] = y[Cardinality(B(n + 1))]
    OBVIOUS
  <2>1. n + 1 \in Params /\ n + 1 \in 0..NumParams /\ n \in 0..NumParams
    BY <1>1 DEF Params
  <2>2. w[n + 1] = w[n] * c[n + 1] /\ w[n] \in Nat
    BY <1>4, <2>1 DEF IsProduct
  <2>3. w[n] = y[Cardinality(B(n))]
    BY <1>7, <2>1
  <2>4. CASE n + 1 \in A
    <3>1. B(n + 1) = B(n) \cup {n + 1} /\ n + 1 \notin B(n)
      BY <2>4
    <3> HIDE DEF B
    <3>2. Cardinality(B(n + 1)) = Cardinality(B(n)) + 1
      BY <1>3, <3>1, FS_AddElement
    <3>3. y[Cardinality(B(n + 1))] = v * y[Cardinality(B(n))]
      <4> DEFINE k == Cardinality(B(n))
                 k1 == Cardinality(B(n + 1))
      <4>1. k \in 0..e /\ k1 \in 0..e /\ k1 = k + 1
        BY <1>3, <3>2
      <4> HIDE DEF k, k1
      <4> QED
        BY <1>2, <1>5, <4>1 DEF k, k1
    <3>4. c[n + 1] = v
      BY <2>1, <2>4
    <3>5. w[n] * v = v * w[n]
      BY <2>2
    <3> QED
      BY <2>2, <2>3, <3>3, <3>4, <3>5
  <2>5. CASE n + 1 \notin A
    <3>1. B(n + 1) = B(n)
      BY <2>5
    <3>2. c[n + 1] = 1
      BY <2>1, <2>5
    <3> HIDE DEF B
    <3> QED
      BY <2>2, <2>3, <3>1, <3>2
  <2> QED
    BY <2>4, <2>5
<1>8. \A n \in Nat : n \in S
  <2> HIDE DEF S
  <2> QED
    BY <1>6, <1>7, SetInduction
<1>9. B(NumParams) = A
  BY DEF Params
<1>10. w[NumParams] = y[Cardinality(B(NumParams))]
  <2> HIDE DEF B
  <2> QED
    BY <1>1, <1>8
<1> HIDE DEF B
<1> QED
  BY <1>4, <1>5, <1>9, <1>10 DEF e

\* One count of 0 makes a sweep of no spectra.
LEMMA ZeroProduct ==
    ASSUME NEW c \in [Params -> Nat], NEW p \in Params, c[p] = 0
    PROVE  Product(c) = 0
<1>1. NumParams \in Nat
  BY SweepAssumption, IndexAssumption
<1>2. PICK w : IsProduct(c, w) /\ Product(c) = w[NumParams]
  BY ProductExists
<1> DEFINE S == {n \in Nat : p + n <= NumParams => w[p + n] = 0}
<1>3. 0 \in S
  <2>1. p \in 0..NumParams /\ p # 0 /\ p + 0 = p /\ p - 1 \in 0..NumParams
    BY <1>1 DEF Params
  <2>2. w[p] = w[p - 1] * 0 /\ w[p - 1] \in Nat
    BY <1>2, <2>1 DEF IsProduct
  <2> QED
    BY <2>1, <2>2
<1>4. ASSUME NEW n \in Nat, n \in S
      PROVE  n + 1 \in S
  <2> SUFFICES ASSUME p + (n + 1) <= NumParams
               PROVE  w[p + (n + 1)] = 0
    OBVIOUS
  <2>2. w[p + n] = 0
    BY <1>1, <1>4 DEF Params
  <2> DEFINE q == p + (n + 1)
  <2>3. q \in Params /\ q \in 0..NumParams /\ q # 0 /\ q - 1 = p + n
    BY <1>1 DEF Params
  <2> HIDE DEF q
  <2>4. w[q - 1] = 0
    BY <2>2, <2>3
  <2>5. \A k \in 0..NumParams : w[k] = IF k = 0 THEN 1 ELSE w[k - 1] * c[k]
    BY <1>2 DEF IsProduct
  <2>6. w[q] = w[q - 1] * c[q]
    BY <2>3, <2>5
  <2>7. 0 * c[q] = 0
    BY <2>3
  <2> QED
    BY <2>4, <2>6, <2>7 DEF q
<1>5. \A n \in Nat : n \in S
  <2> HIDE DEF S
  <2> QED
    BY <1>3, <1>4, SetInduction
<1>6. NumParams - p \in Nat /\ p + (NumParams - p) = NumParams
  BY <1>1 DEF Params
<1> QED
  BY <1>1, <1>2, <1>5, <1>6

\* What ClosestFromBelow says of a call.
TotalMet ==
    LET swept == Active(count)
        more  == [p \in Params |-> IF p \in swept THEN count'[p] + 1 ELSE 1]
    IN  /\ <<call'.arg, Cardinality(swept)>> \notin PowOver
              => Combinations' <= call'.arg
        /\ <<call'.arg, Cardinality(swept)>> \notin PowShort
              => Product(more) > call'.arg
        /\ Fits' /\ (\A p \in Params : count'[p] >= 1)
              => call'.ret = RequiredSteps(count')

\* One call of setParamSweepCountClosestTotal.
LEMMA StepClosest ==
    ASSUME TypeOK, NEW total \in Totals, SetParamSweepCountClosestTotal(total)
    PROVE  TotalMet
<1> DEFINE swept  == Active(count)
           active == Cardinality(swept)
           each   == CountPerParam(total, active)
           more   == [p \in Params |-> IF p \in swept THEN count'[p] + 1 ELSE 1]
<1>1. /\ active >= 1
      /\ count' = [p \in Params |-> IF count[p] > 1 THEN each ELSE count[p]]
      /\ call' = [op |-> "setTotal", arg |-> total, ret |-> Power(each, active)]
  BY DEF SetParamSweepCountClosestTotal
<1>2. /\ each \in Nat /\ Power(each, active) \in Nat
      /\ <<total, active>> \notin PowOver => Power(each, active) <= total
      /\ <<total, active>> \notin PowShort => Power(each + 1, active) > total
  BY <1>1, EachBounds, WordFacts
<1>3. total \in Nat /\ total < Word /\ Word \in Nat
  BY WordFacts
<1>4. swept \in SUBSET Params /\ \A p \in Params : p \in swept <=> count[p] > 1
  BY DEF Active
<1>5. \A p \in Params : count[p] \in Nat
  BY WordFacts DEF TypeOK
<1> HIDE DEF each, active, swept
<1>6. \A p \in Params : count'[p] = IF p \in swept THEN each ELSE count[p]
  BY <1>1, <1>4
<1>7. count' \in [Params -> Nat]
  BY <1>1, <1>2, <1>5
<1>8. (\A p \in Params : count'[p] >= 1) => Product(count') = Power(each, active)
  <2> SUFFICES ASSUME \A p \in Params : count'[p] >= 1
               PROVE  Product(count') = Power(each, active)
    OBVIOUS
  <2>1. \A p \in Params : count'[p] = IF p \in swept THEN each ELSE 1
    BY <1>4, <1>5, <1>6
  <2> QED
    BY <1>2, <1>4, <1>7, <2>1, UniformProduct DEF active
<1>9. <<total, active>> \notin PowOver => Product(count') <= total
  <2> SUFFICES ASSUME <<total, active>> \notin PowOver
               PROVE  Product(count') <= total
    OBVIOUS
  <2>1. CASE \A p \in Params : count'[p] >= 1
    BY <1>2, <1>8, <2>1
  <2>2. CASE \E p \in Params : count'[p] = 0
    BY <1>3, <1>7, <2>2, ZeroProduct
  <2> QED
    BY <1>7, <2>1, <2>2
<1>10. Product(more) = Power(each + 1, active)
  <2>1. \A p \in Params : more[p] = IF p \in swept THEN each + 1 ELSE 1
    BY <1>6
  <2>2. more \in [Params -> Nat] /\ each + 1 \in Nat
    BY <1>2, <1>7
  <2> HIDE DEF more
  <2> QED
    BY <1>4, <2>1, <2>2, UniformProduct DEF active
<1>12. Combinations' = Product(count') /\ (Fits' <=> Product(count') < Word)
  BY DEF Combinations, Fits
<1>11. Fits' /\ (\A p \in Params : count'[p] >= 1) =>
          RequiredSteps(count') = Power(each, active)
  <2> SUFFICES ASSUME Fits', \A p \in Params : count'[p] >= 1
               PROVE  RequiredSteps(count') = Power(each, active)
    OBVIOUS
  <2>1. Product(count') = Power(each, active)
    BY <1>8
  <2>2. Product(count') < Word
    BY <1>12
  <2> QED
    BY <1>7, <2>1, <2>2, RequiredIsProduct
<1>13. call'.arg = total /\ call'.ret = Power(each, active)
  BY <1>1
<1> HIDE DEF more
<1> QED
  BY <1>2, <1>9, <1>10, <1>11, <1>12, <1>13 DEF swept, active, more, TotalMet

\* The sweep comes as close to the requested total as it can from below, and
\* the call returns the number of spectra of the sweep.
THEOREM ClosestCorrect == Spec => [][ClosestFromBelow]_vars
<1>1. ASSUME TypeOK, Next, call'.op = "setTotal", Active(count) # {}
      PROVE  TotalMet
  <2>1. ASSUME NEW total \in Totals, SetParamSweepCountClosestTotal(total)
        PROVE  TotalMet
    BY <1>1, <2>1, StepClosest
  <2>2. ASSUME NEW total \in Totals, SetTotalIgnored(total)
        PROVE  FALSE
    BY <1>1, <2>2 DEF SetTotalIgnored
  <2>3. ASSUME NEW index \in Indices, ResolveSteps(index) \/ ResolveStepsDies(index)
        PROVE  FALSE
    BY <1>1, <2>3 DEF ResolveSteps, ResolveStepsDies
  <2>4. ASSUME NEW c \in Componants, SetParamRanges(c)
        PROVE  FALSE
    BY <1>1, <2>4 DEF SetParamRanges
  <2> QED
    BY <1>1, <2>1, <2>2, <2>3, <2>4 DEF Next
<1>2. TypeOK /\ [Next]_vars => [ClosestFromBelow]_vars
  BY <1>1 DEF TotalMet, ClosestFromBelow
<1> QED
  BY <1>2, TypeCorrect, PTL DEF Spec

\* setParamSweepCountClosestTotal keeps to the total it was given, by fewer
\* values of each parameter and not by fewer parameters.
THEOREM TotalCorrect == Spec => TotalHonoured
  BY ClosestCorrect, SweptSetCorrect, PTL DEF TotalHonoured

-----------------------------------------------------------------------------
\* A step within its count stays there, unless the caller takes it out.
LEMMA StepStays ==
    ASSUME IInv, Next, NEW q \in Params, step[q] < count[q], step'[q] >= count'[q]
    PROVE  \/ /\ call'.op = "setTotal"
              /\ q \in Active(count)
              /\ step[q] # 0 \/ call'.arg = 0
           \/ call'.op = "resolveSteps" /\ call'.arg >= RequiredSteps(count)
           \/ call'.op = "setParamRanges"
<1>0. count \in [Params -> Nat] /\ step[q] \in Nat /\ count[q] \in Nat
  BY WordFacts DEF IInv, TypeOK
<1>1. ASSUME NEW index \in Indices, ResolveSteps(index)
      PROVE  call'.op = "resolveSteps" /\ call'.arg >= RequiredSteps(count)
  <2>1. index \in Nat /\ RequiredSteps(count) \in Nat
    BY <1>0, WordFacts, RequiredExists, IndexAssumption DEF IsRequired
  <2>2. step' = Steps(count, index) /\ count' = count
        /\ call' = [op |-> "resolveSteps", arg |-> index, ret |-> 0]
    BY <1>1 DEF ResolveSteps
  <2>3. index < RequiredSteps(count) => step'[q] \in Nat /\ step'[q] < count'[q]
    BY <1>0, <2>1, <2>2, IndexDecodes
  <2> QED
    BY <1>0, <2>1, <2>2, <2>3
<1>2. ASSUME NEW index \in Indices, ResolveStepsDies(index)
      PROVE  FALSE
  BY <1>0, <1>2 DEF ResolveStepsDies
<1>3. ASSUME NEW total \in Totals, SetParamSweepCountClosestTotal(total)
      PROVE  /\ call'.op = "setTotal"
             /\ q \in Active(count)
             /\ step[q] # 0 \/ call'.arg = 0
  <2> DEFINE active == Cardinality(Active(count))
             each   == CountPerParam(total, active)
  <2>1. /\ active >= 1 /\ step' = step
        /\ count' = [p \in Params |-> IF count[p] > 1 THEN each ELSE count[p]]
        /\ call' = [op |-> "setTotal", arg |-> total, ret |-> Power(each, active)]
    BY <1>3 DEF SetParamSweepCountClosestTotal
  <2>2. each \in 0..(Word - 1) /\ (total >= 1 => each >= 1)
    BY <2>1, EachBounds
  <2>3. total \in Nat /\ each \in Nat
    BY <2>2, WordFacts
  <2> HIDE DEF each, active
  <2>4. count[q] > 1
    BY <1>0, <2>1
  <2>5. q \in Active(count) /\ count'[q] = each
    BY <2>1, <2>4 DEF Active
  <2>6. step[q] >= each
    BY <2>1, <2>5
  <2>7. step[q] # 0 \/ total = 0
    BY <1>0, <2>2, <2>3, <2>6
  <2> QED
    BY <2>1, <2>5, <2>7
<1>4. ASSUME NEW total \in Totals, SetTotalIgnored(total)
      PROVE  FALSE
  BY <1>0, <1>4 DEF SetTotalIgnored
<1>5. ASSUME NEW c \in Componants, SetParamRanges(c)
      PROVE  call'.op = "setParamRanges"
  BY <1>5 DEF SetParamRanges
<1> QED
  BY <1>1, <1>2, <1>3, <1>4, <1>5 DEF Next

\* No parameter is left past its values but by the calls that are named.
THEOREM StrandedCorrect == Spec => StepStrandedOnlyByCaller
<1> DEFINE A == \A p \in Params : step[p] < count[p] /\ step'[p] >= count'[p] =>
                   \/ /\ call'.op = "setTotal"
                      /\ p \in Active(count)
                      /\ step[p] # 0 \/ call'.arg = 0
                   \/ call'.op = "resolveSteps" /\ call'.arg >= RequiredSteps(count)
                   \/ call'.op = "setParamRanges"
<1>1. IInv /\ [Next]_vars => [A]_vars
  BY StepStays
<1> QED
  BY <1>1, InitInvariant, NextInvariant, PTL DEF Spec, StepStrandedOnlyByCaller
=============================================================================
