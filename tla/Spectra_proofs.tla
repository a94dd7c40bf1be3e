---------------------------- MODULE Spectra_proofs ----------------------------
(***************************************************************************)
(* Proofs about the functions on spectra, for every set of inputs: every   *)
(* number of points, every omega and every impedance, also those that are  *)
(* infinite or not a number.                                               *)
(***************************************************************************)
EXTENDS SpectraProps, Induction, FiniteSetTheorems, SequenceTheorems, TLAPS

-------------------------------------------------------------------------------
(***************************************************************************)
(* Fractions                                                               *)
(***************************************************************************)
\* Signs of products.
LEMMA Products ==
    /\ \A x, y \in Int : x > 0 /\ y > 0 => x * y > 0
    /\ \A x, y \in Int : x >= 0 /\ y >= 0 => x * y >= 0
    /\ \A x, y \in Int : x > 0 /\ y < 0 => x * y < 0
    /\ \A x, y \in Int : x * y \in Int /\ x * y = y * x
<1>1. \A x, y \in Int : x > 0 /\ y > 0 => x * y > 0
  OBVIOUS
<1>2. \A x, y \in Int : x >= 0 /\ y >= 0 => x * y >= 0
  OBVIOUS
<1>3. \A x, y \in Int : x > 0 /\ y < 0 => x * y < 0
  OBVIOUS
<1> QED
  BY <1>1, <1>2, <1>3

\* A common factor above 0 does not change an order.
LEMMA Cancel ==
    ASSUME NEW x \in Int, NEW y \in Int, NEW g \in Int, g > 0
    PROVE  /\ x * g < y * g <=> x < y
           /\ x * g = y * g <=> x = y
<1>1. (y - x) * g = y * g - x * g
  OBVIOUS
<1>2. y - x > 0 => (y - x) * g > 0
  OBVIOUS
<1>3. x - y > 0 => (x - y) * g > 0
  OBVIOUS
<1>4. (x - y) * g = x * g - y * g
  OBVIOUS
<1>5. x * g \in Int /\ y * g \in Int
  OBVIOUS
<1> QED
  BY <1>1, <1>2, <1>3, <1>4, <1>5

\* A factor divides.
LEMMA Quotient ==
    ASSUME NEW x \in Int, NEW g \in Int, g > 0
    PROVE  (x * g) \div g = x
<1> DEFINE d == (x * g) \div g
           r == (x * g) % g
<1>1. d \in Int /\ r \in Int /\ x * g = g * d + r /\ 0 <= r /\ r < g
  OBVIOUS
<1> HIDE DEF d, r
<1>2. PICK e \in Int : e = x - d
  BY <1>1
<1>3. e * g = r
  BY <1>1, <1>2
<1>4. e <= 0
  <2> SUFFICES ASSUME e >= 1
               PROVE  FALSE
    BY <1>2
  <2>1. (e - 1) * g >= 0
    BY <1>2
  <2>2. e * g = (e - 1) * g + g
    BY <1>2
  <2> QED
    BY <1>1, <1>3, <2>1, <2>2
<1>5. e >= 0
  <2> SUFFICES ASSUME e <= -1
               PROVE  FALSE
    BY <1>2
  <2>1. (-e) * g > 0
    BY <1>2
  <2>2. (-e) * g = -(e * g)
    BY <1>2
  <2> QED
    BY <1>1, <1>3, <2>1, <2>2
<1>6. d = x
  BY <1>1, <1>2, <1>4, <1>5
<1> QED
  BY <1>6 DEF d

\* The function that Gcd recurses over.
IsGcd(f, n) ==
    /\ f \in [0..n -> [Nat -> Nat]]
    /\ \A k \in 0..n : f[k] = [i \in Nat |-> IF k = 0 THEN i ELSE f[i % k][k]]

\* There is one.
LEMMA GcdExists ==
    \A n \in Nat : \E f : IsGcd(f, n)
<1> DEFINE S == {n \in Nat : \E f : IsGcd(f, n)}
<1>1. 0 \in S
  <2> DEFINE f == [k \in 0..0 |-> [i \in Nat |-> i]]
  <2>1. f \in [0..0 -> [Nat -> Nat]]
    OBVIOUS
  <2>2. \A k \in 0..0 : k = 0 /\ f[k] = [i \in Nat |-> i]
    OBVIOUS
  <2>3. \A k \in 0..0 : f[k] = [i \in Nat |-> IF k = 0 THEN i ELSE f[i % k][k]]
    BY <2>2
  <2> QED
    BY <2>1, <2>3 DEF IsGcd
<1>2. ASSUME NEW n \in Nat, n \in S
      PROVE  n + 1 \in S
  <2>1. PICK f : IsGcd(f, n)
    BY <1>2
  <2> DEFINE last == [i \in Nat |-> f[i % (n + 1)][n + 1]]
             g == [k \in 0..(n + 1) |-> IF k = n + 1 THEN last ELSE f[k]]
  <2>2. \A i \in Nat : i % (n + 1) \in 0..n
    OBVIOUS
  <2>3. last \in [Nat -> Nat]
    BY <2>1, <2>2 DEF IsGcd
  <2>4. g \in [0..(n + 1) -> [Nat -> Nat]]
    <3> HIDE DEF last
    <3>1. \A k \in 0..(n + 1) : k # n + 1 => k \in 0..n
      OBVIOUS
    <3>2. \A k \in 0..(n + 1) : (IF k = n + 1 THEN last ELSE f[k]) \in [Nat -> Nat]
      BY <2>1, <2>3, <3>1 DEF IsGcd
    <3> QED
      BY <3>2
  <2>5. ASSUME NEW k \in 0..(n + 1)
        PROVE  g[k] = [i \in Nat |-> IF k = 0 THEN i ELSE g[i % k][k]]
    <3>1. CASE k = n + 1
      <4>1. \A i \in Nat : g[i % k] = f[i % k]
        <5> TAKE i \in Nat
        <5>1. i % (n + 1) \in 0..n
          BY <2>2
        <5>2. i % (n + 1) # n + 1 /\ i % (n + 1) \in 0..(n + 1)
          BY <5>1
        <5> HIDE DEF last
        <5> QED
          BY <3>1, <5>2
      <4>2. g[k] = last /\ k # 0
        BY <3>1
      <4> HIDE DEF g
      <4> QED
        BY <3>1, <4>1, <4>2
    <3>2. CASE k \in 0..n
      <4>1. g[k] = f[k]
        BY <3>2
      <4>2. \A i \in Nat : k # 0 => g[i % k] = f[i % k]
        <5> TAKE i \in Nat
        <5>1. k # 0 => i % k \in 0..n
          BY <3>2
        <5>2. k # 0 => i % k # n + 1 /\ i % k \in 0..(n + 1)
          BY <5>1
        <5> HIDE DEF last
        <5> QED
          BY <5>2
      <4> HIDE DEF g, last
      <4> QED
        BY <2>1, <3>2, <4>1, <4>2 DEF IsGcd
    <3> QED
      BY <3>1, <3>2
  <2> HIDE DEF g
  <2>6. IsGcd(g, n + 1)
    BY <2>4, <2>5 DEF IsGcd
  <2> QED
    BY <2>6
<1>3. \A n \in Nat : n \in S
  <2> HIDE DEF S
  <2> QED
    BY <1>1, <1>2, SetInduction
<1> QED
  BY <1>3

Divides(d, n) == \E m \in Nat : n = m * d

\* It is above 0 and divides both, unless both are 0.
LEMMA GcdDivides ==
    ASSUME NEW m \in Nat, NEW n \in Nat, m > 0 \/ n > 0
    PROVE  /\ Gcd(m, n) \in Nat /\ Gcd(m, n) > 0
           /\ Divides(Gcd(m, n), m) /\ Divides(Gcd(m, n), n)
<1> DEFINE f == CHOOSE f : f = [k \in 0..n |-> [i \in Nat |-> IF k = 0 THEN i ELSE f[i % k][k]]]
<1>1. PICK g : IsGcd(g, n)
  BY GcdExists
<1>2. g = [k \in 0..n |-> [i \in Nat |-> IF k = 0 THEN i ELSE g[i % k][k]]]
  <2> DEFINE h == [k \in 0..n |-> [i \in Nat |-> IF k = 0 THEN i ELSE g[i % k][k]]]
  <2>1. DOMAIN g = 0..n /\ g = [k \in DOMAIN g |-> g[k]]
    BY <1>1 DEF IsGcd
  <2>2. \A k \in 0..n : h[k] = g[k]
    BY <1>1 DEF IsGcd
  <2>3. DOMAIN h = 0..n /\ h = [k \in DOMAIN h |-> h[k]]
    OBVIOUS
  <2> HIDE DEF h
  <2>4. h = g
    BY <2>1, <2>2, <2>3
  <2> QED
    BY <2>4 DEF h
<1>3. f = [k \in 0..n |-> [i \in Nat |-> IF k = 0 THEN i ELSE f[i % k][k]]]
  BY <1>2
<1>4. Gcd(m, n) = f[n][m]
  BY DEF Gcd
<1> HIDE DEF f
<1>5. \A k \in 0..n, i \in Nat : f[k][i] = IF k = 0 THEN i ELSE f[i % k][k]
  <2> TAKE k \in 0..n, i \in Nat
  <2>1. f[k] = [j \in Nat |-> IF k = 0 THEN j ELSE f[j % k][k]]
    BY <1>3
  <2> QED
    BY <2>1
<1> DEFINE Good(d, k, i) == d \in Nat /\ d > 0 /\ Divides(d, k) /\ Divides(d, i)
           S == {k \in Nat : k <= n => \A i \in Nat : k > 0 \/ i > 0 => Good(f[k][i], k, i)}
<1>6. ASSUME NEW k \in Nat, \A j \in 0..(k - 1) : j \in S
      PROVE  k \in S
  <2> SUFFICES ASSUME k <= n, NEW i \in Nat, k > 0 \/ i > 0
               PROVE  Good(f[k][i], k, i)
    OBVIOUS
  <2>1. CASE k = 0
    <3>1. f[k][i] = i
      BY <1>5, <2>1
    <3>2. 0 = 0 * i /\ i = 1 * i
      OBVIOUS
    <3>3. Divides(i, 0) /\ Divides(i, i)
      BY <3>2 DEF Divides
    <3> QED
      BY <2>1, <3>1, <3>3
  <2>2. CASE k > 0
    <3> DEFINE j == i % k
    <3>1. j \in 0..(k - 1) /\ j \in Nat /\ j <= n /\ i \div k \in Nat /\ i = k * (i \div k) + j
      BY <2>2
    <3>2. f[k][i] = f[j][k]
      <4>1. k \in 0..n /\ k # 0
        BY <2>2
      <4> QED
        BY <1>5, <4>1
    <3> HIDE DEF j
    <3>3. Good(f[j][k], j, k)
      BY <1>6, <2>2, <3>1
    <3>4. PICK d : d = f[j][k]
      OBVIOUS
    <3>5. PICK a \in Nat, b \in Nat : j = a * d /\ k = b * d
      BY <3>3, <3>4 DEF Divides
    <3>6. PICK c \in Nat : c = i \div k
      BY <3>1
    <3>7. i = (b * c + a) * d
      <4>1. d \in Nat
        BY <3>3, <3>4
      <4>2. i = (b * d) * c + a * d
        BY <3>1, <3>5, <3>6
      <4> QED
        BY <4>1, <4>2
    <3>8. b * c + a \in Nat
      OBVIOUS
    <3>9. Divides(d, i)
      BY <3>7, <3>8 DEF Divides
    <3> QED
      BY <3>2, <3>3, <3>4, <3>9
  <2> QED
    BY <2>1, <2>2
<1>7. n \in S
  <2> HIDE DEF S
  <2> QED
    BY <1>6, StrongInduction
<1>8. Good(f[n][m], n, m)
  BY <1>7
<1> QED
  BY <1>4, <1>8

\* A reduced fraction is the fraction.
LEMMA FractionReduced ==
    ASSUME NEW p \in Int, NEW q \in Nat, q > 0
    PROVE  /\ Fraction(p, q) \in Finites
           /\ Fraction(p, q)[1] * q = p * Fraction(p, q)[2]
<1> DEFINE g == Gcd(Abs(p), q)
<1>1. Abs(p) \in Nat /\ (p = Abs(p) \/ p = -Abs(p))
  BY DEF Abs
<1>2. g \in Nat /\ g > 0 /\ Divides(g, Abs(p)) /\ Divides(g, q)
  BY <1>1, GcdDivides
<1>3. Fraction(p, q) = <<p \div g, q \div g>>
  BY DEF Fraction, InLowestTerms
<1> HIDE DEF g
<1>4. PICK a \in Nat, b \in Nat : Abs(p) = a * g /\ q = b * g
  BY <1>2 DEF Divides
<1>5. PICK c \in Int : p = c * g
  <2>1. (-a) * g = -(a * g)
    BY <1>2
  <2>2. p = a * g \/ p = (-a) * g
    BY <1>1, <1>4, <2>1
  <2> QED
    BY <2>2
<1>6. p \div g = c /\ q \div g = b
  BY <1>2, <1>4, <1>5, Quotient
<1>7. b > 0
  <2>1. b = 0 => b * g = 0
    BY <1>2
  <2> QED
    BY <1>4, <2>1
<1>8. c * q = p * b
  BY <1>2, <1>4, <1>5
<1> QED
  BY <1>3, <1>6, <1>7, <1>8 DEF Finites

\* Denominators divided by what they have in common.
LEMMA ScaledFinite ==
    ASSUME NEW x \in Finites, NEW y \in Finites
    PROVE  \E a, b, g \in Nat :
             /\ a > 0 /\ b > 0 /\ g > 0 /\ x[2] = a * g /\ y[2] = b * g
             /\ Scaled(x, y) = <<x[1] * b, y[1] * a, x[2], b>>
<1> DEFINE g == Gcd(x[2], y[2])
<1>1. x[2] \in Nat /\ x[2] > 0 /\ y[2] \in Nat /\ y[2] > 0
  BY DEF Finites
<1>2. g \in Nat /\ g > 0 /\ Divides(g, x[2]) /\ Divides(g, y[2])
  BY <1>1, GcdDivides
<1>3. Scaled(x, y) = <<x[1] * (y[2] \div g), y[1] * (x[2] \div g), x[2], y[2] \div g>>
  BY DEF Scaled, ScaledBy
<1> HIDE DEF g
<1>4. PICK a \in Nat, b \in Nat : x[2] = a * g /\ y[2] = b * g
  BY <1>2 DEF Divides
<1>5. x[2] \div g = a /\ y[2] \div g = b
  BY <1>2, <1>4, Quotient
<1>6. a > 0 /\ b > 0
  <2>1. (a = 0 => a * g = 0) /\ (b = 0 => b * g = 0)
    BY <1>2
  <2> QED
    BY <1>1, <1>4, <2>1
<1> QED
  BY <1>2, <1>3, <1>4, <1>5, <1>6

\* The order of finite values, by their numerators and denominators.
LEMMA LessFinite ==
    ASSUME NEW x \in Finites, NEW y \in Finites
    PROVE  Less(x, y) <=> x[1] * y[2] < y[1] * x[2]
<1>1. Finite(x) /\ Finite(y) /\ x[1] \in Int /\ y[1] \in Int
  BY DEF Finites, Finite
<1>2. PICK a, b, g \in Nat :
             /\ a > 0 /\ b > 0 /\ g > 0 /\ x[2] = a * g /\ y[2] = b * g
             /\ Scaled(x, y) = <<x[1] * b, y[1] * a, x[2], b>>
  BY ScaledFinite
<1>3. Less(x, y) <=> x[1] * b < y[1] * a
  BY <1>1, <1>2 DEF Less, Ascending
<1>4. x[1] * b \in Int /\ y[1] * a \in Int
  BY <1>1
<1>5. x[1] * b < y[1] * a <=> (x[1] * b) * g < (y[1] * a) * g
  BY <1>2, <1>4, Cancel
<1>6. x[1] * y[2] = (x[1] * b) * g /\ y[1] * x[2] = (y[1] * a) * g
  BY <1>1, <1>2
<1> QED
  BY <1>3, <1>5, <1>6

\* The sum of finite values is the sum of the fractions.
LEMMA PlusFinite ==
    ASSUME NEW x \in Finites, NEW y \in Finites
    PROVE  /\ Plus(x, y) \in Finites
           /\ Plus(x, y)[1] * (x[2] * y[2]) = (x[1] * y[2] + y[1] * x[2]) * Plus(x, y)[2]
<1>1. Finite(x) /\ Finite(y) /\ x[1] \in Int /\ y[1] \in Int /\ x[2] \in Nat /\ x[2] > 0
  BY DEF Finites, Finite
<1>2. PICK a, b, g \in Nat :
             /\ a > 0 /\ b > 0 /\ g > 0 /\ x[2] = a * g /\ y[2] = b * g
             /\ Scaled(x, y) = <<x[1] * b, y[1] * a, x[2], b>>
  BY ScaledFinite
<1>3. Plus(x, y) = Fraction(x[1] * b + y[1] * a, x[2] * b)
  BY <1>1, <1>2 DEF Plus, Total
<1>4. x[1] * b + y[1] * a \in Int /\ x[2] * b \in Nat /\ x[2] * b > 0
  BY <1>1, <1>2, Products
<1>5. PICK f : f = Plus(x, y)
  OBVIOUS
<1>6. f \in Finites /\ f[1] * (x[2] * b) = (x[1] * b + y[1] * a) * f[2]
  BY <1>3, <1>4, <1>5, FractionReduced
<1>7. f[1] * (x[2] * y[2]) = (x[1] * y[2] + y[1] * x[2]) * f[2]
  <2>0. PICK p, q, u, v, c \in Int : p = f[1] /\ q = f[2] /\ u = x[1] /\ v = y[1] /\ c = x[2]
    BY <1>1, <1>6 DEF Finites
  <2>1. p * (c * b) = (u * b + v * a) * q
    BY <1>6, <2>0
  <2>2. (p * (c * b)) * g = ((u * b + v * a) * q) * g
    BY <2>1
  <2>3. (p * (c * b)) * g = p * (c * (b * g))
    OBVIOUS
  <2>4. ((u * b + v * a) * q) * g = (u * (b * g) + v * (a * g)) * q
    OBVIOUS
  <2> QED
    BY <1>2, <2>0, <2>2, <2>3, <2>4
<1> QED
  BY <1>5, <1>6, <1>7

\* The product of finite values is the product of the fractions.
LEMMA TimesFinite ==
    ASSUME NEW x \in Finites, NEW y \in Finites
    PROVE  /\ Times(x, y) \in Finites
           /\ Times(x, y)[1] * (x[2] * y[2]) = (x[1] * y[1]) * Times(x, y)[2]
<1>1. x[1] * y[1] \in Int /\ x[2] * y[2] \in Nat /\ x[2] * y[2] > 0
  BY Products DEF Finites
<1> QED
  BY <1>1, FractionReduced DEF Times

\* The divisor is not 0.
LEMMA OverFinite ==
    ASSUME NEW x \in Finites, NEW y \in Finites, y[1] # 0
    PROVE  /\ Over(x, y) \in Finites
           /\ Over(x, y)[1] * (x[2] * y[1]) = (x[1] * y[2]) * Over(x, y)[2]
<1>1. x[1] \in Int /\ x[2] \in Nat /\ x[2] > 0 /\ y[1] \in Int /\ y[2] \in Nat
  BY DEF Finites
<1>2. PICK s \in {-1, 1} : s = (IF y[1] < 0 THEN -1 ELSE 1) /\ Abs(y[1]) = s * y[1]
  BY <1>1 DEF Abs
<1>3. s * x[1] * y[2] \in Int /\ x[2] * Abs(y[1]) \in Nat /\ x[2] * Abs(y[1]) > 0
  <2>1. Abs(y[1]) \in Nat /\ Abs(y[1]) > 0
    BY <1>1 DEF Abs
  <2> QED
    BY <1>1, <2>1, Products
<1>4. PICK f : f = Over(x, y)
  OBVIOUS
<1>5. f \in Finites /\ f[1] * (x[2] * Abs(y[1])) = (s * x[1] * y[2]) * f[2]
  BY <1>2, <1>3, <1>4, FractionReduced DEF Over
<1>6. f[1] * (x[2] * y[1]) = (x[1] * y[2]) * f[2]
  <2>0. PICK p, q, u, v, c, d \in Int : /\ p = f[1] /\ q = f[2] /\ u = x[1] /\ v = y[1]
                                        /\ c = x[2] /\ d = y[2]
    BY <1>1, <1>5 DEF Finites
  <2>1. p * (c * (s * v)) = (s * u * d) * q
    BY <1>2, <1>5, <2>0
  <2>2. CASE s = 1
    BY <2>0, <2>1, <2>2
  <2>3. CASE s = -1
    <3>1. p * (c * (-v)) = -(p * (c * v)) /\ (-u * d) * q = -((u * d) * q)
      OBVIOUS
    <3>2. s * v = -v /\ s * u = -u
      BY <2>3
    <3> QED
      BY <2>0, <2>1, <3>1, <3>2
  <2> QED
    BY <2>2, <2>3
<1> QED
  BY <1>4, <1>5, <1>6

\* The negative of a finite value.
LEMMA MinusFinite ==
    ASSUME NEW x \in Finites
    PROVE  Minus(x) \in Finites /\ Minus(x)[1] = -x[1] /\ Minus(x)[2] = x[2]
BY DEF Minus, Finites

\* The difference of finite values is the difference of the fractions.
LEMMA DifferenceFinite ==
    ASSUME NEW x \in Finites, NEW y \in Finites
    PROVE  /\ Difference(x, y) \in Finites
           /\ Difference(x, y)[1] * (x[2] * y[2])
                = (x[1] * y[2] - y[1] * x[2]) * Difference(x, y)[2]
<1>1. x[1] \in Int /\ x[2] \in Nat /\ y[1] \in Int /\ y[2] \in Nat
  BY DEF Finites
<1>2. PICK f : f = Difference(x, y)
  OBVIOUS
<1>3. /\ f \in Finites
      /\ f[1] * (x[2] * Minus(y)[2]) = (x[1] * Minus(y)[2] + Minus(y)[1] * x[2]) * f[2]
  BY <1>2, MinusFinite, PlusFinite DEF Difference
<1>4. x[1] * y[2] + (-y[1]) * x[2] = x[1] * y[2] - y[1] * x[2]
  BY <1>1
<1> QED
  BY <1>2, <1>3, <1>4, MinusFinite

\* A whole number as a value.
LEMMA WholeFinite ==
    ASSUME NEW n \in Int
    PROVE  Whole(n) \in Finites /\ Whole(n)[1] = n /\ Whole(n)[2] = 1
BY DEF Whole, Finites

\* x is at most y.
Leq(x, y) == ~Less(y, x)

\* At most, and the same, of finite values by their fractions.
LEMMA LeqFinite ==
    ASSUME NEW x \in Finites, NEW y \in Finites
    PROVE  /\ Leq(x, y) <=> x[1] * y[2] <= y[1] * x[2]
           /\ Same(x, y) <=> x[1] * y[2] = y[1] * x[2]
<1>1. /\ x[1] \in Int /\ y[1] \in Int /\ x[2] \in Int /\ y[2] \in Int
      /\ x # Nan /\ y # Nan
  BY DEF Finites, Nan
<1>2. x[1] * y[2] \in Int /\ y[1] * x[2] \in Int
  BY <1>1
<1>3. (Less(x, y) <=> x[1] * y[2] < y[1] * x[2]) /\ (Less(y, x) <=> y[1] * x[2] < x[1] * y[2])
  BY LessFinite
<1>4. Same(x, y) <=> ~Less(x, y) /\ ~Less(y, x)
  BY <1>1 DEF Same
<1>5. Leq(x, y) <=> ~Less(y, x)
  BY DEF Leq
<1> QED
  BY <1>2, <1>3, <1>4, <1>5

\* A total order, but that one number has many fractions.
LEMMA LeqTotal ==
    ASSUME NEW x \in Finites, NEW y \in Finites
    PROVE  /\ Leq(x, x) /\ (Leq(x, y) \/ Leq(y, x))
           /\ Same(x, y) <=> Leq(x, y) /\ Leq(y, x)
           /\ Less(x, y) <=> ~Leq(y, x)
           /\ Same(x, x) /\ (Same(x, y) <=> Same(y, x))
<1>1. /\ Leq(x, y) <=> x[1] * y[2] <= y[1] * x[2]
      /\ Leq(y, x) <=> y[1] * x[2] <= x[1] * y[2]
      /\ Same(x, y) <=> x[1] * y[2] = y[1] * x[2]
      /\ Same(y, x) <=> y[1] * x[2] = x[1] * y[2]
      /\ Leq(x, x) <=> x[1] * x[2] <= x[1] * x[2]
      /\ Same(x, x) <=> x[1] * x[2] = x[1] * x[2]
  BY LeqFinite
<1>2. x[1] * y[2] \in Int /\ y[1] * x[2] \in Int /\ x[1] * x[2] \in Int
  BY DEF Finites
<1> QED
  BY <1>1, <1>2 DEF Leq

\* At most is transitive among the finite values.
LEMMA LeqTransitive ==
    ASSUME NEW x \in Finites, NEW y \in Finites, NEW z \in Finites, Leq(x, y), Leq(y, z)
    PROVE  Leq(x, z)
<1>1. PICK a, b, c, d, e, f \in Int : /\ a = x[1] /\ b = x[2] /\ c = y[1] /\ d = y[2]
                                      /\ e = z[1] /\ f = z[2]
  BY DEF Finites
<1>2. b > 0 /\ d > 0 /\ f > 0
  BY <1>1 DEF Finites
<1>3. a * d <= c * b /\ c * f <= e * d
  BY <1>1, LeqFinite
<1>4. (c * b - a * d) * f >= 0 /\ (e * d - c * f) * b >= 0
  <2>1. c * b - a * d >= 0 /\ e * d - c * f >= 0 /\ c * b - a * d \in Int /\ e * d - c * f \in Int
    BY <1>3
  <2> QED
    BY <1>2, <2>1, Products
<1>5. (c * b - a * d) * f + (e * d - c * f) * b = (e * b - a * f) * d
  OBVIOUS
<1>6. (e * b - a * f) * d >= 0
  BY <1>4, <1>5
<1>7. e * b - a * f >= 0
  <2>1. e * b - a * f \in Int
    OBVIOUS
  <2>2. PICK w \in Int : w = e * b - a * f
    BY <2>1
  <2>3. w < 0 => d * w < 0
    BY <1>2, <2>2, Products
  <2>4. d * w = w * d
    OBVIOUS
  <2> QED
    BY <1>6, <2>2, <2>3, <2>4
<1>8. a * f <= e * b
  BY <1>7
<1> QED
  BY <1>1, <1>8, LeqFinite

\* The middle of two numbers lies between them.
LEMMA MiddleBetween ==
    ASSUME NEW x \in Finites, NEW y \in Finites
    PROVE  /\ Middle(x, y) \in Finites
           /\ Leq(x, y) => Leq(x, Middle(x, y)) /\ Leq(Middle(x, y), y)
           /\ Leq(y, x) => Leq(y, Middle(x, y)) /\ Leq(Middle(x, y), x)
<1>1. PICK s : s = Plus(x, y)
  OBVIOUS
<1>2. s \in Finites /\ s[1] * (x[2] * y[2]) = (x[1] * y[2] + y[1] * x[2]) * s[2]
  BY <1>1, PlusFinite
<1>3. PICK m : m = Middle(x, y)
  OBVIOUS
<1>4. m \in Finites /\ m[1] * (s[2] * 2) = (s[1] * 1) * m[2]
  BY <1>1, <1>2, <1>3, WholeFinite, OverFinite DEF Middle
<1>5. PICK a, b, c, d, e, f, p, q \in Int :
           /\ a = x[1] /\ b = x[2] /\ c = y[1] /\ d = y[2]
           /\ e = s[1] /\ f = s[2] /\ p = m[1] /\ q = m[2]
           /\ b > 0 /\ d > 0 /\ f > 0 /\ q > 0
  <2>1. \A z \in {x, y, s, m} : z[1] \in Int /\ z[2] \in Int /\ z[2] > 0
    BY <1>2, <1>4 DEF Finites
  <2>2. PICK a, b, c, d, e, f, p, q : /\ a = x[1] /\ b = x[2] /\ c = y[1] /\ d = y[2]
                                      /\ e = s[1] /\ f = s[2] /\ p = m[1] /\ q = m[2]
    OBVIOUS
  <2> QED
    BY <2>1, <2>2
<1>6. e * (b * d) = (a * d + c * b) * f /\ p * (f * 2) = e * q
  BY <1>2, <1>4, <1>5
<1>7. (2 * p * b * d) * f = ((a * d + c * b) * q) * f
  <2>1. (p * (f * 2)) * (b * d) = (e * q) * (b * d)
    BY <1>6
  <2>2. (e * q) * (b * d) = (e * (b * d)) * q
    OBVIOUS
  <2>3. (e * (b * d)) * q = ((a * d + c * b) * f) * q
    BY <1>6
  <2>4. ((a * d + c * b) * f) * q = ((a * d + c * b) * q) * f /\ (p * (f * 2)) * (b * d) = (2 * p * b * d) * f
    OBVIOUS
  <2> QED
    BY <2>1, <2>2, <2>3, <2>4
<1>8. 2 * p * b * d = (a * d + c * b) * q
  <2>1. PICK g, h \in Int : g = 2 * p * b * d /\ h = (a * d + c * b) * q
    OBVIOUS
  <2>2. g * f = h * f
    BY <1>7, <2>1
  <2>3. f \in Int /\ f > 0
    BY <1>5
  <2>4. g = h
    BY <2>2, <2>3, Cancel
  <2> QED
    BY <2>1, <2>4
<1>9. PICK u, v \in Int : u = a * d /\ v = c * b
  OBVIOUS
\* 2 (pb - aq) d = (v - u) q, and 2 (cq - pd) b = (v - u) q.
<1>10. (2 * (p * b - a * q)) * d = (v - u) * q
  <2>1. (2 * (p * b - a * q)) * d = 2 * p * b * d - 2 * ((a * d) * q)
    OBVIOUS
  <2>2. (u + v) * q - 2 * (u * q) = (v - u) * q
    OBVIOUS
  <2> QED
    BY <1>8, <1>9, <2>1, <2>2
<1>11. (2 * (c * q - p * d)) * b = (v - u) * q
  <2>1. (2 * (c * q - p * d)) * b = 2 * ((c * b) * q) - 2 * p * b * d
    <3>1. (2 * (c * q - p * d)) * b = 2 * ((c * q) * b) - 2 * ((p * d) * b)
      OBVIOUS
    <3>2. (c * q) * b = (c * b) * q /\ 2 * ((p * d) * b) = 2 * p * b * d
      OBVIOUS
    <3> QED
      BY <3>1, <3>2
  <2>2. 2 * (v * q) - (u + v) * q = (v - u) * q
    OBVIOUS
  <2> QED
    BY <1>8, <1>9, <2>1, <2>2
<1>12. /\ u <= v => a * q <= p * b /\ p * d <= c * q
       /\ v <= u => p * b <= a * q /\ c * q <= p * d
  <2>1. PICK g, h, k \in Int : g = p * b - a * q /\ h = c * q - p * d /\ k = v - u
    OBVIOUS
  <2>2. (2 * g) * d = k * q /\ (2 * h) * b = k * q
    BY <1>10, <1>11, <2>1
  <2>3. (k >= 0 => k * q >= 0) /\ (k <= 0 => k * q <= 0)
    <3>1. (-k) * q = -(k * q)
      OBVIOUS
    <3>2. k <= 0 => (-k) * q >= 0
      BY <1>5, Products
    <3> QED
      BY <1>5, <3>1, <3>2, Products
  <2>4. (2 * g < 0 => d * (2 * g) < 0) /\ (2 * h < 0 => b * (2 * h) < 0)
    BY <1>5, Products
  <2>5. (2 * g > 0 => (2 * g) * d > 0) /\ (2 * h > 0 => (2 * h) * b > 0)
    BY <1>5, Products
  <2>6. d * (2 * g) = (2 * g) * d /\ b * (2 * h) = (2 * h) * b
    OBVIOUS
  <2>7. (k >= 0 => g >= 0 /\ h >= 0) /\ (k <= 0 => g <= 0 /\ h <= 0)
    BY <2>2, <2>3, <2>4, <2>5, <2>6
  <2> QED
    BY <2>1, <2>7
<1>13. /\ Leq(x, y) <=> u <= v
       /\ Leq(y, x) <=> v <= u
       /\ Leq(x, m) <=> a * q <= p * b
       /\ Leq(m, y) <=> p * d <= c * q
       /\ Leq(y, m) <=> c * q <= p * d
       /\ Leq(m, x) <=> p * b <= a * q
  BY <1>2, <1>4, <1>5, <1>9, LeqFinite
<1> QED
  BY <1>3, <1>4, <1>12, <1>13

(***************************************************************************)
(* Fractions over a common denominator                                     *)
(***************************************************************************)
\* x is n/d.
Is(x, n, d) ==
    x \in Finites /\ n \in Int /\ d \in Int /\ d > 0 /\ x[1] * d = n * x[2]

\* Three finite values have a common denominator.
LEMMA CommonDenominator ==
    ASSUME NEW x \in Finites, NEW y \in Finites, NEW z \in Finites
    PROVE  \E a, b, c, d \in Int : Is(x, a, d) /\ Is(y, b, d) /\ Is(z, c, d)
<1>1. /\ x[1] \in Int /\ x[2] \in Int /\ x[2] > 0
      /\ y[1] \in Int /\ y[2] \in Int /\ y[2] > 0
      /\ z[1] \in Int /\ z[2] \in Int /\ z[2] > 0
  BY DEF Finites
<1> DEFINE d == x[2] * (y[2] * z[2])
<1>2. y[2] * z[2] > 0 /\ y[2] * z[2] \in Int
  BY <1>1, Products
<1>3. d > 0 /\ d \in Int
  BY <1>1, <1>2, Products
<1>4. Is(x, x[1] * (y[2] * z[2]), d)
  BY <1>1, <1>3 DEF Is
<1>5. Is(y, y[1] * (x[2] * z[2]), d)
  BY <1>1, <1>3 DEF Is
<1>6. Is(z, z[1] * (x[2] * y[2]), d)
  BY <1>1, <1>3 DEF Is
<1> QED
  BY <1>4, <1>5, <1>6, <1>3 DEF Is

\* Over a common denominator the numerators decide the order.
LEMMA LeqIs ==
    ASSUME NEW x, NEW y, NEW a, NEW b, NEW d, Is(x, a, d), Is(y, b, d)
    PROVE  (Leq(x, y) <=> a <= b) /\ (Same(x, y) <=> a = b)
<1>1. PICK p, q, u, v \in Int : p = x[1] /\ q = x[2] /\ u = y[1] /\ v = y[2]
  BY DEF Is, Finites
<1>2. q > 0 /\ v > 0 /\ d > 0 /\ a \in Int /\ b \in Int /\ d \in Int
  BY <1>1 DEF Is, Finites
<1>3. p * d = a * q /\ u * d = b * v
  BY <1>1 DEF Is
<1>4. (p * v) * d = a * (q * v) /\ (u * q) * d = b * (q * v)
  <2>1. (p * v) * d = (p * d) * v /\ (u * q) * d = (u * d) * q
    BY <1>2
  <2>2. (a * q) * v = a * (q * v) /\ (b * v) * q = b * (q * v)
    BY <1>2
  <2> QED
    BY <1>3, <2>1, <2>2
<1>5. q * v > 0 /\ q * v \in Int /\ p * v \in Int /\ u * q \in Int
  BY <1>2, Products
<1>6. PICK g, h, w : g = p * v /\ h = u * q /\ w = q * v
  OBVIOUS
<1>7. g * d = a * w /\ h * d = b * w /\ g \in Int /\ h \in Int /\ w \in Int /\ w > 0
  BY <1>4, <1>5, <1>6
<1>8. (h < g <=> h * d < g * d) /\ (g = h <=> g * d = h * d)
  BY <1>2, <1>7, Cancel
<1>9. (b < a <=> b * w < a * w) /\ (a = b <=> a * w = b * w)
  BY <1>2, <1>7, Cancel
<1>10. (Leq(x, y) <=> g <= h) /\ (Same(x, y) <=> g = h)
  BY <1>1, <1>6, LeqFinite DEF Is
<1>11. (h < g <=> b < a) /\ (g = h <=> a = b)
  BY <1>7, <1>8, <1>9
<1> QED
  BY <1>2, <1>7, <1>10, <1>11

\* Over a common denominator a difference is that of the numerators.
LEMMA DifferenceIs ==
    ASSUME NEW x, NEW y, NEW a, NEW b, NEW d, Is(x, a, d), Is(y, b, d)
    PROVE  Is(Difference(x, y), a - b, d)
<1>0. PICK f : f = Difference(x, y)
  OBVIOUS
<1>1. f \in Finites /\ f[1] * (x[2] * y[2]) = (x[1] * y[2] - y[1] * x[2]) * f[2]
  BY <1>0, DifferenceFinite DEF Is
<1>2. PICK p, q, u, v, m, n \in Int : /\ p = x[1] /\ q = x[2] /\ u = y[1] /\ v = y[2]
                                      /\ m = f[1] /\ n = f[2]
  BY <1>1 DEF Is, Finites
<1>3. q > 0 /\ v > 0 /\ d > 0 /\ a \in Int /\ b \in Int /\ d \in Int
  BY <1>2 DEF Is, Finites
<1>4. p * d = a * q /\ u * d = b * v /\ m * (q * v) = (p * v - u * q) * n
  BY <1>1, <1>2 DEF Is
<1>5. (m * d) * (q * v) = ((a - b) * n) * (q * v)
  <2>1. (m * d) * (q * v) = (m * (q * v)) * d
    BY <1>3
  <2>2. ((p * v - u * q) * n) * d = ((p * d) * v - (u * d) * q) * n
    BY <1>3
  <2>3. ((a * q) * v - (b * v) * q) * n = ((a - b) * n) * (q * v)
    BY <1>3
  <2> QED
    BY <1>4, <2>1, <2>2, <2>3
<1>6. m * d = (a - b) * n
  <2>1. PICK g, h, w : g = m * d /\ h = (a - b) * n /\ w = q * v
    OBVIOUS
  <2>2. g \in Int /\ h \in Int /\ w \in Int /\ w > 0
    BY <1>3, <2>1, Products
  <2>3. g * w = h * w
    BY <1>5, <2>1
  <2>4. g = h
    BY <2>2, <2>3, Cancel
  <2> QED
    BY <2>1, <2>4
<1>7. Is(f, a - b, d)
  BY <1>1, <1>2, <1>3, <1>6 DEF Is
<1> QED
  BY <1>0, <1>7

\* Over a common denominator a quotient is that of the numerators.
LEMMA OverIs ==
    ASSUME NEW x, NEW y, NEW a, NEW b, NEW d, Is(x, a, d), Is(y, b, d), b > 0
    PROVE  Is(Over(x, y), a, b)
<1>0. PICK f : f = Over(x, y)
  OBVIOUS
<1>1. PICK p, q, u, v \in Int : p = x[1] /\ q = x[2] /\ u = y[1] /\ v = y[2]
  BY DEF Is, Finites
<1>2. q > 0 /\ v > 0 /\ d > 0 /\ a \in Int /\ b \in Int /\ d \in Int
  BY <1>1 DEF Is, Finites
<1>3. p * d = a * q /\ u * d = b * v
  BY <1>1 DEF Is
<1>4. u # 0
  <2>1. b * v > 0
    BY <1>2, Products
  <2>2. u = 0 => u * d = 0
    BY <1>2
  <2> QED
    BY <1>2, <1>3, <2>1, <2>2
<1>5. f \in Finites /\ f[1] * (q * u) = (p * v) * f[2]
  BY <1>0, <1>1, <1>4, OverFinite DEF Is
<1>6. PICK m, n \in Int : m = f[1] /\ n = f[2]
  BY <1>5 DEF Finites
<1>7. (m * b) * (q * v) = (a * n) * (q * v)
  <2>1. (m * (q * u)) * d = ((p * v) * n) * d
    BY <1>5, <1>6
  <2>2. (m * (q * u)) * d = (m * q) * (u * d) /\ ((p * v) * n) * d = (v * n) * (p * d)
    BY <1>2
  <2>3. (m * q) * (b * v) = (m * b) * (q * v) /\ (v * n) * (a * q) = (a * n) * (q * v)
    BY <1>2
  <2> QED
    BY <1>3, <2>1, <2>2, <2>3
<1>8. m * b = a * n
  <2>1. PICK g, h, w : g = m * b /\ h = a * n /\ w = q * v
    OBVIOUS
  <2>2. g \in Int /\ h \in Int /\ w \in Int /\ w > 0
    BY <1>2, <2>1, Products
  <2>3. g * w = h * w
    BY <1>7, <2>1
  <2>4. g = h
    BY <2>2, <2>3, Cancel
  <2> QED
    BY <2>1, <2>4
<1>9. Is(f, a, b)
  BY <1>2, <1>5, <1>6, <1>8 DEF Is
<1> QED
  BY <1>0, <1>9

\* A whole number over any denominator.
LEMMA WholeIs ==
    ASSUME NEW n \in Int, NEW d \in Int, d > 0
    PROVE  Is(Whole(n), n * d, d)
BY WholeFinite DEF Is

\* A product is that of the numerators over that of the denominators.
LEMMA TimesIs ==
    ASSUME NEW x, NEW y, NEW a, NEW b, NEW c, NEW d, Is(x, a, c), Is(y, b, d)
    PROVE  Is(Times(x, y), a * b, c * d)
<1>0. PICK f : f = Times(x, y)
  OBVIOUS
<1>1. f \in Finites /\ f[1] * (x[2] * y[2]) = (x[1] * y[1]) * f[2]
  BY <1>0, TimesFinite DEF Is
<1>2. PICK p, q, u, v, m, n \in Int : /\ p = x[1] /\ q = x[2] /\ u = y[1] /\ v = y[2]
                                      /\ m = f[1] /\ n = f[2]
  <2>1. x \in Finites /\ y \in Finites /\ f \in Finites
    BY <1>1 DEF Is
  <2> QED
    BY <2>1 DEF Finites
<1>3. /\ q > 0 /\ v > 0 /\ c > 0 /\ d > 0
      /\ a \in Int /\ b \in Int /\ c \in Int /\ d \in Int
  BY <1>2 DEF Is, Finites
<1>4. p * c = a * q /\ u * d = b * v /\ m * (q * v) = (p * u) * n
  BY <1>1, <1>2 DEF Is
<1>5. (m * (c * d)) * (q * v) = ((a * b) * n) * (q * v)
  <2>1. (m * (c * d)) * (q * v) = (m * (q * v)) * (c * d)
    BY <1>3
  <2>2. ((p * u) * n) * (c * d) = ((p * c) * (u * d)) * n
    BY <1>3
  <2>3. ((a * q) * (b * v)) * n = ((a * b) * n) * (q * v)
    BY <1>3
  <2> QED
    BY <1>4, <2>1, <2>2, <2>3
<1>6. m * (c * d) = (a * b) * n
  <2>1. PICK g, h, w : g = m * (c * d) /\ h = (a * b) * n /\ w = q * v
    OBVIOUS
  <2>2. g \in Int /\ h \in Int /\ w \in Int /\ w > 0
    BY <1>3, <2>1, Products
  <2>3. g * w = h * w
    BY <1>5, <2>1
  <2>4. g = h
    BY <2>2, <2>3, Cancel
  <2> QED
    BY <2>1, <2>4
<1>7. c * d \in Int /\ c * d > 0 /\ a * b \in Int
  BY <1>3, Products
<1>8. Is(f, a * b, c * d)
  BY <1>1, <1>2, <1>6, <1>7 DEF Is
<1> QED
  BY <1>0, <1>8

\* The magnitude of a number, over any denominator.
LEMMA MagnitudeIs ==
    ASSUME NEW x, NEW a, NEW d, Is(x, a, d)
    PROVE  Is(Magnitude(x), IF a < 0 THEN -a ELSE a, d)
<1>1. PICK p, q \in Int : p = x[1] /\ q = x[2]
  BY DEF Is, Finites
<1>2. a \in Int /\ d \in Int /\ d > 0 /\ p * d = a * q /\ x \in Finites /\ q > 0
  BY <1>1 DEF Is, Finites
<1>3. Magnitude(x) = <<Abs(p), q>>
  BY <1>1 DEF Magnitude
<1>4. (p < 0 => d * p < 0) /\ (a < 0 => q * a < 0) /\ (p >= 0 => p * d >= 0) /\ (a >= 0 => a * q >= 0)
  BY <1>2, Products
<1>5. d * p = p * d /\ q * a = a * q
  BY <1>2
<1>6. p < 0 <=> a < 0
  BY <1>2, <1>4, <1>5
<1>7. CASE a < 0
  <2>1. Abs(p) = -p /\ -p \in Int /\ -a \in Int
    BY <1>2, <1>6, <1>7 DEF Abs
  <2>2. (-p) * d = -(p * d) /\ (-a) * q = -(a * q)
    BY <1>2
  <2>3. (-p) * d = (-a) * q
    BY <1>2, <2>2
  <2>4. <<-p, q>> \in Finites
    BY <1>2, <2>1 DEF Finites
  <2> QED
    BY <1>2, <1>3, <1>7, <2>1, <2>3, <2>4 DEF Is
<1>8. CASE ~(a < 0)
  <2>1. Abs(p) = p
    BY <1>6, <1>8 DEF Abs
  <2>2. <<p, q>> \in Finites
    BY <1>2 DEF Finites
  <2> QED
    BY <1>2, <1>3, <1>8, <2>1, <2>2 DEF Is
<1> QED
  BY <1>7, <1>8

\* Not less than 0, and times no more than 1, is not more.
LEMMA FactorLess ==
    ASSUME NEW x \in Finites, x[1] >= 0, NEW f \in Finites, ~Less(Whole(1), f)
    PROVE  Times(x, f) \in Finites /\ Leq(Times(x, f), x)
<1>1. PICK a, b, c, d \in Int : /\ a = x[1] /\ b = f[1] /\ c = x[2] /\ d = f[2]
                                /\ a >= 0 /\ c > 0 /\ d > 0
  BY DEF Finites
<1>2. Is(x, a, c) /\ Is(f, b, d)
  BY <1>1 DEF Is
<1>3. b <= d
  <2>1. Is(Whole(1), 1 * d, d)
    <3>1. 1 \in Int
      OBVIOUS
    <3> QED
      BY <1>1, <3>1, WholeIs
  <2>2. Leq(f, Whole(1))
    BY DEF Leq
  <2>3. b <= 1 * d
    BY <1>2, <2>1, <2>2, LeqIs
  <2> QED
    BY <1>1, <2>3
<1>4. Is(Times(x, f), a * b, c * d)
  BY <1>2, TimesIs
<1>5. Is(x, a * d, c * d)
  <2>1. c * d > 0 /\ c * d \in Int /\ a * d \in Int
    BY <1>1, Products
  <2>2. a * (c * d) = (a * d) * c
    BY <1>1
  <2> QED
    BY <1>1, <2>1, <2>2 DEF Is
<1>6. a * b <= a * d
  <2>1. a * (d - b) >= 0
    BY <1>1, <1>3, Products
  <2>2. a * (d - b) = a * d - a * b
    BY <1>1
  <2>3. a * b \in Int /\ a * d \in Int
    BY <1>1
  <2> QED
    BY <2>1, <2>2, <2>3
<1>7. Leq(Times(x, f), x)
  BY <1>4, <1>5, <1>6, LeqIs
<1> QED
  BY <1>4, <1>7 DEF Is

\* The sign of a number, over any denominator.
LEMMA IsSame ==
    ASSUME NEW x, NEW a, NEW d, Is(x, a, d)
    PROVE  a \in Int /\ d \in Int /\ d > 0 /\ x \in Finites /\ (x[1] = 0 <=> a = 0)
                     /\ (x[1] > 0 <=> a > 0)
<1>1. PICK p, q \in Int : p = x[1] /\ q = x[2]
  BY DEF Is, Finites
<1>2. q > 0 /\ d > 0 /\ a \in Int /\ d \in Int /\ p * d = a * q /\ x \in Finites
  BY <1>1 DEF Is, Finites
<1>3. (p > 0 => p * d > 0) /\ (a > 0 => a * q > 0)
  BY <1>2, Products
<1>4. (p < 0 => d * p < 0) /\ (a < 0 => q * a < 0)
  BY <1>2, Products
<1>5. (p = 0 => p * d = 0) /\ (a = 0 => a * q = 0) /\ d * p = p * d /\ q * a = a * q
  BY <1>2
<1> QED
  BY <1>1, <1>2, <1>3, <1>4, <1>5

-------------------------------------------------------------------------------
(***************************************************************************)
(* Numbers that may be infinite                                            *)
(***************************************************************************)
\* A fraction is a value.
LEMMA FractionClosed ==
    ASSUME NEW p \in Int, NEW q \in Nat
    PROVE  /\ Fraction(p, q) \in Fvalues
           /\ q = 0 => Fraction(p, q)[2] = 0
<1>1. CASE q = 0
  BY <1>1 DEF Fraction, Sign, Fvalues, Inf, Nan, Minus
<1>2. CASE q > 0
  BY <1>2, FractionReduced DEF Fvalues
<1> QED
  BY <1>1, <1>2

\* A value is finite, or has 0 below.
LEMMA FvaluesParts ==
    ASSUME NEW x \in Fvalues
    PROVE  /\ x[1] \in Int /\ x[2] \in Nat
           /\ x \in Finites <=> Finite(x)
           /\ x \notin Finites => x[2] = 0 /\ x[1] \in {-1, 0, 1}
           /\ x = <<x[1], x[2]>>
BY DEF Fvalues, Finites, Finite, Nan, Inf, Minus

\* Arithmetic on values yields values.
LEMMA Closed ==
    ASSUME NEW x \in Fvalues, NEW y \in Fvalues
    PROVE  /\ Plus(x, y) \in Fvalues /\ Minus(x) \in Fvalues /\ Difference(x, y) \in Fvalues
           /\ Over(x, y) \in Fvalues /\ Magnitude(x) \in Fvalues /\ Times(x, y) \in Fvalues
<1>1. \A u, v \in Fvalues : Plus(u, v) \in Fvalues
  <2> SUFFICES ASSUME NEW u \in Fvalues, NEW v \in Fvalues
               PROVE  Plus(u, v) \in Fvalues
    OBVIOUS
  <2>1. CASE Finite(u) /\ Finite(v)
    BY <2>1, FvaluesParts, PlusFinite DEF Fvalues
  <2>2. CASE ~(Finite(u) /\ Finite(v))
    <3>1. u[1] * v[2] + v[1] * u[2] \in Int
      BY FvaluesParts
    <3> QED
      BY <2>2, <3>1, FractionClosed DEF Plus
  <2> QED
    BY <2>1, <2>2
<1>2. \A u \in Fvalues : Minus(u) \in Fvalues
  BY DEF Fvalues, Finites, Minus, Nan, Inf
<1>3. Over(x, y) \in Fvalues
  <2>1. Abs(y[1]) \in Nat
    BY FvaluesParts DEF Abs
  <2>2. PICK s \in {-1, 1} : s = (IF y[1] < 0 THEN -1 ELSE 1)
    OBVIOUS
  <2>3. s * x[1] * y[2] \in Int /\ x[2] * Abs(y[1]) \in Nat
    BY <2>1, FvaluesParts
  <2> QED
    BY <2>2, <2>3, FractionClosed DEF Over
<1>4. Magnitude(x) \in Fvalues
  <2>1. CASE x \in Finites
    BY <2>1 DEF Fvalues, Finites, Magnitude, Abs
  <2>2. CASE x \notin Finites
    BY <2>2 DEF Fvalues, Magnitude, Abs, Nan, Inf, Minus
  <2> QED
    BY <2>1, <2>2
<1>5. Times(x, y) \in Fvalues
  <2>1. x[1] * y[1] \in Int /\ x[2] * y[2] \in Nat
    BY FvaluesParts
  <2> QED
    BY <2>1, FractionClosed DEF Times
<1> QED
  BY <1>1, <1>2, <1>3, <1>4, <1>5 DEF Difference

(***************************************************************************)
(* The first of a finite set, and the place of a value in a sorted         *)
(* sequence                                                                *)
(***************************************************************************)
\* A relation that has every two in one order or the other.
OrdersAll(R, S) ==
    /\ \A x, y \in S : <<x, y>> \in R \/ <<y, x>> \in R
    /\ \A x, y, z \in S : <<x, y>> \in R /\ <<y, z>> \in R => <<x, z>> \in R

\* A finite set that a relation orders has a first member.
LEMMA FirstExists ==
    ASSUME NEW S, IsFiniteSet(S), S # {}, NEW R, OrdersAll(R, S)
    PROVE  \E x \in S : \A y \in S : <<x, y>> \in R
<1>1. PICK n \in Nat : ExistsSurjection(1..n, S)
  BY FS_NatSurjection
<1>2. PICK f \in [1..n -> S] : \A y \in S : \E k \in 1..n : f[k] = y
  BY <1>1 DEF ExistsSurjection, Surjection
<1>3. n > 0
  BY <1>2
<1> DEFINE T == {m \in Nat : m + 1 <= n =>
                    \E k \in 1..(m + 1) : \A l \in 1..(m + 1) : <<f[k], f[l]>> \in R}
<1>4. 0 \in T
  <2>1. 1 \in 1..(0 + 1) /\ \A l \in 1..(0 + 1) : l = 1
    OBVIOUS
  <2>2. f[1] \in S
    BY <1>2, <1>3
  <2>3. <<f[1], f[1]>> \in R
    BY <2>2 DEF OrdersAll
  <2>4. \A l \in 1..(0 + 1) : <<f[1], f[l]>> \in R
    BY <2>1, <2>3
  <2> QED
    BY <2>1, <2>4
<1>5. ASSUME NEW m \in Nat, m \in T
      PROVE  m + 1 \in T
  <2> SUFFICES ASSUME m + 1 + 1 <= n
               PROVE  \E k \in 1..(m + 1 + 1) : \A l \in 1..(m + 1 + 1) : <<f[k], f[l]>> \in R
    OBVIOUS
  <2>1. PICK k \in 1..(m + 1) : \A l \in 1..(m + 1) : <<f[k], f[l]>> \in R
    <3>1. m + 1 <= n
      OBVIOUS
    <3> QED
      BY <1>5, <3>1
  <2>2. PICK j : j = m + 1 + 1
    OBVIOUS
  <2>3. j \in 1..n /\ k \in 1..n /\ k \in 1..j /\ j \in 1..j
    BY <2>2
  <2>4. \A l \in 1..j : l = j \/ l \in 1..(m + 1)
    BY <2>2
  <2>5. \A l \in 1..j : l \in 1..n
    BY <2>3
  <2>6. f[j] \in S /\ f[k] \in S /\ \A l \in 1..j : f[l] \in S
    BY <1>2, <2>3, <2>5
  <2>7. CASE <<f[k], f[j]>> \in R
    <3>1. \A l \in 1..j : <<f[k], f[l]>> \in R
      BY <2>1, <2>4, <2>7
    <3> QED
      BY <2>2, <2>3, <3>1
  <2>8. CASE <<f[j], f[k]>> \in R
    <3>1. <<f[j], f[j]>> \in R
      BY <2>6 DEF OrdersAll
    <3>2. \A l \in 1..j : <<f[j], f[l]>> \in R
      <4> TAKE l \in 1..j
      <4>1. CASE l = j
        BY <3>1, <4>1
      <4>2. CASE l \in 1..(m + 1)
        <5>1. <<f[k], f[l]>> \in R
          BY <2>1, <4>2
        <5> QED
          BY <2>6, <2>8, <5>1 DEF OrdersAll
      <4> QED
        BY <2>4, <4>1, <4>2
    <3> QED
      BY <2>2, <2>3, <3>2
  <2> QED
    BY <2>6, <2>7, <2>8 DEF OrdersAll
<1>6. n - 1 \in T
  <2>1. n - 1 \in Nat
    BY <1>3
  <2> HIDE DEF T
  <2> QED
    BY <1>4, <1>5, <2>1, SetInduction
<1>7. PICK k \in 1..n : \A l \in 1..n : <<f[k], f[l]>> \in R
  <2>1. n - 1 + 1 = n
    OBVIOUS
  <2> QED
    BY <1>6, <2>1
<1> QED
  BY <1>2, <1>7

\* A finite set of finite values has a largest and a smallest.
LEMMA LargestExists ==
    ASSUME NEW S \in SUBSET Finites, IsFiniteSet(S), S # {}
    PROVE  /\ Largest(S) \in S /\ \A y \in S : Leq(y, Largest(S))
           /\ Smallest(S) \in S /\ \A y \in S : Leq(Smallest(S), y)
<1> DEFINE U == {p \in S \X S : Leq(p[2], p[1])}
           D == {p \in S \X S : Leq(p[1], p[2])}
<1>1. \A x, y \in S : (<<x, y>> \in U <=> Leq(y, x)) /\ (<<x, y>> \in D <=> Leq(x, y))
  OBVIOUS
<1> HIDE DEF U, D
<1>2. OrdersAll(U, S) /\ OrdersAll(D, S)
  <2>1. \A x, y \in S : Leq(x, y) \/ Leq(y, x)
    BY LeqTotal
  <2>2. \A x, y, z \in S : Leq(x, y) /\ Leq(y, z) => Leq(x, z)
    BY LeqTransitive
  <2> QED
    BY <1>1, <2>1, <2>2 DEF OrdersAll
<1>3. (\E x \in S : \A y \in S : <<x, y>> \in U) /\ (\E x \in S : \A y \in S : <<x, y>> \in D)
  BY <1>2, FirstExists
<1>4. \E x \in S : \A y \in S : ~Less(x, y)
  BY <1>1, <1>3 DEF Leq
<1>5. \E x \in S : \A y \in S : ~Less(y, x)
  BY <1>1, <1>3 DEF Leq
<1> QED
  BY <1>4, <1>5 DEF Largest, Smallest, Leq

\* Of the values in a sequence.
LEMMA ToSetFinite ==
    ASSUME NEW V, NEW n \in Nat, NEW s \in [1..n -> V]
    PROVE  /\ IsFiniteSet(ToSet(s)) /\ ToSet(s) \in SUBSET V
           /\ \A k \in 1..n : s[k] \in ToSet(s)
           /\ \A x \in ToSet(s) : \E k \in 1..n : x = s[k]
<1>1. ToSet(s) = {s[k] : k \in 1..n}
  BY DEF ToSet
<1>2. s \in Surjection(1..n, ToSet(s))
  BY <1>1 DEF Surjection
<1>3. IsFiniteSet(1..n)
  BY FS_Interval
<1>4. IsFiniteSet(ToSet(s))
  BY <1>2, <1>3, FS_Surjection
<1> QED
  BY <1>1, <1>4

\* The value of a rank is one of the values (the median of basicmath.cpp).
LEMMA RankedExists ==
    ASSUME NEW n \in Nat, NEW values \in [1..n -> Finites], NEW place \in 1..n
    PROVE  Ranked(values, place) \in ToSet(values)
<1> DEFINE S == ToSet(values)
           upTo(x) == {k \in 1..n : ~Less(x, values[k])}
           below(x) == {k \in 1..n : Less(values[k], x)}
           T == {x \in S : place <= Cardinality(upTo(x))}
<1>1. /\ IsFiniteSet(S) /\ S \in SUBSET Finites
      /\ \A k \in 1..n : values[k] \in S
      /\ \A x \in S : \E k \in 1..n : x = values[k]
  BY ToSetFinite
<1>2. IsFiniteSet(1..n) /\ Cardinality(1..n) = n
  BY FS_Interval
<1> HIDE DEF S
<1>3. \A x : /\ IsFiniteSet(upTo(x)) /\ Cardinality(upTo(x)) \in Nat
             /\ IsFiniteSet(below(x)) /\ Cardinality(below(x)) \in Nat
  <2> TAKE x
  <2>1. upTo(x) \in SUBSET (1..n) /\ below(x) \in SUBSET (1..n)
    OBVIOUS
  <2> HIDE DEF upTo, below
  <2> QED
    BY <1>2, <2>1, FS_Subset, FS_CardinalityType
<1>4. S # {}
  BY <1>1
<1>5. Largest(S) \in T
  <2>1. Largest(S) \in S /\ \A y \in S : Leq(y, Largest(S))
    BY <1>1, <1>4, LargestExists
  <2>2. \A k \in 1..n : ~Less(Largest(S), values[k])
    BY <1>1, <2>1 DEF Leq
  <2>3. upTo(Largest(S)) = 1..n
    BY <2>2
  <2>4. place <= Cardinality(1..n)
    BY <1>2
  <2>5. place <= Cardinality(upTo(Largest(S)))
    BY <2>3, <2>4
  <2> QED
    BY <2>1, <2>5
<1>6. T \in SUBSET S /\ IsFiniteSet(T) /\ T \in SUBSET Finites
  <2>1. T \in SUBSET S
    OBVIOUS
  <2> HIDE DEF T
  <2> QED
    BY <1>1, <2>1, FS_Subset
<1> DEFINE x == Smallest(T)
<1>7. x \in T /\ \A y \in T : Leq(x, y)
  <2> HIDE DEF T
  <2> QED
    BY <1>5, <1>6, LargestExists
<1> HIDE DEF x
<1>8. x \in S /\ x \in Finites /\ place <= Cardinality(upTo(x))
  BY <1>1, <1>7
<1>9. Cardinality(below(x)) < place
  <2>1. CASE below(x) = {}
    <3>1. Cardinality(below(x)) = 0
      <4> HIDE DEF below
      <4> QED
        BY <2>1, FS_EmptySet
    <3> HIDE DEF below
    <3> QED
      BY <3>1
  <2>2. CASE below(x) # {}
    <3> DEFINE W == {y \in S : Less(y, x)}
    <3>1. W \in SUBSET S
      OBVIOUS
    <3>2. W # {}
      BY <1>1, <2>2
    <3>3. \A y \in W : y \in S /\ Less(y, x)
      OBVIOUS
    <3>4. \A k \in below(x) : k \in 1..n /\ values[k] \in W
      BY <1>1
    <3> HIDE DEF W
    <3>5. IsFiniteSet(W) /\ W \in SUBSET Finites
      BY <1>1, <3>1, FS_Subset
    <3>6. PICK y : y = Largest(W)
      OBVIOUS
    <3>7. y \in W /\ \A z \in W : Leq(z, y)
      BY <3>2, <3>5, <3>6, LargestExists
    <3>8. below(x) \in SUBSET upTo(y)
      BY <3>4, <3>7 DEF Leq
    <3>9. Cardinality(below(x)) <= Cardinality(upTo(y))
      <4> HIDE DEF below, upTo
      <4> QED
        BY <1>3, <3>8, FS_Subset
    <3>10. y \notin T
      <4>1. Less(y, x) /\ y \in Finites
        BY <3>3, <3>5, <3>7
      <4>2. ~Leq(x, y)
        BY <4>1 DEF Leq
      <4> HIDE DEF T
      <4> QED
        BY <1>7, <4>2
    <3>11. ~(place <= Cardinality(upTo(y)))
      BY <3>3, <3>7, <3>10
    <3> HIDE DEF below, upTo
    <3> QED
      BY <1>3, <3>9, <3>11
  <2> QED
    BY <2>1, <2>2
<1>10. \E v \in ToSet(values) :
          /\ Cardinality({k \in DOMAIN values : Less(values[k], v)}) < place
          /\ place <= Cardinality({k \in DOMAIN values : ~Less(v, values[k])})
  <2>1. DOMAIN values = 1..n
    OBVIOUS
  <2> QED
    BY <1>8, <1>9, <2>1 DEF S
<1> QED
  BY <1>10 DEF Ranked

\* Not all values are below their median, or a part of it.
LEMMA MedianReached ==
    ASSUME NEW n \in Nat, n > 0, NEW values \in [1..n -> Finites], Len(values) = n,
           \A k \in 1..n : values[k][1] >= 0,
           NEW factor \in Finites, ~Less(Whole(1), factor)
    PROVE  \E k \in 1..n : ~Less(values[k], Times(Median(values), factor))
<1>0. PICK m : m = Median(values)
  OBVIOUS
<1>1. \E k \in 1..n : m \in Finites /\ m[1] >= 0 /\ Leq(m, values[k])
  <2>1. CASE n % 2 = 1
    <3>1. m = Ranked(values, n \div 2 + 1)
      BY <1>0, <2>1 DEF Median
    <3>2. n \div 2 + 1 \in 1..n
      BY <2>1
    <3>3. m \in ToSet(values)
      BY <3>1, <3>2, RankedExists
    <3>4. PICK k \in 1..n : m = values[k]
      BY <3>3, ToSetFinite
    <3>5. values[k] \in Finites
      OBVIOUS
    <3> QED
      BY <3>4, <3>5, LeqTotal
  <2>2. CASE n % 2 = 0
    <3>1. m = Middle(Ranked(values, n \div 2), Ranked(values, n \div 2 + 1))
      BY <1>0, <2>2 DEF Median
    <3>2. n \div 2 \in 1..n /\ n \div 2 + 1 \in 1..n
      BY <2>2
    <3>3. Ranked(values, n \div 2) \in ToSet(values) /\ Ranked(values, n \div 2 + 1) \in ToSet(values)
      BY <3>2, RankedExists
    <3>4. PICK k \in 1..n, l \in 1..n :
             Ranked(values, n \div 2) = values[k] /\ Ranked(values, n \div 2 + 1) = values[l]
      BY <3>3, ToSetFinite
    <3>5. values[k] \in Finites /\ values[l] \in Finites /\ values[k][1] >= 0 /\ values[l][1] >= 0
      OBVIOUS
    <3>6. PICK x, y : x = values[k] /\ y = values[l]
      OBVIOUS
    <3>7. /\ m \in Finites
          /\ Leq(x, y) => Leq(x, m) /\ Leq(m, y)
          /\ Leq(y, x) => Leq(y, m) /\ Leq(m, x)
      BY <3>1, <3>4, <3>5, <3>6, MiddleBetween
    <3>8. Leq(x, y) \/ Leq(y, x)
      BY <3>5, <3>6, LeqTotal
    <3>9. \A z \in Finites : z[1] >= 0 /\ Leq(z, m) => m[1] >= 0
      <4> SUFFICES ASSUME NEW z \in Finites, z[1] >= 0, Leq(z, m)
                   PROVE  m[1] >= 0
        OBVIOUS
      <4>1. PICK a, b, c \in Int : Is(z, a, c) /\ Is(m, b, c)
        BY <3>7, CommonDenominator
      <4>2. a <= b
        BY <4>1, LeqIs
      <4>3. (z[1] = 0 <=> a = 0) /\ (z[1] > 0 <=> a > 0) /\ (m[1] = 0 <=> b = 0) /\ (m[1] > 0 <=> b > 0)
        BY <4>1, IsSame
      <4>4. z[1] \in Int /\ m[1] \in Int
        BY <3>7 DEF Finites
      <4> QED
        BY <4>2, <4>3, <4>4
    <3> QED
      BY <3>5, <3>6, <3>7, <3>8, <3>9
  <2> QED
    BY <2>1, <2>2
<1>2. PICK k \in 1..n : m \in Finites /\ m[1] >= 0 /\ Leq(m, values[k])
  BY <1>1
<1>3. values[k] \in Finites
  OBVIOUS
<1>4. PICK h : h = Times(m, factor)
  OBVIOUS
<1>5. h \in Finites /\ Leq(h, m)
  BY <1>2, <1>4, FactorLess
<1>6. Leq(h, values[k])
  BY <1>2, <1>3, <1>5, LeqTransitive
<1> QED
  BY <1>0, <1>4, <1>6 DEF Leq

(***************************************************************************)
(* The region that reduceRegion keeps                                      *)
(***************************************************************************)
\* Where the region starts: the points before it are below.
LEMMA StartAt ==
    ASSUME NEW n \in Nat, n >= 3, NEW below
    PROVE  LET i == RegionStart(n, below)
           IN  /\ i \in 0..(n - 2) /\ 1..i \subseteq below
               /\ i = n - 2 \/ i + 1 \notin below
<1>1. \E i \in 0..(n - 2) : 1..i \subseteq below /\ (i = n - 2 \/ i + 1 \notin below)
  <2>1. CASE \A l \in 1..(n - 2) : l \in below
    <3>1. n - 2 \in 0..(n - 2) /\ 1..(n - 2) \subseteq below
      BY <2>1
    <3> QED
      BY <3>1
  <2>2. CASE \E l \in 1..(n - 2) : l \notin below
    <3> DEFINE U == {l \in Nat : l >= 1 /\ l <= n - 2 /\ l \notin below}
    <3>1. U \in SUBSET Nat /\ U # {}
      BY <2>2
    <3>2. PICK l \in U : \A j \in U : l <= j
      <4> HIDE DEF U
      <4> QED
        BY <3>1, LeastExists
    <3>3. l - 1 \in 0..(n - 2) /\ l - 1 + 1 = l
      OBVIOUS
    <3>4. ASSUME NEW j \in 1..(l - 1)
          PROVE  j \in below
      <4>1. j \in Nat /\ j >= 1 /\ j <= n - 2 /\ ~(l <= j)
        BY <3>3
      <4> QED
        BY <3>2, <4>1
    <3>5. 1..(l - 1) \subseteq below
      BY <3>4
    <3> QED
      BY <3>3, <3>5
  <2> QED
    BY <2>1, <2>2
<1> QED
  BY <1>1 DEF RegionStart

\* Where the region ends: the points from there to the last inner one are below.
LEMMA EndAt ==
    ASSUME NEW n \in Nat, n >= 3, NEW below, n - 1 \in below
    PROVE  LET i == RegionEnd(n, below)
           IN  /\ i \in 2..(n - 1) /\ i..(n - 1) \subseteq below
               /\ i = 2 \/ i - 1 \notin below
<1> DEFINE U == {i \in Nat : i >= 2 /\ i <= n - 1 /\ i..(n - 1) \subseteq below}
<1>1. U \in SUBSET Nat /\ n - 1 \in U
  <2>1. \A j \in (n - 1)..(n - 1) : j = n - 1
    OBVIOUS
  <2>2. (n - 1)..(n - 1) \subseteq below
    BY <2>1
  <2> QED
    BY <2>2
<1>2. PICK i \in U : \A j \in U : i <= j
  <2> HIDE DEF U
  <2> QED
    BY <1>1, LeastExists
<1>3. i \in 2..(n - 1) /\ i..(n - 1) \subseteq below
  OBVIOUS
<1>4. i = 2 \/ i - 1 \notin below
  <2> SUFFICES ASSUME i # 2, i - 1 \in below
               PROVE  FALSE
    OBVIOUS
  <2>1. i - 1 \in Nat /\ i - 1 >= 2 /\ i - 1 <= n - 1 /\ ~(i <= i - 1)
    BY <1>3
  <2>2. \A j \in (i - 1)..(n - 1) : j = i - 1 \/ j \in i..(n - 1)
    BY <1>3
  <2>3. (i - 1)..(n - 1) \subseteq below
    BY <1>3, <2>2
  <2> QED
    BY <1>2, <2>1, <2>3
<1>5. \E j \in 2..(n - 1) : j..(n - 1) \subseteq below /\ (j = 2 \/ j - 1 \notin below)
  <2> HIDE DEF U
  <2> QED
    BY <1>3, <1>4
<1> QED
  BY <1>5 DEF RegionEnd

\* The range ends before it begins only if all but the first are below.
LEMMA OnlyAllBelow ==
    ASSUME NEW n \in Nat, n >= 3, NEW below,
           RegionEnd(n, below) + 1 < RegionStart(n, below)
    PROVE  n >= 6 /\ \A i \in 1..(n - 1) : i \in below
<1> DEFINE s == RegionStart(n, below)
           e == RegionEnd(n, below)
<1>1. /\ s \in 0..(n - 2) /\ 1..s \subseteq below
      /\ s = n - 2 \/ s + 1 \notin below
  BY StartAt
<1>2. n - 1 \in below
  <2> SUFFICES ASSUME n - 1 \notin below
               PROVE  FALSE
    OBVIOUS
  <2>1. e = n - 1
    BY DEF RegionEnd
  <2> HIDE DEF s, e
  <2>2. e + 1 < s
    BY DEF s, e
  <2> QED
    BY <1>1, <2>1, <2>2
<1>3. /\ e \in 2..(n - 1) /\ e..(n - 1) \subseteq below
      /\ e = 2 \/ e - 1 \notin below
  BY <1>2, EndAt
<1>4. e + 1 < s
  OBVIOUS
<1> HIDE DEF s, e
<1>5. \A i \in 1..(n - 1) : i \in 1..s \/ i \in e..(n - 1)
  BY <1>1, <1>3, <1>4
<1>6. \A i \in 1..(n - 1) : i \in below
  BY <1>1, <1>3, <1>5
<1>7. e = 2
  <2>1. e # 2 => e - 1 \in 1..(n - 1)
    BY <1>3
  <2> QED
    BY <1>3, <1>6, <2>1
<1>8. s = n - 2
  <2>1. s # n - 2 => s + 1 \in 1..(n - 1)
    BY <1>1
  <2> QED
    BY <1>1, <1>6, <2>1
<1> QED
  BY <1>4, <1>6, <1>7, <1>8

\* Otherwise the range goes from before the first steep point to after the last.
LEMMA RegionOfSteep ==
    ASSUME NEW n \in Nat, n >= 3, NEW below, n - 1 \in below <=> n - 2 \in below,
           NEW first, NEW last,
           first \in (1..(n - 2)) \ below, last \in (1..(n - 2)) \ below,
           \A i \in (1..(n - 2)) \ below : first <= i /\ i <= last
    PROVE  RegionStart(n, below) = first - 1 /\ RegionEnd(n, below) = last + 1
<1> DEFINE s == RegionStart(n, below)
           e == RegionEnd(n, below)
<1>1. /\ s \in 0..(n - 2) /\ 1..s \subseteq below
      /\ s = n - 2 \/ s + 1 \notin below
  BY StartAt
<1>2. n - 1 \notin below => e = n - 1
  BY DEF RegionEnd
<1>3. n - 1 \in below => /\ e \in 2..(n - 1) /\ e..(n - 1) \subseteq below
                         /\ e = 2 \/ e - 1 \notin below
  BY EndAt
<1> HIDE DEF s, e
<1>4. s = first - 1
  <2>1. first \notin 1..s
    BY <1>1
  <2>2. s < first
    BY <1>1, <2>1
  <2>3. s # n - 2
    BY <1>1, <2>2
  <2>4. s + 1 \in (1..(n - 2)) \ below
    BY <1>1, <2>3
  <2>5. first <= s + 1
    BY <2>4
  <2> QED
    BY <1>1, <2>2, <2>5
<1>5. e = last + 1
  <2>1. CASE n - 1 \notin below
    <3>1. n - 2 \in (1..(n - 2)) \ below
      BY <2>1
    <3>2. n - 2 <= last
      BY <3>1
    <3> QED
      BY <1>2, <2>1, <3>2
  <2>2. CASE n - 1 \in below
    <3>0. /\ e \in 2..(n - 1) /\ e..(n - 1) \subseteq below
          /\ e = 2 \/ e - 1 \notin below
      BY <1>3, <2>2
    <3>1. last \notin e..(n - 1)
      BY <3>0
    <3>2. last < e
      BY <3>0, <3>1
    <3>3. e - 1 \in 1..(n - 2)
      BY <3>0
    <3>4. CASE e = 2
      BY <3>2, <3>4
    <3>5. CASE e - 1 \notin below
      <4>1. e - 1 <= last
        BY <3>3, <3>5
      <4> QED
        BY <3>0, <3>2, <4>1
    <3> QED
      BY <3>0, <3>4, <3>5
  <2> QED
    BY <2>1, <2>2
<1> QED
  BY <1>4, <1>5 DEF s, e

(***************************************************************************)
(* normalize                                                               *)
(***************************************************************************)
\* A spectrum of n points, and one without singular points.
Spectrum(d, n) == n \in Nat /\ d \in [1..n -> Points] /\ Len(d) = n
Regular(d, n) == Spectrum(d, n) /\ \A k \in 1..n : Finite(d[k].im)

\* The magnitude of a finite value is finite, and bounds it from above.
LEMMA MagnitudeFinite ==
    ASSUME NEW x \in Finites
    PROVE  /\ Magnitude(x) \in Finites /\ Magnitude(x)[1] >= 0
           /\ Leq(x, Magnitude(x))
<1>1. PICK m : m = Magnitude(x)
  OBVIOUS
<1>2. m \in Finites /\ m[1] >= 0 /\ m[1] >= x[1] /\ m[2] = x[2] /\ x[2] \in Nat /\ x[2] > 0
      /\ m[1] \in Int /\ x[1] \in Int
  BY <1>1 DEF Magnitude, Abs, Finites
<1>3. Is(x, x[1], x[2]) /\ Is(m, m[1], x[2])
  BY <1>2 DEF Is
<1>4. Leq(x, m)
  BY <1>2, <1>3, LeqIs
<1> QED
  BY <1>1, <1>2, <1>4

\* From the least to the most by magnitude is 0 to 1.
LEMMA ScaledBetween ==
    ASSUME NEW x \in Finites, NEW min \in Finites, NEW max \in Finites,
           Leq(min, x), Leq(x, max)
    PROVE  LET range == IF Same(max, min) THEN Whole(1) ELSE Difference(max, min)
               p == Over(Difference(x, min), range)
           IN  /\ range \in Finites /\ range[1] > 0
               /\ p \in Finites /\ Leq(Whole(0), p) /\ Leq(p, Whole(1))
<1>1. PICK a, b, c, d \in Int : Is(x, a, d) /\ Is(min, b, d) /\ Is(max, c, d)
  BY CommonDenominator
<1>2. b <= a /\ a <= c /\ (Same(max, min) <=> c = b) /\ d > 0
  BY <1>1, LeqIs DEF Is
<1>3. Is(Difference(x, min), a - b, d)
  BY <1>1, DifferenceIs
<1>4. CASE c = b
  <2>1. Is(Whole(1), 1 * d, d)
    BY <1>2, WholeIs
  <2>2. 1 * d > 0 /\ a - b = 0
    BY <1>2, <1>4
  <2>3. Is(Over(Difference(x, min), Whole(1)), a - b, 1 * d)
    BY <1>3, <2>1, <2>2, OverIs
  <2>4. Is(Whole(0), 0 * (1 * d), 1 * d) /\ Is(Whole(1), 1 * (1 * d), 1 * d)
    BY <2>2, WholeIs
  <2>5. 0 * (1 * d) <= a - b /\ a - b <= 1 * (1 * d)
    BY <2>2
  <2>6. Leq(Whole(0), Over(Difference(x, min), Whole(1))) /\ Leq(Over(Difference(x, min), Whole(1)), Whole(1))
    BY <2>3, <2>4, <2>5, LeqIs
  <2> QED
    BY <1>2, <1>4, <2>3, <2>6, WholeFinite DEF Is
<1>5. CASE c # b
  <2>0. c - b > 0 /\ c - b \in Int
    BY <1>2, <1>5
  <2>1. Is(Difference(max, min), c - b, d)
    BY <1>1, DifferenceIs
  <2>2. PICK r : r = Difference(max, min)
    OBVIOUS
  <2>3. PICK p : p = Over(Difference(x, min), r)
    OBVIOUS
  <2>4. PICK e \in Int : e = c - b /\ e > 0
    BY <2>0
  <2>5. Is(p, a - b, e) /\ Is(r, e, d)
    BY <1>3, <2>1, <2>2, <2>3, <2>4, OverIs
  <2>6. Is(Whole(0), 0 * e, e) /\ Is(Whole(1), 1 * e, e)
    BY <2>4, WholeIs
  <2>7. 0 * e <= a - b /\ a - b <= 1 * e
    BY <1>2, <2>4
  <2>10. Leq(Whole(0), p) /\ Leq(p, Whole(1))
    BY <2>5, <2>6, <2>7, LeqIs
  <2>8. r \in Finites /\ r[1] > 0
    BY <2>4, <2>5, IsSame
  <2>9. p \in Finites
    BY <2>5 DEF Is
  <2> QED
    BY <1>2, <1>5, <2>2, <2>3, <2>8, <2>9, <2>10
<1> QED
  BY <1>4, <1>5

\* Divided by the most by magnitude, unless that is 0, is -1 to 1.
LEMMA ScaledAround ==
    ASSUME NEW x \in Finites, NEW max \in Finites, Leq(Magnitude(x), max)
    PROVE  LET range == IF Same(max, Whole(0)) THEN Whole(1) ELSE Difference(max, Whole(0))
               p == Over(Difference(x, Whole(0)), range)
           IN  /\ range \in Finites /\ range[1] > 0
               /\ p \in Finites /\ Leq(Whole(-1), p) /\ Leq(p, Whole(1))
<1>0. Whole(0) \in Finites
  BY WholeFinite
<1>1. PICK a, b, c, d \in Int : Is(x, a, d) /\ Is(Whole(0), b, d) /\ Is(max, c, d)
  BY <1>0, CommonDenominator
<1>2. d > 0
  BY <1>1 DEF Is
<1>3. b = 0
  <2>1. Is(Whole(0), 0 * d, d)
    BY <1>2, WholeIs
  <2>2. Same(Whole(0), Whole(0))
    BY <1>0, LeqTotal
  <2>3. b = 0 * d
    BY <1>1, <2>1, <2>2, LeqIs
  <2> QED
    BY <2>3
<1>4. a <= c /\ -c <= a
  <2>1. PICK m \in Int : m = IF a < 0 THEN -a ELSE a
    OBVIOUS
  <2>2. Is(Magnitude(x), m, d)
    BY <1>1, <2>1, MagnitudeIs
  <2>3. m <= c
    BY <1>1, <2>2, LeqIs
  <2> QED
    BY <2>1, <2>3
<1>5. Is(Difference(x, Whole(0)), a, d) /\ Is(Difference(max, Whole(0)), c, d)
  <2>1. Is(Difference(x, Whole(0)), a - b, d) /\ Is(Difference(max, Whole(0)), c - b, d)
    BY <1>1, DifferenceIs
  <2>2. a - b = a /\ c - b = c
    BY <1>3
  <2> QED
    BY <2>1, <2>2
<1>6. Same(max, Whole(0)) <=> c = 0
  BY <1>1, <1>3, LeqIs
<1>7. CASE c = 0
  <2>1. Is(Whole(1), 1 * d, d) /\ 1 * d = d
    BY <1>2, WholeIs
  <2>2. Is(Over(Difference(x, Whole(0)), Whole(1)), a, d)
    BY <1>2, <1>5, <2>1, OverIs
  <2>3. Is(Whole(-1), (-1) * d, d)
    BY <1>2, WholeIs
  <2>4. (-1) * d <= a /\ a <= 1 * d
    BY <1>2, <1>4, <1>7
  <2>5. /\ Leq(Whole(-1), Over(Difference(x, Whole(0)), Whole(1)))
        /\ Leq(Over(Difference(x, Whole(0)), Whole(1)), Whole(1))
    BY <2>1, <2>2, <2>3, <2>4, LeqIs
  <2> QED
    BY <1>6, <1>7, <2>2, <2>5, WholeFinite DEF Is
<1>8. CASE c # 0
  <2>0. c > 0
    BY <1>4, <1>8
  <2>1. PICK r : r = Difference(max, Whole(0))
    OBVIOUS
  <2>2. PICK p : p = Over(Difference(x, Whole(0)), r)
    OBVIOUS
  <2>3. Is(p, a, c) /\ Is(r, c, d)
    BY <1>5, <2>0, <2>1, <2>2, OverIs
  <2>4. Is(Whole(-1), (-1) * c, c) /\ Is(Whole(1), 1 * c, c)
    BY <2>0, WholeIs
  <2>5. (-1) * c <= a /\ a <= 1 * c
    BY <1>4
  <2>6. Leq(Whole(-1), p) /\ Leq(p, Whole(1))
    BY <2>3, <2>4, <2>5, LeqIs
  <2>7. r \in Finites /\ r[1] > 0 /\ p \in Finites
    BY <2>0, <2>3, IsSame
  <2> QED
    BY <1>6, <1>8, <2>1, <2>2, <2>6, <2>7
<1> QED
  BY <1>7, <1>8

\* The values of a spectrum without singular points, and their magnitudes.
LEMMA ValuesFinite ==
    ASSUME NEW d, NEW n, Regular(d, n), n > 0
    PROVE  LET values == ToSet(Impedances(d)) \ {Nan}
               sizes == {Magnitude(x) : x \in values}
           IN  /\ values \in SUBSET Finites /\ IsFiniteSet(values) /\ values # {}
               /\ sizes \in SUBSET Finites /\ IsFiniteSet(sizes) /\ sizes # {}
               /\ \A k \in 1..n : d[k].im \in values
<1>1. n \in Nat /\ d \in [1..n -> Points] /\ Len(d) = n /\ \A k \in 1..n : Finite(d[k].im)
  BY DEF Regular, Spectrum
<1>2. \A k \in 1..n : d[k].im \in Finites
  <2> TAKE k \in 1..n
  <2>1. d[k] \in Points
    BY <1>1
  <2>2. d[k].im \in Fvalues
    BY <2>1 DEF Points
  <2> QED
    BY <1>1, <2>2, FvaluesParts
<1> DEFINE s == [k \in 1..n |-> d[k].im]
           t == [k \in 1..n |-> Magnitude(d[k].im)]
<1>3. Impedances(d) = s
  BY <1>1 DEF Impedances
<1>4. s \in [1..n -> Finites] /\ \A k \in 1..n : s[k] = d[k].im
  BY <1>2
<1>5. t \in [1..n -> Finites] /\ \A k \in 1..n : t[k] = Magnitude(s[k])
  BY <1>2, MagnitudeFinite
<1> HIDE DEF s, t
<1>6. /\ IsFiniteSet(ToSet(s)) /\ ToSet(s) \in SUBSET Finites
      /\ \A k \in 1..n : s[k] \in ToSet(s)
      /\ \A x \in ToSet(s) : \E k \in 1..n : x = s[k]
  BY <1>1, <1>4, ToSetFinite
<1>7. /\ IsFiniteSet(ToSet(t)) /\ ToSet(t) \in SUBSET Finites
      /\ \A k \in 1..n : t[k] \in ToSet(t)
      /\ \A x \in ToSet(t) : \E k \in 1..n : x = t[k]
  BY <1>1, <1>5, ToSetFinite
<1>8. Nan \notin Finites
  BY DEF Nan, Finites
<1>9. ToSet(s) \ {Nan} = ToSet(s)
  BY <1>6, <1>8
<1>10. {Magnitude(x) : x \in ToSet(s)} = ToSet(t)
  <2>1. \A x \in ToSet(s) : Magnitude(x) \in ToSet(t)
    BY <1>5, <1>6, <1>7
  <2>2. \A y \in ToSet(t) : \E x \in ToSet(s) : y = Magnitude(x)
    BY <1>5, <1>6, <1>7
  <2> QED
    BY <2>1, <2>2, Zenon
<1>11. 1 \in 1..n
  BY <1>1
<1>12. ToSet(s) # {} /\ ToSet(t) # {}
  BY <1>6, <1>7, <1>11
<1>13. \A k \in 1..n : d[k].im \in ToSet(s)
  BY <1>4, <1>6
<1> QED
  BY <1>3, <1>6, <1>7, <1>9, <1>10, <1>12, <1>13

\* The least there is normalized.
LeastOf(part) == IF part = "real" THEN Whole(0) ELSE Whole(-1)

\* The real part goes into 0 to 1, the imaginary one into -1 to 1.
LEMMA Normalized ==
    ASSUME NEW d, NEW n, Regular(d, n), n > 0, NEW part \in Parts
    PROVE  /\ Regular(Normalize(d, part), n)
           /\ \A k \in 1..n : /\ Normalize(d, part)[k].omega = d[k].omega
                              /\ Leq(LeastOf(part), Normalize(d, part)[k].im)
                              /\ Leq(Normalize(d, part)[k].im, Whole(1))
<1>1. n \in Nat /\ d \in [1..n -> Points] /\ Len(d) = n
  BY DEF Regular, Spectrum
<1> DEFINE values == ToSet(Impedances(d)) \ {Nan}
           sizes == {Magnitude(x) : x \in values}
<1>2. /\ values \in SUBSET Finites /\ IsFiniteSet(values) /\ values # {}
      /\ sizes \in SUBSET Finites /\ IsFiniteSet(sizes) /\ sizes # {}
      /\ \A k \in 1..n : d[k].im \in values
  BY ValuesFinite
<1>3. \A x \in values : Magnitude(x) \in sizes
  OBVIOUS
<1> DEFINE max == Largest(sizes)
           base == Base(values, part)
           range == IF Same(max, base) THEN Whole(1) ELSE Difference(max, base)
           e(k) == Point(d[k].omega, Over(Difference(d[k].im, base), range))
<1>4. Normalize(d, part) = [k \in 1..n |-> e(k)]
  BY <1>1, <1>2 DEF Normalize
<1> HIDE DEF values, sizes
<1>5. /\ max \in sizes /\ \A y \in sizes : Leq(y, max)
      /\ part = "real" => base \in values /\ \A y \in values : Leq(base, y)
      /\ part = "imaginary" => base = Whole(0)
  BY <1>2, LargestExists DEF Base
<1>6. max \in Finites /\ (part = "real" => base \in Finites)
  BY <1>2, <1>5
<1> HIDE DEF max, base
<1>7. ASSUME NEW k \in 1..n
      PROVE  /\ d[k].im \in Finites
             /\ range \in Finites /\ range[1] > 0
             /\ Over(Difference(d[k].im, base), range) \in Finites
             /\ Leq(LeastOf(part), Over(Difference(d[k].im, base), range))
             /\ Leq(Over(Difference(d[k].im, base), range), Whole(1))
  <2>1. PICK x : x = d[k].im
    OBVIOUS
  <2>2. x \in values /\ x \in Finites
    BY <1>2, <2>1
  <2>3. Magnitude(x) \in Finites /\ Leq(x, Magnitude(x)) /\ Leq(Magnitude(x), max)
    BY <1>3, <1>5, <2>2, MagnitudeFinite
  <2>4. Leq(x, max)
    BY <1>6, <2>2, <2>3, LeqTransitive
  <2>5. CASE part = "real"
    <3>1. base \in Finites /\ Leq(base, x)
      BY <1>5, <1>6, <2>2, <2>5
    <3> QED
      BY <1>6, <2>1, <2>2, <2>4, <2>5, <3>1, ScaledBetween DEF LeastOf
  <2>6. CASE part = "imaginary"
    <3>1. base = Whole(0) /\ LeastOf(part) = Whole(-1)
      BY <1>5, <2>6 DEF LeastOf
    <3> QED
      BY <1>6, <2>1, <2>2, <2>3, <3>1, ScaledAround
  <2> QED
    BY <2>5, <2>6 DEF Parts
<1> HIDE DEF range
<1>8. \A k \in 1..n : /\ e(k) \in Points /\ e(k).omega = d[k].omega
                      /\ e(k).im = Over(Difference(d[k].im, base), range)
  <2> TAKE k \in 1..n
  <2>1. d[k] \in Points
    BY <1>1
  <2>2. d[k].omega \in Finites
    BY <2>1 DEF Points
  <2>3. Over(Difference(d[k].im, base), range) \in Fvalues
    BY <1>7 DEF Fvalues
  <2> QED
    BY <2>2, <2>3 DEF Point, Points
<1> DEFINE N == [k \in 1..n |-> e(k)]
<1>9. \A k \in 1..n : N[k] = e(k)
  OBVIOUS
<1>10. N \in [1..n -> Points] /\ Len(N) = n
  <2> HIDE DEF e
  <2> QED
    BY <1>1, <1>8
<1> HIDE DEF N, e
<1>11. \A k \in 1..n : Finite(N[k].im)
  BY <1>7, <1>8, <1>9, FvaluesParts DEF Fvalues
<1>12. Regular(N, n)
  BY <1>1, <1>10, <1>11 DEF Regular, Spectrum
<1>13. \A k \in 1..n : /\ N[k].omega = d[k].omega
                       /\ Leq(LeastOf(part), N[k].im)
                       /\ Leq(N[k].im, Whole(1))
  BY <1>7, <1>8, <1>9
<1>14. Normalize(d, part) = N
  BY <1>4 DEF N
<1> QED
  BY <1>12, <1>13, <1>14

(***************************************************************************)
(* The gradients                                                           *)
(***************************************************************************)
\* What a gradient may be: not negative, not -infinity.
Rises == {x \in Fvalues : x[1] >= 0}

\* Gradients are taken at inner points; the ends repeat their neighbours.
LEMMA GradIndexInner ==
    ASSUME NEW n \in Nat, n >= 3, NEW i \in 0..(n - 1)
    PROVE  /\ GradIndex(n, i) \in 1..(n - 2)
           /\ i \in 1..(n - 2) => GradIndex(n, i) = i
           /\ i = 0 => GradIndex(n, i) = 1
           /\ i = n - 1 => GradIndex(n, i) = n - 2
BY DEF GradIndex

\* The size, the indices and the points of a spectrum.
LEMMA SpectrumAt ==
    ASSUME NEW d, NEW n, Spectrum(d, n)
    PROVE  /\ n \in Nat /\ d \in [1..n -> Points] /\ Size(d) = n /\ Indices(d) = 0..(n - 1)
           /\ DOMAIN d = 1..n
           /\ \A i \in 0..(n - 1) : /\ At(d, i) = d[i + 1] /\ At(d, i) \in Points
                                    /\ At(d, i).omega \in Finites /\ At(d, i).im \in Fvalues
<1>1. n \in Nat /\ d \in [1..n -> Points] /\ Size(d) = n
  BY DEF Spectrum, Size
<1>2. \A i \in 0..(n - 1) : i + 1 \in 1..n
  BY <1>1
<1>3. \A i \in 0..(n - 1) : At(d, i) = d[i + 1] /\ At(d, i) \in Points
  BY <1>1, <1>2 DEF At
<1>4. \A p \in Points : p.omega \in Finites /\ p.im \in Fvalues
  BY DEF Points
<1> QED
  BY <1>1, <1>3, <1>4 DEF Indices

\* A magnitude is not negative.
LEMMA MagnitudeRises ==
    ASSUME NEW x \in Fvalues
    PROVE  Magnitude(x) \in Rises
<1>1. Magnitude(x) \in Fvalues
  BY Closed
<1>2. Magnitude(x)[1] = Abs(x[1]) /\ x[1] \in Int
  BY FvaluesParts DEF Magnitude
<1> QED
  BY <1>1, <1>2 DEF Rises, Abs

\* The slope over the neighbours of index k.
SlopeOver(d, k, high, low) ==
    Magnitude(Over(Difference(high, low), Difference(At(d, k + 1).omega, At(d, k - 1).omega)))

\* A slope is not negative.
LEMMA SlopeTyped ==
    ASSUME NEW d, NEW n, Spectrum(d, n), NEW k \in 1..(n - 2),
           NEW high \in Fvalues, NEW low \in Fvalues
    PROVE  SlopeOver(d, k, high, low) \in Rises
<1>1. n \in Nat /\ k + 1 \in 0..(n - 1) /\ k - 1 \in 0..(n - 1)
  BY SpectrumAt
<1>2. PICK u, v : u = At(d, k + 1).omega /\ v = At(d, k - 1).omega
  OBVIOUS
<1>3. u \in Finites /\ v \in Finites
  BY <1>1, <1>2, SpectrumAt
<1>4. Difference(u, v) \in Finites /\ Difference(u, v) \in Fvalues
  BY <1>3, DifferenceFinite DEF Fvalues
<1>5. PICK x, y : x = Difference(high, low) /\ y = Difference(u, v)
  OBVIOUS
<1>6. x \in Fvalues
  BY <1>5, Closed
<1>7. Over(x, y) \in Fvalues
  BY <1>4, <1>5, <1>6, Closed
<1>8. SlopeOver(d, k, high, low) = Magnitude(Over(x, y))
  BY <1>2, <1>5 DEF SlopeOver
<1> QED
  BY <1>7, <1>8, MagnitudeRises

\* absGrad at a point: the slope between the two neighbours of an inner point.
LEMMA AbsGradAt ==
    ASSUME NEW d, NEW n, Spectrum(d, n), n >= 3, NEW i \in 0..(n - 1)
    PROVE  LET k == GradIndex(n, i)
           IN  /\ AbsGrad(d, i) = SlopeOver(d, k, At(d, k + 1).im, At(d, k - 1).im)
               /\ AbsGrad(d, i) \in Rises
<1>1. n \in Nat /\ Size(d) = n
  BY SpectrumAt
<1>2. PICK k : k = GradIndex(n, i)
  OBVIOUS
<1>3. k \in 1..(n - 2) /\ k + 1 \in 0..(n - 1) /\ k - 1 \in 0..(n - 1)
  BY <1>1, <1>2, GradIndexInner
<1>4. AbsGrad(d, i) = SlopeOver(d, k, At(d, k + 1).im, At(d, k - 1).im)
  BY <1>1, <1>2 DEF AbsGrad, Slope, SlopeOver
<1>5. At(d, k + 1).im \in Fvalues /\ At(d, k - 1).im \in Fvalues
  BY <1>3, SpectrumAt
<1>6. AbsGrad(d, i) \in Rises
  BY <1>3, <1>4, <1>5, SlopeTyped
<1> QED
  BY <1>2, <1>4, <1>6

\* The first derivative.
First(d, n) == [i \in 0..(n - 1) |-> AbsGrad(d, i)]

\* The first derivative, at every point of a spectrum.
LEMMA GradsFirst ==
    ASSUME NEW d, NEW n, Spectrum(d, n), n >= 3
    PROVE  /\ Grads(d, FALSE) = First(d, n)
           /\ First(d, n) \in [0..(n - 1) -> Rises]
<1>1. n \in Nat /\ Size(d) = n /\ Indices(d) = 0..(n - 1)
  BY SpectrumAt
<1>2. Grads(d, FALSE) = First(d, n)
  BY <1>1 DEF Grads, First
<1>3. \A i \in 0..(n - 1) : AbsGrad(d, i) \in Rises
  BY AbsGradAt
<1> QED
  BY <1>2, <1>3 DEF First

\* The second: at each index from what has been replaced before it.
LEMMA GradsSecond ==
    ASSUME NEW d, NEW n, Spectrum(d, n), n >= 3
    PROVE  LET s == Grads(d, TRUE)
               g == First(d, n)
           IN  /\ s \in [0..(n - 1) -> Rises]
               /\ \A i \in 0..(n - 1) :
                    LET k == GradIndex(n, i)
                        at(j) == IF j < i THEN s[j] ELSE g[j]
                    IN  s[i] = SlopeOver(d, k, at(k + 1), at(k - 1))
<1>1. n \in Nat /\ Size(d) = n /\ Indices(d) = 0..(n - 1)
  BY SpectrumAt
<1> DEFINE V == [0..(n - 1) -> Rises]
           g == First(d, n)
           new(v, i) == SlopeOver(d, GradIndex(n, i - 1),
                                  v[GradIndex(n, i - 1) + 1], v[GradIndex(n, i - 1) - 1])
           G == [p \in V \X (1..n) |-> [p[1] EXCEPT ![p[2] - 1] = new(p[1], p[2])]]
           after == CHOOSE after : after = [i \in 0..n |->
                      IF i = 0 THEN g ELSE [after[i - 1] EXCEPT ![i - 1] = new(after[i - 1], i)]]
<1>2. g \in V
  BY GradsFirst
<1>3. \A v \in V, i \in 1..n : new(v, i) \in Rises
  <2> SUFFICES ASSUME NEW v \in V, NEW i \in 1..n
               PROVE  new(v, i) \in Rises
    OBVIOUS
  <2>1. i - 1 \in 0..(n - 1)
    BY <1>1
  <2>2. PICK k : k = GradIndex(n, i - 1)
    OBVIOUS
  <2>3. k \in 1..(n - 2) /\ k + 1 \in 0..(n - 1) /\ k - 1 \in 0..(n - 1)
    BY <1>1, <2>1, <2>2, GradIndexInner
  <2>4. v[k + 1] \in Rises /\ v[k - 1] \in Rises
    BY <2>3
  <2>5. v[k + 1] \in Fvalues /\ v[k - 1] \in Fvalues
    BY <2>4 DEF Rises
  <2> QED
    BY <2>2, <2>3, <2>5, SlopeTyped
<1>4. \A v \in V, i \in 1..n : /\ G[<<v, i>>] = [v EXCEPT ![i - 1] = new(v, i)]
                               /\ G[<<v, i>>] \in V
  <2> HIDE DEF new
  <2> SUFFICES ASSUME NEW v \in V, NEW i \in 1..n
               PROVE  /\ G[<<v, i>>] = [v EXCEPT ![i - 1] = new(v, i)]
                      /\ G[<<v, i>>] \in V
    OBVIOUS
  <2>1. G[<<v, i>>] = [v EXCEPT ![i - 1] = new(v, i)]
    OBVIOUS
  <2>2. new(v, i) \in Rises
    BY <1>3
  <2>3. [v EXCEPT ![i - 1] = new(v, i)] \in V
    BY <2>2
  <2> QED
    BY <2>1, <2>3
<1>5. after = [i \in 0..n |->
                 IF i = 0 THEN g ELSE [after[i - 1] EXCEPT ![i - 1] = new(after[i - 1], i)]]
      /\ after \in [0..n -> V]
  <2> HIDE DEF V, g, new, G
  <2>1. PICK f : IsRecursion(f, V, g, n, G)
    BY <1>1, <1>2, <1>4, RecursionExists
  <2>2. /\ f \in [0..n -> V]
        /\ \A p \in 0..n : f[p] = IF p = 0 THEN g ELSE G[<<f[p - 1], p>>]
    BY <2>1 DEF IsRecursion
  <2>3. \A p \in 0..n : p # 0 => f[p - 1] \in V /\ p \in 1..n
    BY <1>1, <2>2
  <2>4. \A p \in 0..n :
           f[p] = IF p = 0 THEN g ELSE [f[p - 1] EXCEPT ![p - 1] = new(f[p - 1], p)]
    BY <1>4, <2>2, <2>3
  <2>5. f = [i \in 0..n |->
               IF i = 0 THEN g ELSE [f[i - 1] EXCEPT ![i - 1] = new(f[i - 1], i)]]
    BY <2>2, <2>4
  <2>6. after = [i \in 0..n |->
                 IF i = 0 THEN g ELSE [after[i - 1] EXCEPT ![i - 1] = new(after[i - 1], i)]]
    BY <2>5
  <2> HIDE DEF after
  <2> DEFINE T == {m \in Nat : m <= n => after[m] \in V}
  <2>7. \A p \in 0..n : after[p] =
           IF p = 0 THEN g ELSE [after[p - 1] EXCEPT ![p - 1] = new(after[p - 1], p)]
    BY <2>6
  <2>8. 0 \in T
    <3>1. 0 \in 0..n
      BY <1>1
    <3>2. after[0] = g
      BY <2>7, <3>1
    <3>3. after[0] \in V
      BY <1>2, <3>2
    <3> QED
      BY <3>3
  <2>9. ASSUME NEW m \in Nat, m \in T
        PROVE  m + 1 \in T
    <3> SUFFICES ASSUME m + 1 <= n
                 PROVE  after[m + 1] \in V
      OBVIOUS
    <3>0. m <= n /\ m + 1 \in 1..n /\ m + 1 \in 0..n /\ m + 1 - 1 = m /\ m + 1 # 0
      BY <1>1
    <3>1. after[m] \in V /\ m + 1 \in 1..n /\ m + 1 \in 0..n /\ m + 1 - 1 = m /\ m + 1 # 0
      BY <2>9, <3>0
    <3>2. after[m + 1] = [after[m] EXCEPT ![m] = new(after[m], m + 1)]
      BY <2>7, <3>1
    <3>3. G[<<after[m], m + 1>>] = [after[m] EXCEPT ![m] = new(after[m], m + 1)]
          /\ G[<<after[m], m + 1>>] \in V
      BY <1>4, <3>1
    <3> QED
      BY <3>2, <3>3
  <2>10. \A m \in Nat : m \in T
    <3> HIDE DEF T
    <3> QED
      BY <2>8, <2>9, SetInduction
  <2>11. \A m \in 0..n : after[m] \in V
    BY <2>10
  <2>12. after = [m \in 0..n |-> after[m]]
    BY <2>6
  <2>13. after \in [0..n -> V]
    BY <2>11, <2>12
  <2> QED
    BY <2>6, <2>13
<1>6. Grads(d, TRUE) = after[n]
  BY <1>1 DEF Grads, First, Slope, SlopeOver
<1> HIDE DEF after, G
<1>7. \A p \in 1..n : /\ after[p] \in V /\ after[p - 1] \in V
                      /\ after[p] = [after[p - 1] EXCEPT ![p - 1] = new(after[p - 1], p)]
  <2> HIDE DEF V, g, new
  <2> TAKE p \in 1..n
  <2>1. p \in 0..n /\ p # 0 /\ p - 1 \in 0..n
    BY <1>1
  <2> QED
    BY <1>5, <2>1
<1>8. after[0] = g
  BY <1>1, <1>5
\* Up to index p all are replaced, from there on none is.
<1> DEFINE T == {p \in Nat : p <= n =>
                   /\ \A j \in 0..(n - 1) : j >= p => after[p][j] = g[j]
                   /\ \A q \in 0..p : \A j \in 0..(n - 1) : j < q => after[p][j] = after[q][j]}
<1> HIDE DEF g, new
<1>9. 0 \in T
  <2>1. \A j \in 0..(n - 1), q \in 0..0 : ~(j < q)
    OBVIOUS
  <2> QED
    BY <1>8, <2>1
<1>10. ASSUME NEW p \in Nat, p \in T
       PROVE  p + 1 \in T
  <2> SUFFICES ASSUME p + 1 <= n
               PROVE  /\ \A j \in 0..(n - 1) : j >= p + 1 => after[p + 1][j] = g[j]
                      /\ \A q \in 0..(p + 1) : \A j \in 0..(n - 1) :
                           j < q => after[p + 1][j] = after[q][j]
    OBVIOUS
  <2>1. p + 1 \in 1..n /\ p + 1 - 1 = p /\ p \in 0..(n - 1) /\ p <= n
    BY <1>1
  <2>2. after[p + 1] = [after[p] EXCEPT ![p] = new(after[p], p + 1)] /\ after[p] \in V
    BY <1>7, <2>1
  <2>3. \A j \in 0..(n - 1) : j # p => after[p + 1][j] = after[p][j]
    BY <2>2
  <2>4. /\ \A j \in 0..(n - 1) : j >= p => after[p][j] = g[j]
        /\ \A q \in 0..p : \A j \in 0..(n - 1) : j < q => after[p][j] = after[q][j]
    BY <1>10, <2>1
  <2>5. \A j \in 0..(n - 1) : j >= p + 1 => j # p /\ j >= p
    BY <2>1
  <2>6. \A q \in 0..(p + 1) : q = p + 1 \/ q \in 0..p
    OBVIOUS
  <2>7. \A q \in 0..p : \A j \in 0..(n - 1) : j < q => j # p
    OBVIOUS
  <2>8. \A j \in 0..(n - 1) : j >= p + 1 => after[p + 1][j] = g[j]
    BY <2>3, <2>4, <2>5
  <2>9. \A q \in 0..p : \A j \in 0..(n - 1) : j < q => after[p + 1][j] = after[q][j]
    BY <2>3, <2>4, <2>7
  <2> QED
    BY <2>6, <2>8, <2>9
<1>11. \A p \in Nat : p \in T
  <2> HIDE DEF T
  <2> QED
    BY <1>9, <1>10, SetInduction
<1>12. \A p \in 0..n :
         /\ \A j \in 0..(n - 1) : j >= p => after[p][j] = g[j]
         /\ \A j \in 0..(n - 1) : j < p => after[n][j] = after[p][j]
  <2> TAKE p \in 0..n
  <2>1. p \in T /\ n \in T /\ p \in Nat /\ p <= n
    BY <1>1, <1>11
  <2> QED
    BY <1>1, <2>1
<1> HIDE DEF T
<1>13. after[n] \in V
  BY <1>1, <1>5
<1>14. ASSUME NEW i \in 0..(n - 1)
       PROVE  LET k == GradIndex(n, i)
                  at(j) == IF j < i THEN after[n][j] ELSE g[j]
              IN  after[n][i] = SlopeOver(d, k, at(k + 1), at(k - 1))
  <2>1. i + 1 \in 1..n /\ i + 1 \in 0..n /\ i + 1 - 1 = i /\ i < i + 1 /\ i \in 0..n
    BY <1>1
  <2>2. after[i + 1] = [after[i] EXCEPT ![i] = new(after[i], i + 1)] /\ after[i] \in V
    BY <1>7, <2>1
  <2>3. after[i + 1][i] = new(after[i], i + 1)
    BY <2>2
  <2>4. after[n][i] = after[i + 1][i]
    BY <1>12, <2>1
  <2>5. \A j \in 0..(n - 1) : after[i][j] = IF j < i THEN after[n][j] ELSE g[j]
    <3> TAKE j \in 0..(n - 1)
    <3>1. CASE j < i
      BY <1>12, <2>1, <3>1
    <3>2. CASE ~(j < i)
      BY <1>12, <2>1, <3>2
    <3> QED
      BY <3>1, <3>2
  <2>6. PICK k : k = GradIndex(n, i)
    OBVIOUS
  <2>7. k + 1 \in 0..(n - 1) /\ k - 1 \in 0..(n - 1)
    BY <1>1, <2>6, GradIndexInner
  <2>8. new(after[i], i + 1) = SlopeOver(d, k, after[i][k + 1], after[i][k - 1])
    BY <2>1, <2>6 DEF new
  <2>9. after[n][i] = SlopeOver(d, k, after[i][k + 1], after[i][k - 1])
    BY <2>3, <2>4, <2>8
  <2> QED
    BY <2>5, <2>6, <2>7, <2>9
<1> QED
  BY <1>6, <1>13, <1>14 DEF g

(***************************************************************************)
(* reduceRegion                                                            *)
(***************************************************************************)
\* Gradients are not negative.
LEMMA GradsTyped ==
    ASSUME NEW d, NEW n, Spectrum(d, n), n >= 3, NEW second \in BOOLEAN
    PROVE  /\ Grads(d, second) \in [0..(n - 1) -> Rises]
           /\ Grads(d, second)[n - 1] = Grads(d, second)[n - 2]
           /\ ~second => Grads(d, second)[0] = Grads(d, second)[1]
<1>1. n \in Nat
  BY DEF Spectrum
<1>2. /\ n - 1 \in 0..(n - 1) /\ n - 2 \in 0..(n - 1) /\ n - 3 \in 0..(n - 1)
      /\ 0 \in 0..(n - 1) /\ 1 \in 0..(n - 1)
  BY <1>1
<1>3. /\ GradIndex(n, n - 1) = n - 2 /\ GradIndex(n, n - 2) = n - 2
      /\ GradIndex(n, 0) = 1 /\ GradIndex(n, 1) = 1
  BY <1>1 DEF GradIndex
<1>4. CASE second = FALSE
  <2>1. Grads(d, FALSE) = First(d, n) /\ First(d, n) \in [0..(n - 1) -> Rises]
    BY GradsFirst
  <2>2. \A i, j \in 0..(n - 1) : GradIndex(n, i) = GradIndex(n, j) => AbsGrad(d, i) = AbsGrad(d, j)
    <3> TAKE i, j \in 0..(n - 1)
    <3>1. PICK k, l : k = GradIndex(n, i) /\ l = GradIndex(n, j)
      OBVIOUS
    <3>2. /\ AbsGrad(d, i) = SlopeOver(d, k, At(d, k + 1).im, At(d, k - 1).im)
          /\ AbsGrad(d, j) = SlopeOver(d, l, At(d, l + 1).im, At(d, l - 1).im)
      BY <3>1, AbsGradAt
    <3> QED
      BY <3>1, <3>2
  <2>3. \A i \in 0..(n - 1) : First(d, n)[i] = AbsGrad(d, i)
    BY DEF First
  <2> QED
    BY <1>2, <1>3, <1>4, <2>1, <2>2, <2>3
<1>5. CASE second = TRUE
  <2>0. PICK s, g : s = Grads(d, TRUE) /\ g = First(d, n)
    OBVIOUS
  <2>1. /\ s \in [0..(n - 1) -> Rises]
        /\ \A i \in 0..(n - 1) :
             LET k == GradIndex(n, i)
                 at(j) == IF j < i THEN s[j] ELSE g[j]
             IN  s[i] = SlopeOver(d, k, at(k + 1), at(k - 1))
    BY <2>0, GradsSecond
  <2>2. \A i \in {n - 1, n - 2} : s[i] = SlopeOver(d, n - 2, g[n - 1], s[n - 3])
    <3> TAKE i \in {n - 1, n - 2}
    <3>1. i \in 0..(n - 1) /\ GradIndex(n, i) = n - 2
      BY <1>2, <1>3
    <3>2. n - 2 + 1 = n - 1 /\ n - 2 - 1 = n - 3 /\ ~(n - 1 < i) /\ n - 3 < i
      BY <1>1
    <3>3. s[i] = SlopeOver(d, n - 2, IF n - 2 + 1 < i THEN s[n - 2 + 1] ELSE g[n - 2 + 1],
                                     IF n - 2 - 1 < i THEN s[n - 2 - 1] ELSE g[n - 2 - 1])
      BY <2>1, <3>1
    <3> QED
      BY <3>2, <3>3
  <2> QED
    BY <1>5, <2>0, <2>1, <2>2
<1> QED
  BY <1>4, <1>5

\* A first derivative is not below its median, or a part of it, throughout.
LEMMA FirstNotAllBelow ==
    ASSUME NEW d, NEW n, Spectrum(d, n), n >= 3,
           NEW factor \in Finites, ~Less(Whole(1), factor)
    PROVE  \E i \in 1..(n - 2) : i \notin Below(Grads(d, FALSE), FALSE, factor)
<1>0. PICK g : g = Grads(d, FALSE)
  OBVIOUS
<1>1. n \in Nat
  BY DEF Spectrum
<1>2. g \in [0..(n - 1) -> Rises] /\ g[n - 1] = g[n - 2] /\ g[0] = g[1]
  BY <1>0, GradsTyped
<1> SUFFICES ASSUME \A i \in 1..(n - 2) : i \in Below(g, FALSE, factor)
             PROVE  FALSE
  BY <1>0
<1> DEFINE values == [k \in 1..n |-> g[k - 1]]
           t == Times(Median(values), factor)
<1>3. DOMAIN g = 0..(n - 1) /\ Cardinality(DOMAIN g) = n
  BY <1>1, <1>2, FS_Interval
<1>4. Below(g, FALSE, factor) = {i \in 0..(n - 1) : Less(g[i], t)}
  BY <1>3 DEF Below, Threshold
<1> HIDE DEF t
<1>5. \A i \in 0..(n - 1) : Less(g[i], t)
  <2>1. \A i \in 1..(n - 2) : Less(g[i], t)
    BY <1>4
  <2>2. \A i \in 0..(n - 1) : i = 0 \/ i = n - 1 \/ i \in 1..(n - 2)
    BY <1>1
  <2>3. 1 \in 1..(n - 2) /\ n - 2 \in 1..(n - 2)
    BY <1>1
  <2> QED
    BY <1>2, <2>1, <2>2, <2>3
<1>6. \A i \in 0..(n - 1) : g[i] \in Finites /\ g[i][1] >= 0
  <2> TAKE i \in 0..(n - 1)
  <2>1. PICK x : x = g[i]
    OBVIOUS
  <2>2. x \in Fvalues /\ x[1] >= 0 /\ Less(x, t)
    BY <1>2, <1>5, <2>1 DEF Rises
  <2>3. x \in Finites
    <3> SUFFICES ASSUME x \notin Finites
                 PROVE  FALSE
      OBVIOUS
    <3>1. x \in {Nan, Inf} /\ ~Finite(x)
      <4>1. ~Finite(x) /\ x \in {Nan, Inf, Minus(Inf)}
        BY <2>2, FvaluesParts DEF Fvalues
      <4>2. Minus(Inf)[1] = -1
        BY DEF Minus, Inf
      <4> QED
        BY <2>2, <4>1, <4>2
    <3>2. x # t /\ Nan \notin {x, t} /\ (x = Minus(Inf) \/ t = Inf)
      BY <2>2, <3>1 DEF Less
    <3>3. Inf # Minus(Inf)
      BY DEF Inf, Minus
    <3> QED
      BY <3>1, <3>2, <3>3
  <2> QED
    BY <2>1, <2>2, <2>3
<1>7. values \in [1..n -> Finites] /\ Len(values) = n /\ \A k \in 1..n : values[k] = g[k - 1] /\ values[k][1] >= 0
  <2>1. \A k \in 1..n : k - 1 \in 0..(n - 1)
    BY <1>1
  <2>2. \A k \in 1..n : g[k - 1] \in Finites /\ g[k - 1][1] >= 0
    BY <1>6, <2>1
  <2> QED
    BY <1>1, <2>2
<1> HIDE DEF values
<1>8. PICK k \in 1..n : ~Less(values[k], Times(Median(values), factor))
  <2>1. n > 0
    BY <1>1
  <2> QED
    BY <1>1, <1>7, <2>1, MedianReached
<1>9. k - 1 \in 0..(n - 1)
  BY <1>1
<1> QED
  BY <1>5, <1>7, <1>8, <1>9 DEF t

\* No sequence is Outside.
LEMMA NotOutside ==
    ASSUME NEW f, NEW n \in Nat, DOMAIN f = 1..n
    PROVE  f # Outside
<1>1. 0 \in DOMAIN Outside
  BY DEF Outside
<1>2. 0 \notin 1..n
  OBVIOUS
<1> QED
  BY <1>1, <1>2

\* What reduceRegion does with three points or more.
LEMMA Reduced ==
    ASSUME NEW d, NEW n, Regular(d, n), n >= 3,
           NEW part \in Parts, NEW second \in BOOLEAN, NEW factor \in Finites
    PROVE  LET all == Normalize(d, part)
               below == Below(Grads(all, second), second, factor)
               start == RegionStart(n, below)
               end == RegionEnd(n, below)
           IN  /\ start \in 0..(n - 2) /\ end \in 2..(n - 1)
               /\ n - 1 \in below <=> n - 2 \in below
               /\ ReduceRegion(d, part, second, factor) = Outside => end + 1 < start
               /\ ReduceRegion(d, part, second, factor) # Outside =>
                    ReduceRegion(d, part, second, factor) = SubSeq(all, start + 1, end + 1)
<1> DEFINE all == Normalize(d, part)
           below == Below(Grads(all, second), second, factor)
           start == RegionStart(n, below)
           end == RegionEnd(n, below)
<1>1. n \in Nat /\ Size(d) = n
  BY SpectrumAt DEF Regular
<1>2. Spectrum(all, n)
  <2>1. n > 0
    BY <1>1
  <2> QED
    BY <2>1, Normalized DEF Regular
<1>3. ReduceRegion(d, part, second, factor) = IF end + 1 < start THEN Outside
                                ELSE SubSeq(all, start + 1, end + 1)
  BY <1>1 DEF ReduceRegion
<1> HIDE DEF all
<1>4. PICK g : g = Grads(all, second)
  OBVIOUS
<1>5. g \in [0..(n - 1) -> Rises] /\ g[n - 1] = g[n - 2]
  BY <1>2, <1>4, GradsTyped
<1>6. n - 1 \in below <=> n - 2 \in below
  <2>1. DOMAIN g = 0..(n - 1) /\ n - 1 \in 0..(n - 1) /\ n - 2 \in 0..(n - 1)
    BY <1>1, <1>5
  <2> QED
    BY <1>4, <1>5, <2>1 DEF Below
<1> HIDE DEF below
<1>7. start \in 0..(n - 2)
  BY <1>1, StartAt
<1>8. end \in 2..(n - 1)
  <2>1. CASE n - 1 \in below
    BY <1>1, <2>1, EndAt
  <2>2. CASE n - 1 \notin below
    BY <1>1, <2>2 DEF RegionEnd
  <2> QED
    BY <2>1, <2>2
<1> HIDE DEF start, end
<1>9. ReduceRegion(d, part, second, factor) = Outside => end + 1 < start
  <2> SUFFICES ASSUME ~(end + 1 < start)
               PROVE  SubSeq(all, start + 1, end + 1) # Outside
    BY <1>3
  <2>1. start + 1 \in Int /\ end + 1 \in Int
    BY <1>7, <1>8
  <2>2. PICK m \in Nat : DOMAIN SubSeq(all, start + 1, end + 1) = 1..m
    <3>1. end + 1 - (start + 1) + 1 \in Nat
      BY <1>7, <1>8
    <3>2. all \in Seq(Points)
      BY <1>2 DEF Spectrum
    <3>3. \A i \in (start + 1)..(end + 1) : i \in 1..Len(all)
      BY <1>1, <1>2, <1>7, <1>8 DEF Spectrum
    <3>4. SubSeq(all, start + 1, end + 1) \in Seq(Points)
      BY <2>1, <3>2, <3>3, SubSeqProperties
    <3> QED
      BY <3>4
  <2> QED
    BY <2>2, NotOutside
<1> QED
  BY <1>3, <1>6, <1>7, <1>8, <1>9 DEF all, below, start, end

\* A sequence of points is a spectrum of its length.
LEMMA SpectrumOfSeq ==
    ASSUME NEW d \in Seq(Points)
    PROVE  Spectrum(d, Len(d)) /\ DOMAIN d = 1..Len(d) /\ Len(d) \in Nat
BY DEF Spectrum

\* The range runs backwards only if all of a derivative is below the threshold.
LEMMA ReducedOutside ==
    ASSUME NEW d, NEW n, Regular(d, n),
           NEW part \in Parts, NEW second \in BOOLEAN, NEW factor \in Finites,
           ReduceRegion(d, part, second, factor) = Outside
    PROVE  /\ n >= 6 /\ (second \/ Less(Whole(1), factor))
           /\ 1..(n - 1) \subseteq Below(Grads(Normalize(d, part), second), second, factor)
<1>1. n \in Nat /\ Size(d) = n /\ DOMAIN d = 1..n
  BY SpectrumAt DEF Regular
<1>2. n >= 3
  <2> SUFFICES ASSUME n < 3
               PROVE  FALSE
    BY <1>1
  <2>1. ReduceRegion(d, part, second, factor) = d
    BY <1>1 DEF ReduceRegion
  <2> QED
    BY <1>1, <2>1, NotOutside
<1>3. PICK all : all = Normalize(d, part)
  OBVIOUS
<1>4. Spectrum(all, n)
  <2>1. n > 0
    BY <1>1, <1>2
  <2> QED
    BY <1>3, <2>1, Normalized DEF Regular
<1>5. PICK below : below = Below(Grads(all, second), second, factor)
  OBVIOUS
<1>6. RegionEnd(n, below) + 1 < RegionStart(n, below)
  BY <1>2, <1>3, <1>5, Reduced
<1>7. n >= 6 /\ \A i \in 1..(n - 1) : i \in below
  BY <1>1, <1>2, <1>6, OnlyAllBelow
<1>8. second \/ Less(Whole(1), factor)
  <2> SUFFICES ASSUME second = FALSE, ~Less(Whole(1), factor)
               PROVE  FALSE
    OBVIOUS
  <2>1. PICK i \in 1..(n - 2) : i \notin Below(Grads(all, FALSE), FALSE, factor)
    BY <1>2, <1>4, FirstNotAllBelow
  <2>2. i \in 1..(n - 1)
    BY <1>1
  <2> QED
    BY <1>5, <1>7, <2>1, <2>2
<1> QED
  BY <1>3, <1>5, <1>7, <1>8

\* What is left is what the steep points span, within the bounds of the part.
SteepKept(d, n, part, second, factor) ==
    LET all == Normalize(d, part)
        steep == (1..(n - 2)) \ Below(Grads(all, second), second, factor)
        left == ReduceRegion(d, part, second, factor)
    IN  /\ steep # {} => left = SubSeq(all, Min(steep), Max(steep) + 2)
        /\ steep = {} => second \/ Less(Whole(1), factor)
        /\ \A p \in ToSet(left) : ~Less(p.im, LeastOf(part)) /\ ~Less(Whole(1), p.im)

LEMMA ReducedToSteep ==
    ASSUME NEW d, NEW n, Regular(d, n), n >= 3,
           NEW part \in Parts, NEW second \in BOOLEAN, NEW factor \in Finites,
           ReduceRegion(d, part, second, factor) # Outside
    PROVE  SteepKept(d, n, part, second, factor)
<1>1. n \in Nat /\ Size(d) = n
  BY SpectrumAt DEF Regular
<1>2. PICK all : all = Normalize(d, part)
  OBVIOUS
<1>3. /\ Spectrum(all, n)
      /\ \A k \in 1..n : Leq(LeastOf(part), all[k].im) /\ Leq(all[k].im, Whole(1))
  <2>1. n > 0
    BY <1>1
  <2>2. Regular(all, n)
    BY <1>2, <2>1, Normalized
  <2>3. \A k \in 1..n : Leq(LeastOf(part), all[k].im) /\ Leq(all[k].im, Whole(1))
    BY <1>2, <2>1, Normalized
  <2> QED
    BY <2>2, <2>3 DEF Regular
<1>4. PICK below, left : /\ below = Below(Grads(all, second), second, factor)
                         /\ left = ReduceRegion(d, part, second, factor)
  OBVIOUS
<1> DEFINE start == RegionStart(n, below)
           end == RegionEnd(n, below)
           steep == (1..(n - 2)) \ below
<1>5. /\ start \in 0..(n - 2) /\ end \in 2..(n - 1)
      /\ n - 1 \in below <=> n - 2 \in below
      /\ left = SubSeq(all, start + 1, end + 1)
  BY <1>2, <1>4, Reduced
<1>6. steep # {} => left = SubSeq(all, Min(steep), Max(steep) + 2)
  <2> SUFFICES ASSUME steep # {}
               PROVE  left = SubSeq(all, Min(steep), Max(steep) + 2)
    OBVIOUS
  <2>1. \A i \in steep : i \in 1..(n - 2)
    OBVIOUS
  <2>2. Min(steep) \in steep /\ \A i \in steep : Min(steep) <= i
    <3>1. steep \in SUBSET Nat
      OBVIOUS
    <3> HIDE DEF steep
    <3>2. \E i \in steep : \A j \in steep : i <= j
      BY <3>1, LeastExists
    <3> QED
      BY <3>2 DEF Min
  <2>3. Max(steep) \in steep /\ \A i \in steep : Max(steep) >= i
    <3> DEFINE U == {n - i : i \in steep}
    <3>1. U \in SUBSET Nat /\ U # {}
      BY <1>1
    <3>2. PICK u \in U : \A v \in U : u <= v
      <4> HIDE DEF U
      <4> QED
        BY <3>1, LeastExists
    <3>3. PICK i \in steep : u = n - i
      BY <3>2
    <3>4. \A j \in steep : i >= j
      <4> TAKE j \in steep
      <4>1. n - i <= n - j
        BY <3>2, <3>3
      <4> QED
        BY <1>1, <4>1
    <3> HIDE DEF steep, U
    <3> QED
      BY <3>3, <3>4 DEF Max
  <2>4. PICK a, b : a = Min(steep) /\ b = Max(steep)
    OBVIOUS
  <2>5. a \in (1..(n - 2)) \ below /\ b \in (1..(n - 2)) \ below
        /\ \A i \in (1..(n - 2)) \ below : a <= i /\ i <= b
    BY <2>2, <2>3, <2>4
  <2>6. start = a - 1 /\ end = b + 1
    <3>1. n - 1 \in below <=> n - 2 \in below
      BY <1>5
    <3> HIDE DEF steep
    <3> QED
      BY <1>1, <2>5, <3>1, RegionOfSteep
  <2>7. start + 1 = a /\ end + 1 = b + 2
    BY <2>5, <2>6
  <2> QED
    BY <1>5, <2>4, <2>7
<1>7. steep = {} => second \/ Less(Whole(1), factor)
  <2> SUFFICES ASSUME second = FALSE, ~Less(Whole(1), factor)
               PROVE  steep # {}
    OBVIOUS
  <2>1. PICK i \in 1..(n - 2) : i \notin Below(Grads(all, FALSE), FALSE, factor)
    BY <1>3, FirstNotAllBelow
  <2>2. i \in steep
    BY <1>4, <2>1
  <2> QED
    BY <2>2
<1> HIDE DEF start, end, steep
<1>8. ASSUME NEW p \in ToSet(left)
      PROVE  ~Less(p.im, LeastOf(part)) /\ ~Less(Whole(1), p.im)
  <2>1. all \in [1..n -> Points]
    BY <1>3 DEF Spectrum
  <2>2. PICK s, e \in Int : s = start + 1 /\ e = end + 1
    BY <1>5
  <2>3. \A i \in s..e : i \in 1..n
    BY <1>1, <1>5, <2>2
  <2>4. \A i \in s..e : all[i] \in Points
    BY <2>1, <2>3
  <2>5. /\ SubSeq(all, s, e) \in Seq(Points)
        /\ Len(SubSeq(all, s, e)) = IF s <= e THEN e - s + 1 ELSE 0
        /\ \A i \in 1..(e - s + 1) : SubSeq(all, s, e)[i] = all[s + i - 1]
    BY <2>4, SubSeqProperties
  <2>6. left = SubSeq(all, s, e)
    BY <1>5, <2>2
  <2>7. PICK i \in DOMAIN left : p = left[i]
    BY DEF ToSet
  <2>8. DOMAIN left = 1..Len(left)
    BY <2>5, <2>6
  <2>9. i \in 1..(e - s + 1) /\ s + i - 1 \in s..e
    BY <2>2, <2>5, <2>6, <2>7, <2>8
  <2>10. p = all[s + i - 1] /\ s + i - 1 \in 1..n
    BY <2>3, <2>5, <2>6, <2>7, <2>9
  <2> QED
    BY <1>3, <2>10 DEF Leq
<1> QED
  BY <1>2, <1>4, <1>6, <1>7, <1>8 DEF steep, SteepKept

(***************************************************************************)
(* eraseSingularites                                                       *)
(***************************************************************************)
\* Induction up to a bound.
LEMMA UpTo ==
    ASSUME NEW n \in Nat, NEW S, 0 \in S, \A p \in 0..(n - 1) : p \in S => p + 1 \in S
    PROVE  \A p \in 0..n : p \in S
<1> DEFINE T == {p \in Nat : p <= n => p \in S}
<1>1. 0 \in T
  OBVIOUS
<1>2. ASSUME NEW p \in Nat, p \in T
      PROVE  p + 1 \in T
  <2>1. p + 1 <= n => p \in 0..(n - 1) /\ p <= n
    OBVIOUS
  <2> QED
    BY <1>2, <2>1
<1>3. \A p \in Nat : p \in T
  <2> HIDE DEF T
  <2> QED
    BY <1>1, <1>2, SetInduction
<1> QED
  BY <1>3

\* The walk to the left of a singular point ends somewhere.
LEMMA LeftOfExists ==
    ASSUME NEW d, NEW i \in Nat, i > 0
    PROVE  LeftOf(d, i) \in 0..(i - 1)
<1> DEFINE U == {m \in Nat : m <= i - 1 /\ (i - 1 - m <= 1 \/ ~Steep(d, i - 1 - m))}
<1>1. U \in SUBSET Nat /\ i - 1 \in U
  <2>1. i - 1 \in Nat /\ i - 1 - (i - 1) <= 1
    OBVIOUS
  <2> QED
    BY <2>1
<1>2. PICK m \in U : \A j \in U : m <= j
  <2> HIDE DEF U
  <2> QED
    BY <1>1, LeastExists
<1>3. PICK k : k = i - 1 - m
  OBVIOUS
<1>4. k \in 0..(i - 1) /\ (k <= 1 \/ ~Steep(d, k))
  BY <1>3
<1>5. ASSUME NEW l \in (k + 1)..(i - 1)
      PROVE  l > 1 /\ Steep(d, l)
  <2>1. PICK j : j = i - 1 - l
    OBVIOUS
  <2>2. j \in Nat /\ j <= i - 1 /\ ~(m <= j) /\ i - 1 - j = l /\ l \in Int
    BY <1>3, <1>4, <2>1
  <2>3. j \notin U
    BY <1>2, <2>2
  <2>4. ~(l <= 1 \/ ~Steep(d, l))
    BY <2>2, <2>3
  <2> QED
    BY <2>2, <2>4
<1>6. \E x \in 0..(i - 1) : /\ x <= 1 \/ ~Steep(d, x)
                            /\ \A l \in (x + 1)..(i - 1) : l > 1 /\ Steep(d, l)
  BY <1>4, <1>5
<1> QED
  BY <1>6 DEF LeftOf

\* So does the one to the right, at the end only from there.
LEMMA RightOfExists ==
    ASSUME NEW d, NEW n \in Nat, Size(d) = n, NEW i \in 0..(n - 1)
    PROVE  LET k == RightOf(d, i)
           IN  /\ k \in (i + 1)..n /\ (k = n <=> i = n - 1)
               /\ \A l \in (i + 1)..(k - 1) : l < n - 2 /\ Steep(d, l)
<1> DEFINE U == {k \in Nat : k >= i + 1 /\ k <= n /\ (k >= n - 2 \/ ~Steep(d, k))}
<1>1. U \in SUBSET Nat /\ n \in U
  OBVIOUS
<1>2. PICK k \in U : \A j \in U : k <= j
  <2> HIDE DEF U
  <2> QED
    BY <1>1, LeastExists
<1>3. k \in (i + 1)..n /\ (k >= n - 2 \/ ~Steep(d, k))
  OBVIOUS
<1>4. ASSUME NEW l \in (i + 1)..(k - 1)
      PROVE  l < n - 2 /\ Steep(d, l)
  <2>1. l \in Nat /\ l >= i + 1 /\ l <= n /\ ~(k <= l)
    BY <1>3
  <2>2. ~(l >= n - 2 \/ ~Steep(d, l))
    BY <1>2, <2>1
  <2> QED
    BY <2>1, <2>2
<1>5. \E x \in (i + 1)..n : /\ x >= n - 2 \/ ~Steep(d, x)
                            /\ \A l \in (i + 1)..(x - 1) : l < n - 2 /\ Steep(d, l)
  <2> HIDE DEF U
  <2> QED
    BY <1>3, <1>4
<1>6. PICK r : r = RightOf(d, i)
  OBVIOUS
<1>7. r \in (i + 1)..n /\ \A l \in (i + 1)..(r - 1) : l < n - 2 /\ Steep(d, l)
  BY <1>5, <1>6 DEF RightOf
<1>8. r = n <=> i = n - 1
  <2>1. r = n /\ i # n - 1 => n - 1 \in (i + 1)..(r - 1)
    OBVIOUS
  <2>2. ~(n - 1 < n - 2)
    OBVIOUS
  <2>3. i = n - 1 => r = n
    BY <1>7
  <2> QED
    BY <1>7, <2>1, <2>2, <2>3
<1> QED
  BY <1>6, <1>7, <1>8

\* Next to what is not a number no slope is steep.
LEMMA RightOfNan ==
    ASSUME NEW d, NEW n, Spectrum(d, n), NEW i \in 0..(n - 2), At(d, i).im = Nan
    PROVE  RightOf(d, i) = i + 1
<1>1. n \in Nat /\ Size(d) = n
  BY SpectrumAt
<1>2. PICK r : r = RightOf(d, i)
  OBVIOUS
<1>3. r \in (i + 1)..n /\ \A l \in (i + 1)..(r - 1) : l < n - 2 /\ Steep(d, l)
  <2>1. i \in 0..(n - 1)
    BY <1>1
  <2> QED
    BY <1>1, <1>2, <2>1, RightOfExists
<1> SUFFICES ASSUME r # i + 1
             PROVE  FALSE
  BY <1>2
<1>4. i + 1 < n - 2 /\ Steep(d, i + 1)
  <2>1. i + 1 \in (i + 1)..(r - 1)
    BY <1>3
  <2> QED
    BY <1>3, <2>1
<1>5. GradIndex(n, i + 1) = i + 1 /\ i + 1 \in 0..(n - 1) /\ i + 1 + 1 \in 0..(n - 1)
      /\ i + 1 - 1 = i /\ n >= 3 /\ i \in 0..(n - 1)
  BY <1>1, <1>4 DEF GradIndex
<1>6. AbsGrad(d, i + 1) = SlopeOver(d, i + 1, At(d, i + 1 + 1).im, At(d, i).im)
  BY <1>5, AbsGradAt
<1>7. PICK x, u, v : x = At(d, i + 1 + 1).im /\ u = At(d, i + 1 + 1).omega /\ v = At(d, i).omega
  OBVIOUS
<1>8. x \in Fvalues /\ u \in Finites /\ v \in Finites
  BY <1>5, <1>7, SpectrumAt
<1>9. Difference(x, Nan) = Nan
  <2>1. Minus(Nan) = Nan
    <3>1. Minus(Nan) \in Fvalues
      <4>1. Nan \in Fvalues
        BY DEF Fvalues
      <4> QED
        BY <4>1, Closed
    <3>2. Minus(Nan)[1] = -Nan[1] /\ Minus(Nan)[2] = 0 /\ Nan[1] = 0
      BY DEF Minus, Nan
    <3>3. \A a, b \in Int : a = -b => a + b = 0
      OBVIOUS
    <3>4. Minus(Nan)[1] = 0
      <4>1. PICK a, b \in Int : a = Minus(Nan)[1] /\ b = Nan[1]
        BY <3>1, <3>2, FvaluesParts
      <4>2. a + b = 0
        BY <3>2, <3>3, <4>1
      <4>3. b = 0
        BY <3>2, <4>1
      <4>4. a = 0
        BY <4>2, <4>3
      <4> QED
        BY <4>1, <4>4
    <3>5. Minus(Nan) = <<Minus(Nan)[1], Minus(Nan)[2]>>
      BY <3>1, FvaluesParts
    <3> QED
      BY <3>2, <3>4, <3>5 DEF Nan
  <2>2. Plus(x, Nan) = Nan
    <3>1. ~Finite(Nan) /\ Nan[1] = 0 /\ Nan[2] = 0
      BY DEF Finite, Nan
    <3>2. x[1] \in Int /\ x[2] \in Nat
      BY <1>8, FvaluesParts
    <3>3. x[1] * 0 + 0 * x[2] = 0
      BY <3>2
    <3>4. Fraction(0, 0) = Nan
      BY DEF Fraction, Sign, Nan
    <3>5. x # Nan => Plus(x, Nan) = Fraction(x[1] * 0 + 0 * x[2], 0)
      BY <3>1 DEF Plus
    <3>6. x = Nan => Plus(x, Nan) = x
      BY <3>1 DEF Plus
    <3> QED
      BY <3>3, <3>4, <3>5, <3>6
  <2> QED
    BY <2>1, <2>2 DEF Difference
<1>10. PICK y : y = Difference(u, v)
  OBVIOUS
<1>11. y \in Finites
  BY <1>8, <1>10, DifferenceFinite
<1>12. Over(Nan, y) = Nan
  <2>1. y[1] \in Int /\ y[2] \in Int
    BY <1>11 DEF Finites
  <2>2. PICK s \in {-1, 1} : s = (IF y[1] < 0 THEN -1 ELSE 1)
    OBVIOUS
  <2>3. s * 0 * y[2] = 0 /\ 0 * Abs(y[1]) = 0
    BY <2>1 DEF Abs
  <2>4. Nan[1] = 0 /\ Nan[2] = 0
    BY DEF Nan
  <2>5. Fraction(0, 0) = Nan
    BY DEF Fraction, Sign, Nan
  <2> QED
    BY <2>2, <2>3, <2>4, <2>5 DEF Over
<1>13. Magnitude(Nan) = Nan
  BY DEF Magnitude, Abs, Nan
<1>14. AbsGrad(d, i + 1) = Nan
  BY <1>5, <1>6, <1>7, <1>9, <1>10, <1>12, <1>13 DEF SlopeOver
<1>15. ~Less(Whole(10), Nan)
  BY DEF Less, Finite, Nan
<1> QED
  BY <1>4, <1>14, <1>15 DEF Steep

\* A flat piece around the singular point takes the middle of its ends.
LEMMA SingularityErased ==
    ASSUME NEW d, NEW n, Spectrum(d, n), NEW i \in 0..(n - 1),
           NEW left, left = LeftOf(d, i), NEW right, right = RightOf(d, i),
           NEW mean, mean = Middle(At(d, left).im, At(d, right).im)
    PROVE  /\ i \in {0, n - 1} => EraseSingularity(d, i) = Outside
           /\ i \notin {0, n - 1} =>
                /\ left \in 0..(i - 1) /\ right \in (i + 1)..(n - 1) /\ mean \in Fvalues
                /\ Spectrum(EraseSingularity(d, i), n)
                /\ \A k \in 1..n : EraseSingularity(d, i)[k] =
                     IF k - 1 \in left..(right - 1) THEN Point(d[k].omega, mean) ELSE d[k]
<1>1. n \in Nat /\ Size(d) = n /\ DOMAIN d = 1..n /\ d \in [1..n -> Points]
  BY SpectrumAt
<1>2. right \in (i + 1)..n /\ (right = n <=> i = n - 1)
  BY <1>1, RightOfExists
<1>3. EraseSingularity(d, i) =
        IF i = 0 \/ right = n THEN Outside
        ELSE [k \in 1..n |->
                IF k - 1 \in left..(right - 1) THEN Point(d[k].omega, mean) ELSE d[k]]
  BY <1>1 DEF EraseSingularity
<1>4. ASSUME i \notin {0, n - 1}
      PROVE  /\ left \in 0..(i - 1) /\ right \in (i + 1)..(n - 1) /\ mean \in Fvalues
             /\ Spectrum(EraseSingularity(d, i), n)
             /\ \A k \in 1..n : EraseSingularity(d, i)[k] =
                     IF k - 1 \in left..(right - 1) THEN Point(d[k].omega, mean) ELSE d[k]
  <2>1. left \in 0..(i - 1) /\ right \in (i + 1)..(n - 1)
    <3>1. i \in Nat /\ i > 0 /\ i # n - 1
      BY <1>1, <1>4
    <3>2. left \in 0..(i - 1)
      BY <3>1, LeftOfExists
    <3> QED
      BY <1>1, <1>2, <3>1, <3>2
  <2>2. mean \in Fvalues
    <3>1. left \in 0..(n - 1) /\ right \in 0..(n - 1)
      BY <1>1, <2>1
    <3>2. At(d, left).im \in Fvalues /\ At(d, right).im \in Fvalues
      BY <3>1, SpectrumAt
    <3>3. Whole(2) \in Fvalues
      BY WholeFinite DEF Fvalues
    <3> QED
      BY <3>2, <3>3, Closed DEF Middle
  <2> DEFINE e(k) == IF k - 1 \in left..(right - 1) THEN Point(d[k].omega, mean) ELSE d[k]
  <2>3. EraseSingularity(d, i) = [k \in 1..n |-> e(k)]
    BY <1>2, <1>3, <1>4
  <2>4. \A k \in 1..n : e(k) \in Points
    <3> TAKE k \in 1..n
    <3>1. d[k] \in Points
      BY <1>1
    <3>2. d[k].omega \in Finites
      BY <3>1 DEF Points
    <3>3. Point(d[k].omega, mean) \in Points
      BY <2>2, <3>2 DEF Points, Point
    <3> QED
      BY <3>1, <3>3
  <2> DEFINE E == [k \in 1..n |-> e(k)]
  <2>5. \A k \in 1..n : E[k] = e(k)
    OBVIOUS
  <2>6. E \in [1..n -> Points] /\ Len(E) = n
    <3> HIDE DEF e
    <3> QED
      BY <1>1, <2>4
  <2>7. Spectrum(EraseSingularity(d, i), n)
    <3> HIDE DEF e
    <3> QED
      BY <1>1, <2>3, <2>6 DEF Spectrum
  <2>8. \A k \in 1..n : EraseSingularity(d, i)[k] = e(k)
    BY <2>3, <2>5
  <2> QED
    BY <2>1, <2>2, <2>7, <2>8
<1>5. i \in {0, n - 1} => EraseSingularity(d, i) = Outside
  BY <1>2, <1>3
<1> QED
  BY <1>4, <1>5

\* The steps of the walk over all points: Outside stays so, and a singular
\* point is erased in what the earlier steps left.
ErasedIn(after, d, n) ==
    /\ after[0] = d
    /\ \A p \in 0..n : after[p] = Outside \/ Spectrum(after[p], n)
    /\ \A p \in 1..n : after[p] =
         IF after[p - 1] = Outside \/ Finite(At(after[p - 1], p - 1).im) THEN after[p - 1]
         ELSE EraseSingularity(after[p - 1], p - 1)

\* eraseSingularites goes through the points one after the other.
LEMMA ErasedInSteps ==
    ASSUME NEW d, NEW n, Spectrum(d, n)
    PROVE  \E after : ErasedIn(after, d, n) /\ EraseSingularites(d) = after[n]
<1>1. n \in Nat /\ Size(d) = n
  BY SpectrumAt
<1> DEFINE V == {v \in [1..n -> Points] \cup {Outside} : v = Outside \/ Spectrum(v, n)}
           new(v, p) == IF v = Outside \/ Finite(At(v, p - 1).im) THEN v
                        ELSE EraseSingularity(v, p - 1)
           G == [q \in V \X (1..n) |-> new(q[1], q[2])]
           after == CHOOSE after : after = [p \in 0..n |->
                      IF p = 0 THEN d ELSE new(after[p - 1], p)]
<1>2. d \in V
  BY DEF Spectrum
<1>3. \A v \in V, p \in 1..n : new(v, p) \in V
  <2> SUFFICES ASSUME NEW v \in V, NEW p \in 1..n, Spectrum(v, n)
               PROVE  EraseSingularity(v, p - 1) \in V
    OBVIOUS
  <2>1. p - 1 \in 0..(n - 1)
    BY <1>1
  <2>2. EraseSingularity(v, p - 1) = Outside \/ Spectrum(EraseSingularity(v, p - 1), n)
    BY <2>1, SingularityErased
  <2>3. \A w : Spectrum(w, n) => w \in [1..n -> Points]
    BY DEF Spectrum
  <2> QED
    BY <2>2, <2>3
<1>4. \A v \in V, p \in 1..n : G[<<v, p>>] = new(v, p) /\ G[<<v, p>>] \in V
  <2> HIDE DEF V, new
  <2> QED
    BY <1>3
<1>5. after = [p \in 0..n |-> IF p = 0 THEN d ELSE new(after[p - 1], p)]
  <2> HIDE DEF V, new, G
  <2>1. PICK f : IsRecursion(f, V, d, n, G)
    BY <1>1, <1>2, <1>4, RecursionExists
  <2>2. /\ f \in [0..n -> V]
        /\ \A p \in 0..n : f[p] = IF p = 0 THEN d ELSE G[<<f[p - 1], p>>]
    BY <2>1 DEF IsRecursion
  <2>3. \A p \in 0..n : p # 0 => f[p - 1] \in V /\ p \in 1..n
    BY <1>1, <2>2
  <2>4. \A p \in 0..n : f[p] = IF p = 0 THEN d ELSE new(f[p - 1], p)
    BY <1>4, <2>2, <2>3
  <2>5. f = [p \in 0..n |-> IF p = 0 THEN d ELSE new(f[p - 1], p)]
    BY <2>2, <2>4
  <2> QED
    BY <2>5
<1>6. EraseSingularites(d) = after[n]
  BY <1>1 DEF EraseSingularites
<1> HIDE DEF after, V, new
<1>7. after[0] = d /\ \A p \in 1..n : after[p] = new(after[p - 1], p)
  <2>1. 0 \in 0..n /\ \A p \in 1..n : p \in 0..n /\ p # 0
    BY <1>1
  <2>2. \A p \in 0..n : after[p] = IF p = 0 THEN d ELSE new(after[p - 1], p)
    BY <1>5
  <2> QED
    BY <2>1, <2>2
<1>8. \A p \in 0..n : after[p] \in V
  <2> DEFINE S == {p \in 0..n : after[p] \in V}
  <2>1. 0 \in S
    BY <1>1, <1>2, <1>7
  <2>2. ASSUME NEW p \in 0..(n - 1), p \in S
        PROVE  p + 1 \in S
    <3>1. p + 1 \in 1..n /\ p + 1 - 1 = p /\ p + 1 \in 0..n
      BY <1>1
    <3>2. after[p] \in V
      BY <2>2
    <3>3. after[p + 1] = new(after[p], p + 1)
      BY <1>7, <3>1
    <3> QED
      BY <1>3, <3>1, <3>2, <3>3
  <2>3. \A p \in 0..n : p \in S
    <3> HIDE DEF S
    <3> QED
      BY <1>1, <2>1, <2>2, UpTo
  <2> QED
    BY <2>3
<1>9. ErasedIn(after, d, n)
  BY <1>7, <1>8 DEF ErasedIn, V, new
<1> QED
  BY <1>6, <1>9

\* The walk leaves the vector only at an end that is singular.
LEMMA ErasedOutside ==
    ASSUME NEW d, NEW n, Spectrum(d, n), EraseSingularites(d) = Outside
    PROVE  Singular(d) \cap {0, n - 1} # {}
<1> SUFFICES ASSUME Singular(d) \cap {0, n - 1} = {}
             PROVE  FALSE
  OBVIOUS
<1>1. /\ n \in Nat /\ Size(d) = n /\ DOMAIN d = 1..n
      /\ \A i \in 0..(n - 1) : i \notin Singular(d) => Finite(At(d, i).im)
  BY SpectrumAt DEF Singular
<1>2. PICK after : ErasedIn(after, d, n) /\ EraseSingularites(d) = after[n]
  BY ErasedInSteps
<1> DEFINE S == {p \in 0..n : /\ Spectrum(after[p], n)
                              /\ p = 0 => after[p] = d
                              /\ n > 0 => At(after[p], n - 1) = At(d, n - 1)}
<1>3. 0 \in S
  BY <1>1, <1>2 DEF ErasedIn
<1>4. ASSUME NEW p \in 0..(n - 1), p \in S
      PROVE  p + 1 \in S
  <2>1. PICK v : v = after[p]
    OBVIOUS
  <2>2. /\ Spectrum(v, n) /\ (p = 0 => v = d) /\ At(v, n - 1) = At(d, n - 1)
    BY <1>1, <1>4, <2>1
  <2>3. p + 1 \in 1..n /\ p + 1 - 1 = p /\ p + 1 \in 0..n /\ p + 1 # 0
        /\ 0 \in 0..(n - 1) /\ n - 1 \in 0..(n - 1) /\ n - 1 + 1 \in 1..n /\ n - 1 + 1 = n
    BY <1>1
  <2>4. v # Outside
    <3>1. DOMAIN v = 1..n
      BY <2>2, SpectrumAt
    <3> QED
      BY <1>1, <3>1, NotOutside
  <2>5. after[p + 1] = IF Finite(At(v, p).im) THEN v ELSE EraseSingularity(v, p)
    BY <1>2, <2>1, <2>3, <2>4 DEF ErasedIn
  <2>6. CASE Finite(At(v, p).im)
    BY <2>2, <2>3, <2>5, <2>6
  <2>7. CASE ~Finite(At(v, p).im)
    <3>1. p \notin {0, n - 1}
      BY <1>1, <2>2, <2>3, <2>7
    <3>2. PICK left, right, mean : /\ left = LeftOf(v, p) /\ right = RightOf(v, p)
                                   /\ mean = Middle(At(v, left).im, At(v, right).im)
      OBVIOUS
    <3>3. /\ left \in 0..(p - 1) /\ right \in (p + 1)..(n - 1)
          /\ Spectrum(EraseSingularity(v, p), n)
          /\ \A k \in 1..n : EraseSingularity(v, p)[k] =
               IF k - 1 \in left..(right - 1) THEN Point(v[k].omega, mean) ELSE v[k]
      BY <2>2, <3>1, <3>2, SingularityErased
    <3>4. n \in 1..n /\ n - 1 \notin left..(right - 1)
      BY <1>1, <2>3, <3>3
    <3>5. EraseSingularity(v, p)[n] = v[n]
      BY <3>3, <3>4
    <3>6. At(EraseSingularity(v, p), n - 1) = At(v, n - 1)
      BY <2>3, <3>5 DEF At
    <3> QED
      BY <2>2, <2>3, <2>5, <2>7, <3>3, <3>6
  <2> QED
    BY <2>6, <2>7
<1>5. \A p \in 0..n : p \in S
  <2> HIDE DEF S
  <2> QED
    BY <1>1, <1>3, <1>4, UpTo
<1>6. Spectrum(after[n], n)
  BY <1>1, <1>5
<1>7. DOMAIN after[n] = 1..n
  BY <1>6, SpectrumAt
<1> QED
  BY <1>1, <1>2, <1>7, NotOutside

\* A number between numbers of the spectrum.
Sound(d, x) == x \in Finites /\ Hull(d, x)

\* A finite value of a spectrum is sound.
LEMMA SoundSelf ==
    ASSUME NEW d, NEW n, Spectrum(d, n), NEW k \in 1..n, Finite(d[k].im)
    PROVE  Sound(d, d[k].im)
<1>1. DOMAIN d = 1..n /\ d \in [1..n -> Points]
  BY SpectrumAt
<1>2. PICK x : x = d[k].im
  OBVIOUS
<1>3. x \in Finites
  <2>1. d[k] \in Points
    BY <1>1
  <2>2. x \in Fvalues /\ Finite(x)
    BY <1>2, <2>1 DEF Points
  <2> QED
    BY <2>2, FvaluesParts
<1>4. x \in ToSet(Impedances(d))
  <2>1. DOMAIN Impedances(d) = 1..n /\ Impedances(d)[k] = x
    BY <1>1, <1>2 DEF Impedances
  <2> QED
    BY <2>1 DEF ToSet
<1>5. ~Less(x, x)
  BY <1>3, LeqTotal
<1> QED
  BY <1>2, <1>3, <1>4, <1>5 DEF Sound, Hull

\* The middle of two sound values is sound.
LEMMA SoundMiddle ==
    ASSUME NEW d, NEW x, NEW y, Sound(d, x), Sound(d, y),
           \A z \in ToSet(Impedances(d)) : z \in Fvalues
    PROVE  Sound(d, Middle(x, y))
<1>1. x \in Finites /\ y \in Finites
  BY DEF Sound
<1>2. PICK m : m = Middle(x, y)
  OBVIOUS
<1>3. /\ m \in Finites
      /\ Leq(x, y) => Leq(x, m) /\ Leq(m, y)
      /\ Leq(y, x) => Leq(y, m) /\ Leq(m, x)
  BY <1>1, <1>2, MiddleBetween
<1>4. PICK a, b, p, q \in {v \in ToSet(Impedances(d)) : Finite(v)} :
         Leq(a, x) /\ Leq(x, b) /\ Leq(p, y) /\ Leq(y, q)
  BY DEF Sound, Hull, Leq
<1>5. a \in Finites /\ b \in Finites /\ p \in Finites /\ q \in Finites
  BY <1>4, FvaluesParts
<1>6. CASE Leq(x, y)
  <2>1. Leq(a, m) /\ Leq(m, q)
    BY <1>1, <1>3, <1>4, <1>5, <1>6, LeqTransitive
  <2> QED
    BY <1>2, <1>3, <1>4, <2>1 DEF Sound, Hull, Leq
<1>7. CASE Leq(y, x)
  <2>1. Leq(p, m) /\ Leq(m, b)
    BY <1>1, <1>3, <1>4, <1>5, <1>7, LeqTransitive
  <2> QED
    BY <1>2, <1>3, <1>4, <2>1 DEF Sound, Hull, Leq
<1> QED
  BY <1>1, <1>6, <1>7, LeqTotal

\* The values of a spectrum.
LEMMA ValuesTyped ==
    ASSUME NEW d, NEW n, Spectrum(d, n)
    PROVE  \A z \in ToSet(Impedances(d)) : z \in Fvalues
<1>1. DOMAIN d = 1..n /\ d \in [1..n -> Points]
  BY SpectrumAt
<1>2. \A k \in 1..n : d[k].im \in Fvalues
  <2> TAKE k \in 1..n
  <2>1. d[k] \in Points
    BY <1>1
  <2> QED
    BY <2>1 DEF Points
<1>3. \A k \in 1..n : Impedances(d)[k] = d[k].im
  BY <1>1 DEF Impedances
<1>4. DOMAIN Impedances(d) = 1..n
  BY <1>1 DEF Impedances
<1> QED
  BY <1>2, <1>3, <1>4 DEF ToSet

\* One step, from numbers on both sides to a number between them.
LEMMA ErasedBetween ==
    ASSUME NEW d, NEW n, Spectrum(d, n), NEW v, Spectrum(v, n), NEW i \in 1..(n - 2),
           \A k \in 1..n : v[k].omega = d[k].omega,
           Sound(d, At(v, LeftOf(v, i)).im), Sound(d, At(v, RightOf(v, i)).im)
    PROVE  LET w == EraseSingularity(v, i)
           IN  /\ Spectrum(w, n)
               /\ \A k \in 1..n : w[k].omega = d[k].omega
               /\ \A k \in 1..n : w[k] = v[k] \/ Sound(d, w[k].im)
               /\ \A k \in (RightOf(v, i) + 1)..n : w[k] = v[k]
               /\ Sound(d, w[i + 1].im)
<1>0. n \in Nat /\ i \in 0..(n - 1) /\ i \notin {0, n - 1}
  <2>1. n \in Nat
    BY SpectrumAt
  <2> QED
    BY <2>1
<1>1. PICK left, right, mean : /\ left = LeftOf(v, i) /\ right = RightOf(v, i)
                               /\ mean = Middle(At(v, left).im, At(v, right).im)
  OBVIOUS
<1>2. PICK w : w = EraseSingularity(v, i)
  OBVIOUS
<1>3. /\ left \in 0..(i - 1) /\ right \in (i + 1)..(n - 1)
      /\ Spectrum(w, n)
      /\ \A k \in 1..n : w[k] =
           IF k - 1 \in left..(right - 1) THEN Point(v[k].omega, mean) ELSE v[k]
  <2>1. /\ left \in 0..(i - 1) /\ right \in (i + 1)..(n - 1)
        /\ Spectrum(EraseSingularity(v, i), n)
        /\ \A k \in 1..n : EraseSingularity(v, i)[k] =
             IF k - 1 \in left..(right - 1) THEN Point(v[k].omega, mean) ELSE v[k]
    <3>1. i \in 0..(n - 1)
      BY <1>0
    <3>2. /\ left = LeftOf(v, i) /\ right = RightOf(v, i)
          /\ mean = Middle(At(v, left).im, At(v, right).im)
      BY <1>1
    <3>3. i \notin {0, n - 1} =>
                /\ left \in 0..(i - 1) /\ right \in (i + 1)..(n - 1)
                /\ Spectrum(EraseSingularity(v, i), n)
                /\ \A k \in 1..n : EraseSingularity(v, i)[k] =
                     IF k - 1 \in left..(right - 1) THEN Point(v[k].omega, mean) ELSE v[k]
      BY <3>1, <3>2, SingularityErased
    <3> QED
      BY <1>0, <3>3
  <2> QED
    BY <1>2, <2>1
<1>4. Sound(d, mean)
  <2>1. \A z \in ToSet(Impedances(d)) : z \in Fvalues
    BY ValuesTyped
  <2>2. PICK x, y : x = At(v, left).im /\ y = At(v, right).im
    OBVIOUS
  <2>3. Sound(d, x) /\ Sound(d, y)
    BY <1>1, <2>2
  <2> QED
    BY <1>1, <2>1, <2>2, <2>3, SoundMiddle
<1>5. \A k \in 1..n : w[k] = v[k] \/ (w[k].omega = v[k].omega /\ w[k].im = mean)
  <2> TAKE k \in 1..n
  <2>1. w[k] = v[k] \/ w[k] = Point(v[k].omega, mean)
    BY <1>3
  <2> QED
    BY <2>1 DEF Point
<1>6. \A k \in 1..n : w[k].omega = d[k].omega
  BY <1>5
<1>7. \A k \in 1..n : w[k] = v[k] \/ Sound(d, w[k].im)
  BY <1>4, <1>5
<1>8. \A k \in (right + 1)..n : w[k] = v[k]
  <2> TAKE k \in (right + 1)..n
  <2>1. k \in 1..n /\ k - 1 \notin left..(right - 1)
    BY <1>0, <1>3
  <2> QED
    BY <1>3, <2>1
<1>9. Sound(d, w[i + 1].im)
  <2>1. i + 1 \in 1..n /\ i + 1 - 1 \in left..(right - 1)
    BY <1>0, <1>3
  <2>2. w[i + 1] = Point(v[i + 1].omega, mean)
    BY <1>3, <2>1
  <2> QED
    BY <1>4, <2>2 DEF Point
<1> QED
  BY <1>1, <1>2, <1>3, <1>6, <1>7, <1>8, <1>9

\* What is regular is sound, and what is sound is a number.
LEMMA SoundFinite ==
    ASSUME NEW d, NEW x, Sound(d, x)
    PROVE  Finite(x)
BY DEF Sound, Finites, Finite

\* A point that is not singular has a sound value.
LEMMA SoundUnless ==
    ASSUME NEW d, NEW n, Spectrum(d, n), NEW k \in 1..n
    PROVE  k - 1 \notin Singular(d) => Finite(d[k].im) /\ Sound(d, d[k].im)
<1>1. n \in Nat /\ k - 1 \in Indices(d) /\ k - 1 + 1 = k
  BY SpectrumAt
<1>2. k - 1 \notin Singular(d) => Finite(d[k].im)
  BY <1>1 DEF Singular, At
<1> QED
  BY <1>2, SoundSelf

\* Some p steps after the start: what they have reached is Outside, or a
\* spectrum at the same omegas.
SameOmegas(v, d, n) == Spectrum(v, n) /\ \A k \in 1..n : v[k].omega = d[k].omega

\* One step of eraseSingularites: a finite value stays, a singular one is replaced.
LEMMA ErasedStep ==
    ASSUME NEW d, NEW n, Spectrum(d, n), NEW after, ErasedIn(after, d, n),
           NEW p \in 0..(n - 1)
    PROVE  /\ after[p] = Outside => after[p + 1] = Outside
           /\ after[p] # Outside =>
                /\ Finite(after[p][p + 1].im) => after[p + 1] = after[p]
                /\ ~Finite(after[p][p + 1].im) =>
                     /\ after[p + 1] = EraseSingularity(after[p], p)
                     /\ p \in {0, n - 1} => after[p + 1] = Outside
<1>1. n \in Nat
  BY SpectrumAt
<1>2. p + 1 \in 1..n /\ p + 1 - 1 = p /\ p \in 0..n
  BY <1>1
<1>3. after[p + 1] = IF after[p + 1 - 1] = Outside \/ Finite(At(after[p + 1 - 1], p + 1 - 1).im)
                     THEN after[p + 1 - 1] ELSE EraseSingularity(after[p + 1 - 1], p + 1 - 1)
  BY <1>2 DEF ErasedIn
<1>4. after[p + 1] = IF after[p] = Outside \/ Finite(after[p][p + 1].im) THEN after[p]
                     ELSE EraseSingularity(after[p], p)
  BY <1>2, <1>3 DEF At
<1>5. PICK left, right, mean :
         /\ left = LeftOf(after[p], p) /\ right = RightOf(after[p], p)
         /\ mean = Middle(At(after[p], left).im, At(after[p], right).im)
  OBVIOUS
<1>6. after[p] # Outside /\ p \in {0, n - 1} => EraseSingularity(after[p], p) = Outside
  <2>1. after[p] # Outside => Spectrum(after[p], n)
    BY <1>2 DEF ErasedIn
  <2> QED
    BY <1>5, <2>1, SingularityErased
<1> QED
  BY <1>4, <1>6

\* Points that are not a number, each before one that is.
LEMMA IsolatedErased ==
    ASSUME NEW d, NEW n, Spectrum(d, n), EraseSingularites(d) # Outside,
           \A i \in Singular(d) : At(d, i).im = Nan /\ i + 1 \notin Singular(d)
    PROVE  /\ SameOmegas(EraseSingularites(d), d, n)
           /\ \A k \in 1..n : Sound(d, EraseSingularites(d)[k].im)
<1>1. n \in Nat
  BY SpectrumAt
<1>2. PICK after : ErasedIn(after, d, n) /\ EraseSingularites(d) = after[n]
  BY ErasedInSteps
<1> DEFINE Well(v, p) == /\ SameOmegas(v, d, n)
                         /\ \A k \in 1..p : Sound(d, v[k].im)
                         /\ \A k \in (p + 1)..n : v[k] = d[k]
           S == {p \in 0..n : after[p] = Outside \/ Well(after[p], p)}
<1>3. 0 \in S
  <2>1. after[0] = d
    BY <1>2 DEF ErasedIn
  <2>2. SameOmegas(d, d, n)
    BY DEF SameOmegas
  <2> QED
    BY <1>1, <2>1, <2>2
<1>4. ASSUME NEW p \in 0..(n - 1), p \in S
      PROVE  p + 1 \in S
  <2>1. PICK v, w : v = after[p] /\ w = after[p + 1]
    OBVIOUS
  <2>2. /\ p + 1 \in 1..n /\ p + 1 \in 0..n /\ p + 1 - 1 = p /\ p \in 0..n
        /\ \A k \in (p + 1 + 1)..n : k \in (p + 1)..n /\ k \in (p + 1 + 1)..n
        /\ \A k \in 1..(p + 1) : k = p + 1 \/ k \in 1..p
    BY <1>1
  <2>3. CASE v = Outside
    <3>1. w = Outside
      <4>1. after[p] = Outside => after[p + 1] = Outside
        BY <1>2, ErasedStep
      <4> QED
        BY <2>1, <2>3, <4>1
    <3> QED
      BY <2>1, <2>2, <3>1
  <2>4. CASE v # Outside
    <3>1. /\ Finite(v[p + 1].im) => w = v
          /\ ~Finite(v[p + 1].im) => w = EraseSingularity(v, p)
          /\ ~Finite(v[p + 1].im) /\ p \in {0, n - 1} => w = Outside
      BY <1>2, <2>1, <2>4, ErasedStep
    <3>2. Well(v, p)
      BY <1>4, <2>1, <2>4
    <3>3. p + 1 \in (p + 1)..n
      BY <2>2
    <3>4. v[p + 1] = d[p + 1]
      BY <3>2, <3>3
    <3>5. CASE Finite(v[p + 1].im)
      <4>1. Sound(d, d[p + 1].im)
        BY <2>2, <3>4, <3>5, SoundSelf
      <4>2. Well(v, p + 1)
        BY <2>2, <3>2, <3>4, <4>1
      <4> QED
        BY <2>1, <2>2, <3>1, <3>5, <4>2
    <3>6. CASE ~Finite(v[p + 1].im) /\ p \notin {0, n - 1}
      <4>1. p \in 1..(n - 2) /\ p + 2 \in 1..n /\ p + 2 - 1 = p + 1 /\ p \in Nat /\ p > 0
            /\ p \in 0..(n - 2) /\ p \in 0..(n - 1) /\ p + 2 \in (p + 1)..n /\ p + 1 + 1 = p + 2
        BY <1>1, <3>6
      <4>2. p \in Singular(d)
        BY <2>2, <3>4, <3>6, SoundUnless
      <4>3. At(d, p).im = Nan /\ p + 1 \notin Singular(d)
        BY <4>2
      <4>4. Spectrum(v, n) /\ \A k \in 1..n : v[k].omega = d[k].omega
        BY <3>2 DEF SameOmegas
      <4>5. At(v, p).im = Nan
        BY <3>4, <4>3 DEF At
      <4>6. RightOf(v, p) = p + 1
        BY <4>1, <4>4, <4>5, RightOfNan
      <4>7. Sound(d, At(v, RightOf(v, p)).im)
        <5>1. Sound(d, d[p + 2].im)
          BY <4>1, <4>3, SoundUnless
        <5>2. v[p + 2] = d[p + 2]
          BY <3>2, <4>1
        <5> QED
          BY <4>1, <4>6, <5>1, <5>2 DEF At
      <4>8. Sound(d, At(v, LeftOf(v, p)).im)
        <5>1. LeftOf(v, p) \in 0..(p - 1)
          BY <4>1, LeftOfExists
        <5>2. LeftOf(v, p) + 1 \in 1..p
          BY <4>1, <5>1
        <5> QED
          BY <3>2, <5>2 DEF At
      <4>9. /\ Spectrum(w, n)
            /\ \A k \in 1..n : w[k].omega = d[k].omega
            /\ \A k \in 1..n : w[k] = v[k] \/ Sound(d, w[k].im)
            /\ \A k \in (p + 1 + 1)..n : w[k] = v[k]
            /\ Sound(d, w[p + 1].im)
        BY <3>1, <3>6, <4>1, <4>4, <4>6, <4>7, <4>8, ErasedBetween
      <4>10. SameOmegas(w, d, n)
        BY <4>9 DEF SameOmegas
      <4>11. \A k \in 1..(p + 1) : Sound(d, w[k].im)
        <5> TAKE k \in 1..(p + 1)
        <5>1. k \in 1..n
          BY <1>1, <2>2
        <5> QED
          BY <2>2, <3>2, <4>9, <5>1
      <4>12. \A k \in (p + 1 + 1)..n : w[k] = d[k]
        BY <2>2, <3>2, <4>9
      <4>13. Well(w, p + 1)
        BY <4>10, <4>11, <4>12
      <4> QED
        BY <2>1, <2>2, <4>13
    <3> QED
      BY <2>1, <2>2, <3>1, <3>5, <3>6
  <2> QED
    BY <2>3, <2>4
<1>5. \A p \in 0..n : p \in S
  <2> HIDE DEF S
  <2> QED
    BY <1>1, <1>3, <1>4, UpTo
<1>6. Well(after[n], n)
  BY <1>1, <1>2, <1>5
<1> QED
  BY <1>2, <1>6

\* One point alone, whatever it is.
LEMMA SingleErased ==
    ASSUME NEW d, NEW n, Spectrum(d, n), EraseSingularites(d) # Outside,
           NEW s, Singular(d) = {s}
    PROVE  /\ SameOmegas(EraseSingularites(d), d, n)
           /\ \A k \in 1..n : Sound(d, EraseSingularites(d)[k].im)
<1>1. n \in Nat /\ s \in 0..(n - 1)
  BY SpectrumAt DEF Singular
<1>2. PICK after : ErasedIn(after, d, n) /\ EraseSingularites(d) = after[n]
  BY ErasedInSteps
<1> DEFINE Well(v, p) == /\ SameOmegas(v, d, n)
                         /\ p <= s => v = d
                         /\ p > s => \A k \in 1..n : Sound(d, v[k].im)
           S == {p \in 0..n : after[p] = Outside \/ Well(after[p], p)}
<1>3. 0 \in S
  <2>1. after[0] = d
    BY <1>2 DEF ErasedIn
  <2>2. SameOmegas(d, d, n)
    BY DEF SameOmegas
  <2> QED
    BY <1>1, <2>1, <2>2
<1>4. ASSUME NEW p \in 0..(n - 1), p \in S
      PROVE  p + 1 \in S
  <2>1. PICK v, w : v = after[p] /\ w = after[p + 1]
    OBVIOUS
  <2>2. p + 1 \in 1..n /\ p + 1 \in 0..n /\ p + 1 - 1 = p /\ p \in 0..n /\ p \in Int /\ s \in Int
    BY <1>1
  <2>3. CASE v = Outside
    <3>1. w = Outside
      <4>1. after[p] = Outside => after[p + 1] = Outside
        BY <1>2, ErasedStep
      <4> QED
        BY <2>1, <2>3, <4>1
    <3> QED
      BY <2>1, <2>2, <3>1
  <2>4. CASE v # Outside
    <3>1. /\ Finite(v[p + 1].im) => w = v
          /\ ~Finite(v[p + 1].im) => w = EraseSingularity(v, p)
          /\ ~Finite(v[p + 1].im) /\ p \in {0, n - 1} => w = Outside
      BY <1>2, <2>1, <2>4, ErasedStep
    <3>2. Well(v, p)
      BY <1>4, <2>1, <2>4
    <3>3. CASE p < s
      <4>1. v = d /\ p \notin Singular(d) /\ p + 1 <= s /\ ~(p + 1 > s)
        BY <2>2, <3>2, <3>3
      <4>2. Finite(v[p + 1].im)
        BY <2>2, <4>1, SoundUnless
      <4>3. Well(w, p + 1)
        BY <3>1, <3>2, <4>1, <4>2
      <4> QED
        BY <2>1, <2>2, <4>3
    <3>4. CASE p > s
      <4>1. \A k \in 1..n : Sound(d, v[k].im)
        BY <3>2, <3>4
      <4>2. Finite(v[p + 1].im)
        BY <2>2, <4>1, SoundFinite
      <4>3. p + 1 > s /\ ~(p + 1 <= s)
        BY <2>2, <3>4
      <4>4. Well(w, p + 1)
        BY <3>1, <3>2, <4>1, <4>2, <4>3
      <4> QED
        BY <2>1, <2>2, <4>4
    <3>5. CASE p = s /\ p \in {0, n - 1}
      <4>1. v = d /\ p \in Singular(d)
        BY <2>2, <3>2, <3>5
      <4>2. ~Finite(v[p + 1].im)
        BY <4>1 DEF Singular, At
      <4> QED
        BY <2>1, <2>2, <3>1, <3>5, <4>2
    <3>6. CASE p = s /\ p \notin {0, n - 1}
      <4>1. v = d /\ p \in Singular(d)
        BY <2>2, <3>2, <3>6
      <4>2. ~Finite(v[p + 1].im)
        BY <4>1 DEF Singular, At
      <4>3. p \in 1..(n - 2) /\ p \in Nat /\ p > 0 /\ Size(v) = n
        BY <1>1, <3>6, <4>1, SpectrumAt
      <4>4. \A k \in 1..n : k # p + 1 => Sound(d, d[k].im)
        <5> TAKE k \in 1..n
        <5>1. k # p + 1 => k - 1 # p
          BY <2>2
        <5> QED
          BY <3>6, <5>1, SoundUnless
      <4>5. Sound(d, At(v, LeftOf(v, p)).im)
        <5>1. LeftOf(v, p) \in 0..(p - 1)
          BY <4>3, LeftOfExists
        <5>2. LeftOf(v, p) + 1 \in 1..n /\ LeftOf(v, p) + 1 # p + 1
          BY <1>1, <4>3, <5>1
        <5> QED
          BY <4>1, <4>4, <5>2 DEF At
      <4>6. Sound(d, At(v, RightOf(v, p)).im)
        <5>1. RightOf(v, p) \in (p + 1)..n /\ RightOf(v, p) # n
          BY <1>1, <3>6, <4>3, RightOfExists
        <5>2. RightOf(v, p) + 1 \in 1..n /\ RightOf(v, p) + 1 # p + 1
          BY <1>1, <4>3, <5>1
        <5> QED
          BY <4>1, <4>4, <5>2 DEF At
      <4>7. /\ Spectrum(w, n)
            /\ \A k \in 1..n : w[k].omega = d[k].omega
            /\ \A k \in 1..n : w[k] = v[k] \/ Sound(d, w[k].im)
            /\ Sound(d, w[p + 1].im)
        BY <3>1, <4>1, <4>2, <4>3, <4>5, <4>6, ErasedBetween
      <4>8. SameOmegas(w, d, n)
        BY <4>7 DEF SameOmegas
      <4>9. \A k \in 1..n : Sound(d, w[k].im)
        BY <4>1, <4>4, <4>7
      <4>10. ~(p + 1 <= s)
        BY <2>2, <3>6
      <4>11. Well(w, p + 1)
        BY <4>8, <4>9, <4>10
      <4> QED
        BY <2>1, <2>2, <4>11
    <3> QED
      BY <2>2, <3>3, <3>4, <3>5, <3>6
  <2> QED
    BY <2>3, <2>4
<1>5. \A p \in 0..n : p \in S
  <2> HIDE DEF S
  <2> QED
    BY <1>1, <1>3, <1>4, UpTo
<1>6. Well(after[n], n)
  BY <1>1, <1>2, <1>5
<1>7. n > s
  BY <1>1
<1> QED
  BY <1>2, <1>6, <1>7

(***************************************************************************)
(* removeDuplicates                                                        *)
(***************************************************************************)
\* What is the same is equal to fvalueEq, however coarse.
LEMMA SameIsEqual ==
    ASSUME NEW x \in Finites, NEW y \in Finites, Same(x, y)
    PROVE  FvalueEq(x, y)
<1>1. PICK s, f : s = Plus(x, y) /\ f = Difference(x, y)
  OBVIOUS
<1>2. s \in Finites /\ f \in Finites
  BY <1>1, PlusFinite, DifferenceFinite
<1>3. f[1] = 0
  <2>1. PICK a, b, c, d \in Int : Is(x, a, d) /\ Is(y, b, d) /\ Is(x, c, d)
    BY CommonDenominator
  <2>2. a = b
    BY <2>1, LeqIs
  <2>3. Is(f, a - b, d)
    BY <1>1, <2>1, DifferenceIs
  <2>4. a - b = 0
    BY <2>1, <2>2
  <2> QED
    BY <2>3, <2>4, IsSame
<1>4. PICK c : c = Whole(Coarseness)
  OBVIOUS
<1>5. c \in Finites
  BY <1>4, InputsAssumption, WholeFinite
<1>6. PICK m, g, t : m = Magnitude(s) /\ g = Magnitude(f) /\ t = Times(g, c)
  OBVIOUS
<1>7. m \in Finites /\ m[1] >= 0 /\ g \in Finites
  BY <1>2, <1>6, MagnitudeFinite
<1>8. g[1] = 0
  BY <1>3, <1>6 DEF Magnitude, Abs
<1>9. t \in Finites /\ t[1] * (g[2] * c[2]) = (g[1] * c[1]) * t[2]
  BY <1>5, <1>6, <1>7, TimesFinite
<1>10. t[1] = 0
  <2>1. PICK a, b, u, v \in Int : a = t[1] /\ b = t[2] /\ u = g[2] * c[2] /\ v = c[1]
    <3>1. t[1] \in Int /\ t[2] \in Int /\ g[2] \in Int /\ c[2] \in Int /\ c[1] \in Int
      BY <1>5, <1>7, <1>9 DEF Finites
    <3> QED
      BY <3>1
  <2>2. u > 0
    <3>1. g[2] \in Nat /\ g[2] > 0 /\ c[2] \in Nat /\ c[2] > 0
      BY <1>5, <1>7 DEF Finites
    <3> QED
      BY <2>1, <3>1, Products
  <2>3. 0 * v = 0 /\ 0 * b = 0
    OBVIOUS
  <2>4. a * u = 0
    BY <1>8, <1>9, <2>1, <2>3
  <2>5. a = 0
    BY <2>2, <2>4, Products
  <2> QED
    BY <2>1, <2>5
<1>11. Leq(t, m)
  <2>1. PICK a, b, p, q \in Int : a = m[1] /\ b = m[2] /\ q = t[2] /\ p = a * q
    <3>1. m[1] \in Int /\ m[2] \in Int /\ t[2] \in Int /\ m[1] * t[2] \in Int
      BY <1>7, <1>9 DEF Finites
    <3> QED
      BY <3>1
  <2>2. p >= 0
    <3>1. a >= 0 /\ q \in Nat
      BY <1>7, <1>9, <2>1 DEF Finites
    <3> QED
      BY <2>1, <3>1
  <2>3. 0 * b = 0
    OBVIOUS
  <2>4. t[1] * m[2] <= m[1] * t[2]
    BY <1>10, <2>1, <2>2, <2>3
  <2> QED
    BY <1>7, <1>9, <2>4, LeqFinite
<1> QED
  BY <1>1, <1>4, <1>6, <1>11 DEF FvalueEq, Leq

\* In a sorted spectrum no omega is before the one on its left.
Ordered(d) ==
    /\ d \in Seq(Points)
    /\ \A k \in 1..(Len(d) - 1) : ~Less(d[k + 1].omega, d[k].omega)

\* An order of the first k places, with none left that is before the last.
InOrder(order, keys, k) ==
    /\ order \in Seq(1..Len(keys)) /\ Len(order) = k
    /\ \A j \in 1..(k - 1) : ~Less(keys[order[j + 1]], keys[order[j]])
    /\ k > 0 => \A l \in (1..Len(keys)) \ ToSet(order) : ~Less(keys[l], keys[order[k]])
    /\ Cardinality((1..Len(keys)) \ ToSet(order)) = Len(keys) - k

\* The least of the rest continues the order.
LEMMA InOrderNext ==
    ASSUME NEW V, NEW keys \in Seq(V), NEW order, NEW k \in 0..(Len(keys) - 1), InOrder(order, keys, k),
           NEW l \in (1..Len(keys)) \ ToSet(order),
           \A m \in (1..Len(keys)) \ ToSet(order) : ~Less(keys[m], keys[l])
    PROVE  InOrder(Append(order, l), keys, k + 1)
<1>1. Len(keys) \in Nat /\ order \in Seq(1..Len(keys)) /\ Len(order) = k /\ k \in Nat
  BY DEF InOrder
<1>2. PICK next : next = Append(order, l)
  OBVIOUS
<1>3. /\ next \in Seq(1..Len(keys)) /\ Len(next) = k + 1 /\ next[k + 1] = l
      /\ \A j \in 1..k : next[j] = order[j]
  BY <1>1, <1>2
<1>4. DOMAIN next = 1..(k + 1) /\ DOMAIN order = 1..k
  BY <1>1, <1>3
<1>5. ToSet(next) = ToSet(order) \cup {l}
  <2>1. ToSet(order) = {order[j] : j \in 1..k} /\ ToSet(next) = {next[j] : j \in 1..(k + 1)}
    BY <1>4 DEF ToSet
  <2>2. \A j \in 1..(k + 1) : j = k + 1 \/ j \in 1..k
    BY <1>1
  <2>3. k + 1 \in 1..(k + 1) /\ \A j \in 1..k : j \in 1..(k + 1)
    BY <1>1
  <2>4. \A j \in 1..(k + 1) : next[j] \in {order[i] : i \in 1..k} \cup {l}
    BY <1>3, <2>2
  <2>5. l \in {next[j] : j \in 1..(k + 1)}
    BY <1>3, <2>3
  <2>6. \A j \in 1..k : order[j] \in {next[i] : i \in 1..(k + 1)}
    BY <1>3, <2>3
  <2> QED
    BY <2>1, <2>4, <2>5, <2>6
<1> DEFINE R == (1..Len(keys)) \ ToSet(order)
<1>6. (1..Len(keys)) \ ToSet(next) = R \ {l}
  BY <1>5
<1>7. Cardinality(R \ {l}) = Len(keys) - (k + 1)
  <2>1. IsFiniteSet(R) /\ l \in R
    <3>1. IsFiniteSet(1..Len(keys)) /\ R \in SUBSET (1..Len(keys))
      BY <1>1, FS_Interval
    <3>2. l \in R
      OBVIOUS
    <3> HIDE DEF R
    <3> QED
      BY <3>1, <3>2, FS_Subset
  <2>2. Cardinality(R) = Len(keys) - k
    BY DEF InOrder
  <2> HIDE DEF R
  <2>3. Cardinality(R \ {l}) = Cardinality(R) - 1
    BY <2>1, FS_RemoveElement
  <2> QED
    BY <1>1, <2>2, <2>3
<1>8. ASSUME NEW j \in 1..k
      PROVE  ~Less(keys[next[j + 1]], keys[next[j]])
  <2>1. CASE j = k
    <3>1. k > 0 /\ next[j + 1] = l /\ next[j] = order[k]
      BY <1>3, <2>1
    <3>2. ~Less(keys[l], keys[order[k]])
      BY <3>1 DEF InOrder
    <3> QED
      BY <3>1, <3>2
  <2>2. CASE j # k
    <3>1. j \in 1..(k - 1) /\ j + 1 \in 1..k
      BY <1>1, <2>2
    <3>2. ~Less(keys[order[j + 1]], keys[order[j]])
      BY <3>1 DEF InOrder
    <3> QED
      BY <1>3, <3>1, <3>2
  <2> QED
    BY <2>1, <2>2
<1>9. k + 1 - 1 = k /\ k + 1 > 0
  BY <1>1
<1>10. \A m \in (1..Len(keys)) \ ToSet(next) : ~Less(keys[m], keys[next[k + 1]])
  <2> TAKE m \in (1..Len(keys)) \ ToSet(next)
  <2>1. m \in (1..Len(keys)) \ ToSet(order)
    BY <1>5
  <2>2. ~Less(keys[m], keys[l])
    BY <2>1
  <2> QED
    BY <1>3, <2>2
<1>11. \A j \in 1..(k + 1 - 1) : ~Less(keys[next[j + 1]], keys[next[j]])
  BY <1>8, <1>9
<1>12. Cardinality((1..Len(keys)) \ ToSet(next)) = Len(keys) - (k + 1)
  BY <1>6, <1>7
<1> HIDE DEF R
<1>13. InOrder(next, keys, k + 1)
  BY <1>3, <1>10, <1>11, <1>12 DEF InOrder
<1> QED
  BY <1>2, <1>13

\* std::sort leaves each once, in order.
LEMMA OrdersSort ==
    ASSUME NEW W, NEW keys \in Seq(W), NEW sorted \in Orders(keys)
    PROVE  LET n == Len(keys)
           IN  /\ sorted \in Seq(1..n) /\ Len(sorted) = n
               /\ \A k \in 1..n : sorted[k] \in 1..n
               /\ \A l \in 1..n : \E k \in 1..n : sorted[k] = l
               /\ \A k, l \in 1..n : sorted[k] = sorted[l] => k = l
               /\ \A k \in 1..(n - 1) : ~Less(keys[sorted[k + 1]], keys[sorted[k]])
<1>0. PICK n : n = Len(keys)
  OBVIOUS
<1>1. n \in Nat /\ DOMAIN keys = 1..n /\ keys \in [1..n -> W]
  BY <1>0
<1> DEFINE rest(order) == DOMAIN keys \ ToSet(order)
           next(order) == {k \in rest(order) : \A l \in rest(order) : ~Less(keys[l], keys[k])}
           more(v) == UNION {{Append(order, k) : k \in next(order)} : order \in v}
           V == SUBSET Seq(1..n)
           G == [q \in V \X (1..n) |-> more(q[1])]
           orders == CHOOSE orders : orders = [p \in 0..Len(keys) |->
                       IF p = 0 THEN {<<>>} ELSE more(orders[p - 1])]
<1>2. {<<>>} \in V
  OBVIOUS
<1>3. \A v, x : x \in more(v) <=> \E order \in v : \E k \in next(order) : x = Append(order, k)
  <2> TAKE v, x
  <2> HIDE DEF next
  <2>1. x \in more(v) <=> \E order \in v : x \in {Append(order, k) : k \in next(order)}
    BY Zenon
  <2>2. \A order : x \in {Append(order, k) : k \in next(order)}
                     <=> \E k \in next(order) : x = Append(order, k)
    BY Zenon
  <2> QED
    BY <2>1, <2>2, Zenon
<1>4. \A order, k : k \in next(order) <=>
          /\ k \in (1..n) \ ToSet(order)
          /\ \A l \in (1..n) \ ToSet(order) : ~Less(keys[l], keys[k])
  BY <1>1
<1>5. \A v \in V : more(v) \in V
  <2> SUFFICES ASSUME NEW v \in V, NEW x \in more(v)
               PROVE  x \in Seq(1..n)
    OBVIOUS
  <2> HIDE DEF more, next
  <2>1. PICK order \in v : \E k \in next(order) : x = Append(order, k)
    BY <1>3
  <2>3. PICK k \in next(order) : x = Append(order, k)
    BY <2>1
  <2>2. order \in Seq(1..n) /\ k \in 1..n
    BY <1>4
  <2> QED
    BY <2>2, <2>3
<1>6. \A v \in V, p \in 1..n : G[<<v, p>>] = more(v) /\ G[<<v, p>>] \in V
  <2> HIDE DEF V, more
  <2> QED
    BY <1>5
<1>7. orders = [p \in 0..n |-> IF p = 0 THEN {<<>>} ELSE more(orders[p - 1])]
  <2> HIDE DEF V, more, G
  <2>1. PICK f : IsRecursion(f, V, {<<>>}, n, G)
    BY <1>1, <1>2, <1>6, RecursionExists
  <2>2. /\ f \in [0..n -> V]
        /\ \A p \in 0..n : f[p] = IF p = 0 THEN {<<>>} ELSE G[<<f[p - 1], p>>]
    BY <2>1 DEF IsRecursion
  <2>3. \A p \in 0..n : p # 0 => f[p - 1] \in V /\ p \in 1..n
    BY <1>1, <2>2
  <2>4. \A p \in 0..n : f[p] = IF p = 0 THEN {<<>>} ELSE more(f[p - 1])
    BY <1>6, <2>2, <2>3
  <2>5. f = [p \in 0..Len(keys) |-> IF p = 0 THEN {<<>>} ELSE more(f[p - 1])]
    BY <1>0, <2>2, <2>4
  <2>6. orders = [p \in 0..Len(keys) |-> IF p = 0 THEN {<<>>} ELSE more(orders[p - 1])]
    BY <2>5
  <2> HIDE DEF orders
  <2> QED
    BY <1>0, <2>6
<1>8. sorted \in orders[n]
  <2>1. Orders(keys) = orders[Len(keys)]
    BY DEF Orders
  <2> HIDE DEF orders
  <2> QED
    BY <1>0, <2>1
<1>9. orders[0] = {<<>>} /\ \A p \in 1..n : orders[p] = more(orders[p - 1])
  <2>1. 0 \in 0..n /\ \A p \in 1..n : p \in 0..n /\ p # 0
    BY <1>1
  <2> HIDE DEF orders, more
  <2>2. \A p \in 0..n : orders[p] = IF p = 0 THEN {<<>>} ELSE more(orders[p - 1])
    BY <1>7
  <2> QED
    BY <2>1, <2>2
<1> HIDE DEF orders, more, next, V, G
<1> DEFINE S == {p \in 0..n : \A o \in orders[p] : InOrder(o, keys, p)}
<1>10. 0 \in S
  <2>1. orders[0] = {<<>>} /\ 0 \in 0..n
    BY <1>1, <1>9
  <2>2. InOrder(<<>>, keys, 0)
    <3>1. <<>> \in Seq(1..n) /\ Len(<<>>) = 0 /\ ToSet(<<>>) = {}
      BY DEF ToSet
    <3>2. (1..n) \ ToSet(<<>>) = 1..n /\ Cardinality(1..n) = n /\ n - 0 = n
      <4>1. (1..n) \ ToSet(<<>>) = 1..n
        BY <3>1
      <4>2. Cardinality(1..n) = n
        <5>1. 1 \in Int /\ n \in Int
          BY <1>1
        <5>2. Cardinality(1..n) = IF 1 > n THEN 0 ELSE n - 1 + 1
          BY <5>1, FS_Interval
        <5> QED
          BY <1>1, <5>2
      <4> QED
        BY <1>1, <4>1, <4>2
    <3>3. \A j \in 1..(0 - 1) : FALSE
      OBVIOUS
    <3>4. Cardinality((1..Len(keys)) \ ToSet(<<>>)) = Len(keys) - 0
      BY <1>0, <3>2
    <3>5. <<>> \in Seq(1..Len(keys))
      BY <1>0, <3>1
    <3> QED
      BY <3>1, <3>3, <3>4, <3>5 DEF InOrder
  <2> QED
    BY <2>1, <2>2
<1>11. ASSUME NEW p \in 0..(n - 1), p \in S
      PROVE  p + 1 \in S
  <2>1. p + 1 \in 0..n /\ p + 1 \in 1..n /\ p + 1 - 1 = p /\ p \in 0..(Len(keys) - 1)
    BY <1>0, <1>1
  <2>2. orders[p + 1] = more(orders[p])
    BY <1>9, <2>1
  <2> SUFFICES ASSUME NEW x \in more(orders[p])
               PROVE  InOrder(x, keys, p + 1)
    BY <2>1, <2>2
  <2>3. PICK o \in orders[p] : \E l \in next(o) : x = Append(o, l)
    BY <1>3
  <2>7. PICK l \in next(o) : x = Append(o, l)
    BY <2>3
  <2>4. InOrder(o, keys, p)
    BY <1>11
  <2>5. l \in (1..Len(keys)) \ ToSet(o)
        /\ \A m \in (1..Len(keys)) \ ToSet(o) : ~Less(keys[m], keys[l])
    BY <1>0, <1>4
  <2>6. InOrder(Append(o, l), keys, p + 1)
    BY <2>1, <2>4, <2>5, InOrderNext
  <2> QED
    BY <2>6, <2>7
<1>12. \A p \in 0..n : p \in S
  <2> HIDE DEF S
  <2> QED
    BY <1>1, <1>10, <1>11, UpTo
<1>13. InOrder(sorted, keys, n)
  BY <1>1, <1>8, <1>12
<1>14. sorted \in Seq(1..n) /\ Len(sorted) = n
  BY <1>0, <1>13 DEF InOrder
<1>15. \A k \in 1..n : sorted[k] \in 1..n
  BY <1>1, <1>14
<1>16. \A l \in 1..n : \E k \in 1..n : sorted[k] = l
  <2>1. Cardinality((1..n) \ ToSet(sorted)) = 0
    BY <1>0, <1>1, <1>13 DEF InOrder
  <2>2. IsFiniteSet((1..n) \ ToSet(sorted))
    BY <1>1, FS_Interval, FS_Subset
  <2>3. (1..n) \ ToSet(sorted) = {}
    BY <2>1, <2>2, FS_EmptySet
  <2>4. DOMAIN sorted = 1..n
    BY <1>1, <1>14
  <2> QED
    BY <2>3, <2>4 DEF ToSet
<1>17. \A k, l \in 1..n : sorted[k] = sorted[l] => k = l
  <2>1. sorted \in Surjection(1..n, 1..n)
    <3>1. sorted \in [1..n -> 1..n]
      BY <1>1, <1>14
    <3> QED
      BY <1>16, <3>1 DEF Surjection
  <2>2. IsFiniteSet(1..n)
    BY <1>1, FS_Interval
  <2>3. sorted \in Injection(1..n, 1..n)
    BY <2>1, <2>2, FS_SurjSameCardinalityImpliesInj
  <2> QED
    BY <2>3 DEF Injection, IsInjective
<1> QED
  BY <1>0, <1>13, <1>14, <1>15, <1>16, <1>17 DEF InOrder

\* A sorted spectrum has the points of the one before, in sorted.
LEMMA SortedOrders ==
    ASSUME NEW d \in Seq(Points), NEW s \in Sorted(d)
    PROVE  Ordered(s) /\ Len(s) = Len(d) /\ ToSet(s) = ToSet(d)
<1>0. PICK n : n = Len(d)
  OBVIOUS
<1>1. n \in Nat /\ DOMAIN d = 1..n /\ d \in [1..n -> Points]
  BY <1>0
<1>2. PICK keys : keys = [k \in 1..n |-> d[k].omega]
  OBVIOUS
<1>3. keys \in Seq(Finites) /\ Len(keys) = n
  BY <1>1, <1>2 DEF Points
<1>4. PICK order \in Orders(keys) : s = [k \in 1..n |-> d[order[k]]]
  BY <1>1, <1>2 DEF Sorted
<1>5. /\ \A k \in 1..Len(keys) : order[k] \in 1..Len(keys)
      /\ \A l \in 1..Len(keys) : \E k \in 1..Len(keys) : order[k] = l
      /\ \A k \in 1..(Len(keys) - 1) : ~Less(keys[order[k + 1]], keys[order[k]])
  <2>1. keys \in Seq(Finites)
    BY <1>3
  <2> QED
    BY <2>1, OrdersSort
<1>6. /\ \A k \in 1..n : order[k] \in 1..n
      /\ \A l \in 1..n : \E k \in 1..n : order[k] = l
      /\ \A k \in 1..(n - 1) : ~Less(keys[order[k + 1]], keys[order[k]])
  BY <1>3, <1>5
<1>7. DOMAIN s = 1..n /\ \A k \in 1..n : s[k] = d[order[k]] /\ s[k] \in Points
  BY <1>1, <1>4, <1>6
<1>8. s \in Seq(Points) /\ Len(s) = n
  <2>1. s \in [1..n -> Points]
    BY <1>1, <1>4, <1>6
  <2> QED
    BY <1>1, <2>1
<1>9. ToSet(s) = ToSet(d)
  <2>1. ToSet(s) = {s[k] : k \in 1..n} /\ ToSet(d) = {d[k] : k \in 1..n}
    BY <1>1, <1>7 DEF ToSet
  <2>2. \A k \in 1..n : s[k] \in {d[l] : l \in 1..n}
    BY <1>6, <1>7
  <2>3. \A l \in 1..n : d[l] \in {s[k] : k \in 1..n}
    <3> TAKE l \in 1..n
    <3>1. PICK k \in 1..n : order[k] = l
      BY <1>6
    <3> QED
      BY <1>7, <3>1
  <2> QED
    BY <2>1, <2>2, <2>3
<1>10. ASSUME NEW k \in 1..(n - 1)
       PROVE  ~Less(s[k + 1].omega, s[k].omega)
  <2>1. k \in 1..n /\ k + 1 \in 1..n
    BY <1>1
  <2>2. ~Less(d[order[k + 1]].omega, d[order[k]].omega)
    BY <1>2, <1>6, <2>1
  <2> QED
    BY <1>7, <2>1, <2>2
<1> QED
  BY <1>0, <1>8, <1>9, <1>10 DEF Ordered

\* Neighbours with equal omegas, and what it takes not to lose any.
Twins(d) == {k \in 1..(Len(d) - 1) : FvalueEq(d[k].omega, d[k + 1].omega)}
NoChains(d) ==
    \A p, q, r \in ToSet(d) :
      FvalueEq(p.omega, q.omega) /\ FvalueEq(q.omega, r.omega) => FvalueEq(p.omega, r.omega)

\* What is left of d: some of its points in order, with one for each.
LeftOver(v, d) ==
    /\ Ordered(v) /\ ToSet(v) \subseteq ToSet(d)
    /\ NoChains(d) => \A p \in ToSet(d) : \E q \in ToSet(v) : FvalueEq(p.omega, q.omega)

\* A point of a sequence has a finite omega.
LEMMA OmegasFinite ==
    ASSUME NEW d \in Seq(Points)
    PROVE  /\ \A k \in 1..Len(d) : d[k] \in ToSet(d) /\ d[k].omega \in Finites
           /\ \A p \in ToSet(d) : p.omega \in Finites /\ \E k \in 1..Len(d) : p = d[k]
<1>1. DOMAIN d = 1..Len(d) /\ \A k \in 1..Len(d) : d[k] \in Points
  OBVIOUS
<1>2. \A p \in Points : p.omega \in Finites
  BY DEF Points
<1> QED
  BY <1>1, <1>2 DEF ToSet

\* One point is taken out.
LEMMA Removed ==
    ASSUME NEW v \in Seq(Points), NEW k \in 1..Len(v)
    PROVE  LET r == RemoveAt(v, k)
           IN  /\ r \in Seq(Points) /\ Len(r) = Len(v) - 1
               /\ \A j \in 1..(Len(v) - 1) : r[j] = IF j < k THEN v[j] ELSE v[j + 1]
<1>1. Len(v) \in Nat /\ v \in [1..Len(v) -> Points]
  OBVIOUS
<1>2. PICK n \in Nat : n = Len(v)
  BY <1>1
<1>3. PICK a, b : a = SubSeq(v, 1, k - 1) /\ b = SubSeq(v, k + 1, n)
  OBVIOUS
<1>4. a \in Seq(Points) /\ Len(a) = k - 1 /\ \A j \in 1..(k - 1) : a[j] = v[j]
  <2>1. \A j \in 1..(k - 1) : j \in 1..n /\ v[j] \in Points /\ 1 + j - 1 = j
    BY <1>1, <1>2
  <2>2. /\ SubSeq(v, 1, k - 1) \in Seq(Points)
        /\ Len(SubSeq(v, 1, k - 1)) = IF 1 <= k - 1 THEN k - 1 - 1 + 1 ELSE 0
        /\ \A j \in 1..(k - 1 - 1 + 1) : SubSeq(v, 1, k - 1)[j] = v[1 + j - 1]
    <3>1. 1 \in Int /\ k - 1 \in Int
      OBVIOUS
    <3> QED
      BY <2>1, <3>1, SubSeqProperties
  <2>3. k - 1 - 1 + 1 = k - 1 /\ (~(1 <= k - 1) => k - 1 = 0)
    BY <1>2
  <2> QED
    BY <1>3, <2>1, <2>2, <2>3
<1>5. b \in Seq(Points) /\ Len(b) = n - k /\ \A j \in 1..(n - k) : b[j] = v[k + j]
  <2>1. \A j \in (k + 1)..n : j \in 1..n /\ v[j] \in Points
    BY <1>1, <1>2
  <2>2. /\ SubSeq(v, k + 1, n) \in Seq(Points)
        /\ Len(SubSeq(v, k + 1, n)) = IF k + 1 <= n THEN n - (k + 1) + 1 ELSE 0
        /\ \A j \in 1..(n - (k + 1) + 1) : SubSeq(v, k + 1, n)[j] = v[k + 1 + j - 1]
    <3>1. k + 1 \in Int /\ n \in Int
      BY <1>2
    <3> QED
      BY <2>1, <3>1, SubSeqProperties
  <2>3. n - (k + 1) + 1 = n - k /\ (~(k + 1 <= n) => n - k = 0)
        /\ \A j \in 1..(n - k) : k + 1 + j - 1 = k + j
    BY <1>2
  <2> QED
    BY <1>3, <2>2, <2>3
<1>6. PICK r : r = RemoveAt(v, k)
  OBVIOUS
<1>7. r = a \o b
  BY <1>2, <1>3, <1>6 DEF RemoveAt
<1>8. /\ r \in Seq(Points) /\ Len(r) = k - 1 + (n - k)
      /\ \A j \in 1..(k - 1 + (n - k)) : r[j] = IF j <= k - 1 THEN a[j] ELSE b[j - (k - 1)]
  <2>1. /\ a \o b \in Seq(Points) /\ Len(a \o b) = Len(a) + Len(b)
        /\ \A j \in 1..(Len(a) + Len(b)) :
             (a \o b)[j] = IF j <= Len(a) THEN a[j] ELSE b[j - Len(a)]
    BY <1>4, <1>5, ConcatProperties
  <2> QED
    BY <1>4, <1>5, <1>7, <2>1
<1>9. k - 1 + (n - k) = n - 1
  BY <1>2
<1>10. ASSUME NEW j \in 1..(n - 1)
       PROVE  r[j] = IF j < k THEN v[j] ELSE v[j + 1]
  <2>1. CASE j < k
    <3>1. j <= k - 1 /\ j \in 1..(k - 1)
      BY <2>1
    <3> QED
      BY <1>4, <1>8, <1>9, <2>1, <3>1
  <2>2. CASE ~(j < k)
    <3>1. ~(j <= k - 1) /\ j - (k - 1) \in 1..(n - k) /\ k + (j - (k - 1)) = j + 1
      BY <1>2, <2>2
    <3> QED
      BY <1>5, <1>8, <1>9, <2>2, <3>1
  <2> QED
    BY <2>1, <2>2
<1> QED
  BY <1>2, <1>6, <1>8, <1>9, <1>10

\* Of two neighbours with equal omegas the first may go.
LEMMA TwinRemoved ==
    ASSUME NEW d \in Seq(Points), NEW v, LeftOver(v, d), NEW k \in Twins(v)
    PROVE  LeftOver(RemoveAt(v, k), d) /\ Len(RemoveAt(v, k)) = Len(v) - 1
<1>1. v \in Seq(Points) /\ Len(v) \in Nat /\ ToSet(v) \subseteq ToSet(d)
  BY DEF LeftOver, Ordered
<1>2. PICK n \in Nat : n = Len(v)
  BY <1>1
<1>3. k \in 1..(n - 1) /\ FvalueEq(v[k].omega, v[k + 1].omega)
  BY <1>2 DEF Twins
<1>4. k \in 1..n /\ k + 1 \in 1..n /\ k \in Int
  BY <1>3
<1>5. PICK r : r = RemoveAt(v, k)
  OBVIOUS
<1>6. /\ r \in Seq(Points) /\ Len(r) = n - 1
      /\ \A j \in 1..(n - 1) : r[j] = IF j < k THEN v[j] ELSE v[j + 1]
  BY <1>1, <1>2, <1>4, <1>5, Removed
<1>7. /\ \A j \in 1..n : v[j] \in ToSet(v) /\ v[j].omega \in Finites
      /\ \A p \in ToSet(v) : \E j \in 1..n : p = v[j]
  BY <1>1, <1>2, OmegasFinite
<1>8. /\ \A j \in 1..(n - 1) : r[j] \in ToSet(r)
      /\ \A p \in ToSet(r) : \E j \in 1..(n - 1) : p = r[j]
  BY <1>6, OmegasFinite
<1>9. ToSet(r) \subseteq ToSet(v)
  <2> SUFFICES ASSUME NEW j \in 1..(n - 1)
               PROVE  r[j] \in ToSet(v)
    BY <1>8
  <2>1. j \in 1..n /\ j + 1 \in 1..n
    BY <1>2
  <2> QED
    BY <1>6, <1>7, <2>1
<1>10. ASSUME NEW j \in 1..(n - 1 - 1)
       PROVE  ~Less(r[j + 1].omega, r[j].omega)
  <2>1. /\ j \in 1..(n - 1) /\ j + 1 \in 1..(n - 1) /\ j + 1 + 1 \in 1..n
        /\ j \in 1..n /\ j + 1 \in 1..n
    BY <1>2
  <2>2. \A i \in 1..(n - 1) : Leq(v[i].omega, v[i + 1].omega)
    BY <1>2 DEF LeftOver, Ordered, Leq
  <2>3. Leq(v[j].omega, v[j + 1].omega) /\ Leq(v[j + 1].omega, v[j + 1 + 1].omega)
    BY <2>1, <2>2
  <2>4. Leq(v[j].omega, v[j + 1 + 1].omega)
    BY <1>7, <2>1, <2>3, LeqTransitive
  <2>5. r[j] = (IF j < k THEN v[j] ELSE v[j + 1])
        /\ r[j + 1] = (IF j + 1 < k THEN v[j + 1] ELSE v[j + 1 + 1])
    BY <1>6, <2>1
  <2>6. j + 1 < k => j < k
    BY <1>4
  <2>7. Leq(r[j].omega, r[j + 1].omega)
    BY <2>3, <2>4, <2>5, <2>6
  <2> QED
    BY <2>7 DEF Leq
<1>11. ASSUME NoChains(d), NEW p \in ToSet(d)
       PROVE  \E q \in ToSet(r) : FvalueEq(p.omega, q.omega)
  <2>1. PICK q \in ToSet(v) : FvalueEq(p.omega, q.omega)
    BY <1>11 DEF LeftOver
  <2>2. PICK j \in 1..n : q = v[j]
    BY <1>7
  <2>3. CASE j < k
    <3>1. j \in 1..(n - 1)
      BY <1>3, <2>3
    <3> QED
      BY <1>6, <1>8, <2>1, <2>2, <2>3, <3>1
  <2>4. CASE j = k
    <3>1. r[k] = v[k + 1] /\ r[k] \in ToSet(r)
      BY <1>3, <1>4, <1>6, <1>8
    <3>2. v[k] \in ToSet(d) /\ v[k + 1] \in ToSet(d)
      BY <1>1, <1>4, <1>7
    <3>3. FvalueEq(p.omega, v[k + 1].omega)
      BY <1>3, <1>11, <2>1, <2>2, <2>4, <3>2 DEF NoChains
    <3> QED
      BY <3>1, <3>3
  <2>5. CASE j > k
    <3>1. j - 1 \in 1..(n - 1) /\ ~(j - 1 < k) /\ j - 1 + 1 = j
      BY <1>3, <2>5
    <3>2. r[j - 1] = v[j] /\ r[j - 1] \in ToSet(r)
      BY <1>6, <1>8, <3>1
    <3> QED
      BY <2>1, <2>2, <3>2
  <2> QED
    BY <1>4, <2>3, <2>4, <2>5
<1>12. Ordered(r)
  BY <1>6, <1>10 DEF Ordered
<1>13. LeftOver(r, d)
  BY <1>1, <1>9, <1>11, <1>12 DEF LeftOver
<1> QED
  BY <1>2, <1>5, <1>6, <1>13

\* The loop that removes the duplicates ends without any.
LEMMA DuplicatesGone ==
    ASSUME NEW d, Ordered(d)
    PROVE  LeftOver(WithoutDuplicates(d), d) /\ Twins(WithoutDuplicates(d)) = {}
<1>0. PICK n \in Nat : n = Len(d)
  BY DEF Ordered
<1> DEFINE equal(v) == {k \in 1..(Len(v) - 1) : FvalueEq(v[k].omega, v[k + 1].omega)}
           new(v) == IF equal(v) = {} THEN v
                     ELSE RemoveAt(v, CHOOSE k \in equal(v) : \A l \in equal(v) : k <= l)
           V == {v \in Seq(Points) : LeftOver(v, d)}
           G == [q \in V \X (1..n) |-> new(q[1])]
           after == CHOOSE after : after = [p \in 0..Len(d) |->
                      IF p = 0 THEN d ELSE new(after[p - 1])]
<1>1. d \in V
  <2>1. d \in Seq(Points)
    BY DEF Ordered
  <2>2. \A p \in ToSet(d) : FvalueEq(p.omega, p.omega)
    <3> TAKE p \in ToSet(d)
    <3>1. p.omega \in Finites
      BY <2>1, OmegasFinite
    <3>2. PICK x : x = p.omega
      OBVIOUS
    <3>3. Same(x, x)
      BY <3>1, <3>2, LeqTotal
    <3> QED
      BY <3>1, <3>2, <3>3, SameIsEqual
  <2> QED
    BY <2>1, <2>2 DEF LeftOver
<1>2. \A v \in V : new(v) \in V /\ (equal(v) # {} => Len(new(v)) = Len(v) - 1)
  <2> SUFFICES ASSUME NEW v \in V, equal(v) # {}
               PROVE  new(v) \in V /\ Len(new(v)) = Len(v) - 1
    OBVIOUS
  <2>1. equal(v) = Twins(v) /\ v \in Seq(Points) /\ LeftOver(v, d)
    BY DEF Twins
  <2>2. PICK k : k = CHOOSE k1 \in equal(v) : \A l \in equal(v) : k1 <= l
    OBVIOUS
  <2>3. new(v) = RemoveAt(v, k)
    BY <2>2
  <2>4. equal(v) \in SUBSET Nat
    OBVIOUS
  <2> HIDE DEF equal, new
  <2>5. \E k2 \in equal(v) : \A l \in equal(v) : k2 <= l
    BY <2>4, LeastExists
  <2>6. k \in Twins(v)
    BY <2>1, <2>2, <2>5
  <2>7. LeftOver(RemoveAt(v, k), d) /\ Len(RemoveAt(v, k)) = Len(v) - 1
    <3>1. d \in Seq(Points)
      BY DEF Ordered
    <3> QED
      BY <2>1, <2>6, <3>1, TwinRemoved
  <2>8. RemoveAt(v, k) \in Seq(Points)
    BY <2>7 DEF LeftOver, Ordered
  <2> QED
    BY <2>3, <2>7, <2>8
<1>3. \A v \in V, p \in 1..n : G[<<v, p>>] = new(v) /\ G[<<v, p>>] \in V
  <2> HIDE DEF V, new
  <2> QED
    BY <1>2
<1>4. after = [p \in 0..n |-> IF p = 0 THEN d ELSE new(after[p - 1])]
  <2> HIDE DEF V, new, G
  <2>1. PICK f : IsRecursion(f, V, d, n, G)
    BY <1>0, <1>1, <1>3, RecursionExists
  <2>2. /\ f \in [0..n -> V]
        /\ \A p \in 0..n : f[p] = IF p = 0 THEN d ELSE G[<<f[p - 1], p>>]
    BY <2>1 DEF IsRecursion
  <2>3. \A p \in 0..n : p # 0 => f[p - 1] \in V /\ p \in 1..n
    BY <1>0, <2>2
  <2>4. \A p \in 0..n : f[p] = IF p = 0 THEN d ELSE new(f[p - 1])
    BY <1>3, <2>2, <2>3
  <2>5. f = [p \in 0..Len(d) |-> IF p = 0 THEN d ELSE new(f[p - 1])]
    BY <1>0, <2>2, <2>4
  <2>6. after = [p \in 0..Len(d) |-> IF p = 0 THEN d ELSE new(after[p - 1])]
    BY <2>5
  <2> HIDE DEF after
  <2> QED
    BY <1>0, <2>6
<1>5. WithoutDuplicates(d) = after[n]
  <2>1. WithoutDuplicates(d) = after[Len(d)]
    BY DEF WithoutDuplicates
  <2> HIDE DEF after
  <2> QED
    BY <1>0, <2>1
<1>6. after[0] = d /\ \A p \in 1..n : after[p] = new(after[p - 1])
  <2>1. 0 \in 0..n /\ \A p \in 1..n : p \in 0..n /\ p # 0
    BY <1>0
  <2> HIDE DEF after, new
  <2>2. \A p \in 0..n : after[p] = IF p = 0 THEN d ELSE new(after[p - 1])
    BY <1>4
  <2> QED
    BY <2>1, <2>2
<1>7. \A v : equal(v) = {} => new(v) = v
  OBVIOUS
<1>8. \A v \in V : equal(v) = Twins(v) /\ LeftOver(v, d) /\ Len(v) \in Nat
  BY DEF Twins
<1> HIDE DEF after, new, equal, V, G
<1> DEFINE S == {p \in 0..n : after[p] \in V /\ (equal(after[p]) = {} \/ Len(after[p]) = n - p)}
<1>9. 0 \in S
  BY <1>0, <1>1, <1>6
<1>10. ASSUME NEW p \in 0..(n - 1), p \in S
       PROVE  p + 1 \in S
  <2>1. p + 1 \in 1..n /\ p + 1 \in 0..n /\ p + 1 - 1 = p /\ n - p - 1 = n - (p + 1)
    BY <1>0
  <2>2. PICK v, w : v = after[p] /\ w = after[p + 1]
    OBVIOUS
  <2>3. w = new(v)
    BY <1>6, <2>1, <2>2
  <2>4. v \in V /\ (equal(v) = {} \/ Len(v) = n - p)
    BY <1>10, <2>2
  <2>5. CASE equal(v) = {}
    BY <1>7, <2>1, <2>2, <2>3, <2>4, <2>5
  <2>6. CASE equal(v) # {}
    <3>1. w \in V /\ Len(w) = n - (p + 1)
      BY <1>2, <2>1, <2>3, <2>4, <2>6
    <3> QED
      BY <2>1, <2>2, <3>1
  <2> QED
    BY <2>5, <2>6
<1>11. \A p \in 0..n : p \in S
  <2> HIDE DEF S
  <2> QED
    BY <1>0, <1>9, <1>10, UpTo
<1>12. n \in S
  BY <1>0, <1>11
<1>13. PICK r : r = after[n]
  OBVIOUS
<1>14. r \in V /\ (equal(r) = {} \/ Len(r) = 0)
  BY <1>0, <1>12, <1>13
<1>15. Twins(r) = {}
  <2>1. Len(r) = 0 => Twins(r) = {}
    BY DEF Twins
  <2> QED
    BY <1>8, <1>14, <2>1
<1> QED
  BY <1>5, <1>8, <1>13, <1>14, <1>15

\* What removeDuplicates leaves.
LEMMA WithoutTwins ==
    ASSUME NEW d \in Seq(Points), NEW r \in RemoveDuplicates(d)
    PROVE  LET eq(p, q) == FvalueEq(p.omega, q.omega)
               olds == ToSet(d)
           IN  /\ r \in Seq(Points)
               /\ ToSet(r) \subseteq olds
               /\ \A k \in 2..Len(r) : Less(r[k - 1].omega, r[k].omega)
               /\ \A k \in 2..Len(r) : ~eq(r[k - 1], r[k])
               /\ (\A p, q, s \in olds : eq(p, q) /\ eq(q, s) => eq(p, s))
                    => \A p \in olds : \E q \in ToSet(r) : eq(p, q)
<1>1. PICK s \in Sorted(d) : r = WithoutDuplicates(s)
  BY DEF RemoveDuplicates
<1>2. Ordered(s) /\ ToSet(s) = ToSet(d)
  BY SortedOrders
<1>3. LeftOver(r, s) /\ Twins(r) = {}
  BY <1>1, <1>2, DuplicatesGone
<1>4. r \in Seq(Points) /\ Len(r) \in Nat
  BY <1>3 DEF LeftOver, Ordered
<1>5. ASSUME NEW k \in 2..Len(r)
      PROVE  /\ Less(r[k - 1].omega, r[k].omega)
             /\ ~FvalueEq(r[k - 1].omega, r[k].omega)
  <2>1. k - 1 \in 1..(Len(r) - 1) /\ k - 1 + 1 = k /\ k - 1 \in 1..Len(r) /\ k \in 1..Len(r)
    BY <1>4
  <2>2. ~FvalueEq(r[k - 1].omega, r[k - 1 + 1].omega)
    BY <1>3, <2>1 DEF Twins
  <2>3. ~Less(r[k - 1 + 1].omega, r[k - 1].omega)
    BY <1>3, <2>1 DEF LeftOver, Ordered
  <2>4. PICK x, y : x = r[k - 1].omega /\ y = r[k].omega
    OBVIOUS
  <2>5. x \in Finites /\ y \in Finites
    BY <1>4, <2>1, <2>4, OmegasFinite
  <2>6. ~FvalueEq(x, y) /\ ~Less(y, x)
    BY <2>1, <2>2, <2>3, <2>4
  <2>7. ~Same(x, y)
    BY <2>5, <2>6, SameIsEqual
  <2>8. Less(x, y)
    BY <2>5, <2>6, <2>7, LeqTotal DEF Leq
  <2> QED
    BY <2>4, <2>6, <2>8
<1>6. ToSet(r) \subseteq ToSet(d)
  BY <1>2, <1>3 DEF LeftOver
<1>7. NoChains(d) => \A p \in ToSet(d) : \E q \in ToSet(r) : FvalueEq(p.omega, q.omega)
  BY <1>2, <1>3 DEF LeftOver, NoChains
<1> QED
  BY <1>4, <1>5, <1>6, <1>7 DEF NoChains

(***************************************************************************)
(* The calls                                                               *)
(***************************************************************************)
\* Neither normalize nor what resamples to some points leaves the vector.
LEMMA ResampledInside ==
    ASSUME NEW d \in Seq(Points)
    PROVE  /\ \A part \in Parts : Normalize(d, part) # Outside
           /\ \A size \in Nat : Outside \in Rescale(d, size) => d = <<>>
           /\ \A omegas \in Frequencies, linear \in BOOLEAN :
                Outside \in FitToFrequencies(omegas, d, linear) => d = <<>>
<1>1. PICK n \in Nat : n = Len(d) /\ DOMAIN d = 1..n
  OBVIOUS
<1>2. \A part \in Parts : Normalize(d, part) # Outside
  <2> TAKE part \in Parts
  <2>1. DOMAIN Normalize(d, part) = 1..n
    BY <1>1 DEF Normalize
  <2> QED
    BY <1>1, <2>1, NotOutside
<1>3. ASSUME NEW size \in Nat, Outside \in Rescale(d, size), d # <<>>
      PROVE  FALSE
  <2>1. n # 0 /\ Size(d) = n
    BY <1>1, <1>3 DEF Size
  <2>2. \A x, y : <<x>> # Outside /\ <<>> # Outside
    <3> TAKE x, y
    <3>1. DOMAIN <<x>> = 1..1 /\ DOMAIN <<>> = 1..0
      OBVIOUS
    <3> QED
      BY <3>1, NotOutside
  <2>3. size # 0
    BY <1>3, <2>2 DEF Rescale
  <2>4. size # 1
    BY <1>3, <2>1, <2>2, <2>3 DEF Rescale
  <2>5. PICK r : Outside = r /\ DOMAIN r = 1..size
    BY <1>3, <2>1, <2>3, <2>4 DEF Rescale
  <2> QED
    BY <2>5, NotOutside
<1>4. ASSUME NEW omegas \in Frequencies, NEW linear \in BOOLEAN,
             Outside \in FitToFrequencies(omegas, d, linear), d # <<>>
      PROVE  FALSE
  <2>1. omegas \in Seq({Whole(10 ^ e) : e \in 0..9})
    BY InputsAssumption
  <2>2. PICK m \in Nat : DOMAIN omegas = 1..m
    BY <2>1
  <2>3. DOMAIN Outside = 1..m
    BY <1>4, <2>2 DEF FitToFrequencies
  <2> QED
    BY <2>2, <2>3, NotOutside
<1> QED
  BY <1>2, <1>3, <1>4

\* Before a call the spectrum is one of those to begin with.
Ready == call.fn = "none" => data \in Inputs

\* Omegas are powers of ten.
Decades(d) == \A k \in DOMAIN d : \E e \in 0..9 : d[k].omega = Whole(10 ^ e)

\* There is one call, of one of the functions.
LEMMA Called ==
    ASSUME Ready, Next
    PROVE  /\ data \in Seq(Points) /\ before' = data /\ call'.fn # "none"
           /\ call'.fn \in {"eraseSingularites", "normalize", "reduceRegion",
                            "removeDuplicates", "rescale", "fitToFrequencies"}
           /\ call'.fn = "eraseSingularites" => data' = EraseSingularites(data)
           /\ call'.fn = "normalize" =>
                \E part \in Parts : data' = Normalize(data, part)
           /\ call'.fn = "reduceRegion" =>
                /\ AllFinite
                /\ \E part \in Parts, second \in BOOLEAN, factor \in Finites :
                     /\ call'.with.part = part /\ call'.with.second = second
                     /\ call'.with.factor = factor
                     /\ data' = ReduceRegion(data, part, second, factor)
           /\ call'.fn = "removeDuplicates" => data' \in RemoveDuplicates(data)
           /\ call'.fn = "rescale" =>
                call'.with \in Sizes /\ data' \in Rescale(data, call'.with)
           /\ call'.fn = "fitToFrequencies" =>
                /\ Decades(data)
                /\ \E omegas \in Frequencies, linear \in BOOLEAN :
                     /\ call'.with.linear = linear
                     /\ data' \in FitToFrequencies(omegas, data, linear)
<1>0. \A fn, with, results : Call(fn, with, results) =>
         /\ data \in Inputs /\ before' = data /\ data' \in results
         /\ call'.fn = fn /\ call'.with = with
  BY DEF Call, Ready
<1>1. data \in Inputs => data \in Seq(Points)
  BY InputsAssumption
<1>2. CASE CallEraseSingularites
  BY <1>0, <1>1, <1>2 DEF CallEraseSingularites
<1>3. CASE CallNormalize
  <2>1. PICK part \in Parts : Call("normalize", [part |-> part], {Normalize(data, part)})
    BY <1>3 DEF CallNormalize
  <2> QED
    BY <1>0, <1>1, <2>1
<1>4. CASE CallReduceRegion
  <2>1. PICK part \in Parts, second \in BOOLEAN, factor \in Factors :
           Call("reduceRegion", [part |-> part, second |-> second, factor |-> factor],
                {ReduceRegion(data, part, second, factor)})
    BY <1>4 DEF CallReduceRegion
  <2>2. AllFinite /\ factor \in Finites
    BY <1>4, InputsAssumption DEF CallReduceRegion
  <2> QED
    BY <1>0, <1>1, <2>1, <2>2
<1>5. CASE CallRemoveDuplicates
  BY <1>0, <1>1, <1>5 DEF CallRemoveDuplicates
<1>6. CASE CallRescale
  <2>1. PICK size \in Sizes : Call("rescale", size, Rescale(data, size))
    BY <1>6 DEF CallRescale
  <2> QED
    BY <1>0, <1>1, <2>1
<1>7. CASE CallFit
  <2>1. PICK omegas \in Frequencies, linear \in BOOLEAN :
           Call("fitToFrequencies", [omegas |-> omegas, linear |-> linear],
                FitToFrequencies(omegas, data, linear))
    BY <1>7 DEF CallFit
  <2>2. Decades(data)
    BY <1>7 DEF CallFit, Decades
  <2> QED
    BY <1>0, <1>1, <2>1, <2>2
<1> QED
  BY <1>2, <1>3, <1>4, <1>5, <1>6, <1>7 DEF Next

\* The calls are made one at a time, from an input.
LEMMA ReadyAlways == Spec => []Ready
<1>1. Init => Ready
  BY DEF Init, Ready
<1>2. Ready /\ [Next]_vars => Ready'
  <2>1. ASSUME Ready, Next
        PROVE  Ready'
    BY <2>1, Called DEF Ready
  <2>2. Ready /\ UNCHANGED vars => Ready'
    BY DEF Ready, vars
  <2> QED
    BY <2>1, <2>2
<1> QED
  BY <1>1, <1>2, PTL DEF Spec

\* The index arithmetic leaves the vector only where OnlyTheseReadOutside
\* says: the walks of eraseSingularites stop short of both ends, the region of
\* reduceRegion runs backwards only if all from the second point on is below
\* the threshold, and the rest asks for one point at least.
THEOREM ReadsOutsideAreThese == Spec => []OnlyTheseReadOutside
<1>1. Init => OnlyTheseReadOutside
  <2> SUFFICES ASSUME Init
               PROVE  data # Outside
    BY DEF OnlyTheseReadOutside
  <2>1. data \in Seq(Points)
    BY InputsAssumption DEF Init
  <2>2. PICK n \in Nat : DOMAIN data = 1..n
    BY <2>1
  <2> QED
    BY <2>2, NotOutside
<1>2. ASSUME Ready, Next
      PROVE  OnlyTheseReadOutside'
  <2> SUFFICES ASSUME data' = Outside
               PROVE  \/ /\ call'.fn = "eraseSingularites"
                         /\ Singular(data) \cap {0, Size(data) - 1} # {}
                      \/ /\ call'.fn = "reduceRegion"
                         /\ Size(data) >= 6
                         /\ 1..(Size(data) - 1) \subseteq FlatPoints(data, call'.with)
                         /\ call'.with.second \/ Less(Whole(1), call'.with.factor)
                      \/ call'.fn \in {"fitToFrequencies", "rescale"} /\ data = <<>>
    BY <1>2, Called DEF OnlyTheseReadOutside, FlatPoints
  <2>1. PICK n : n = Len(data)
    OBVIOUS
  <2>2. data \in Seq(Points) /\ Spectrum(data, n) /\ Size(data) = n /\ n \in Nat /\ DOMAIN data = 1..n
    BY <1>2, <2>1, Called, SpectrumOfSeq DEF Size
  <2>3. CASE call'.fn = "eraseSingularites"
    <3>1. EraseSingularites(data) = Outside
      BY <1>2, <2>3, Called
    <3> QED
      BY <2>2, <2>3, <3>1, ErasedOutside
  <2>4. CASE call'.fn = "normalize"
    <3>1. PICK part \in Parts : Normalize(data, part) = Outside
      BY <1>2, <2>4, Called
    <3> QED
      BY <2>2, <3>1, ResampledInside
  <2>5. CASE call'.fn = "reduceRegion"
    <3>1. PICK part \in Parts, second \in BOOLEAN, factor \in Finites :
             /\ call'.with.part = part /\ call'.with.second = second
             /\ call'.with.factor = factor
             /\ ReduceRegion(data, part, second, factor) = Outside
      BY <1>2, <2>5, Called
    <3>2. Regular(data, n)
      BY <1>2, <2>2, <2>5, Called DEF Regular, AllFinite
    <3>3. /\ n >= 6 /\ (second \/ Less(Whole(1), factor))
          /\ 1..(n - 1) \subseteq
               Below(Grads(Normalize(data, part), second), second, factor)
      BY <3>1, <3>2, ReducedOutside
    <3> QED
      BY <2>2, <2>5, <3>1, <3>3 DEF FlatPoints
  <2>6. CASE call'.fn = "removeDuplicates"
    <3>1. Outside \in RemoveDuplicates(data)
      BY <1>2, <2>6, Called
    <3>2. Outside \in Seq(Points)
      BY <2>2, <3>1, WithoutTwins
    <3>3. PICK m \in Nat : DOMAIN Outside = 1..m
      BY <3>2
    <3> QED
      BY <3>3, NotOutside
  <2>7. CASE call'.fn = "rescale"
    <3>1. PICK size \in Nat : Outside \in Rescale(data, size)
      <4>1. call'.with \in Nat /\ Outside \in Rescale(data, call'.with)
        BY <1>2, <2>7, Called, InputsAssumption
      <4> QED
        BY <4>1
    <3> QED
      BY <2>2, <2>7, <3>1, ResampledInside
  <2>8. CASE call'.fn = "fitToFrequencies"
    <3>1. PICK omegas \in Frequencies, linear \in BOOLEAN :
             Outside \in FitToFrequencies(omegas, data, linear)
      BY <1>2, <2>8, Called
    <3> QED
      BY <2>2, <2>8, <3>1, ResampledInside
  <2> QED
    BY <1>2, <2>3, <2>4, <2>5, <2>6, <2>7, <2>8, Called
<1>3. OnlyTheseReadOutside /\ UNCHANGED vars => OnlyTheseReadOutside'
  BY DEF OnlyTheseReadOutside, vars
<1> QED
  BY <1>1, <1>2, <1>3, ReadyAlways, PTL DEF Spec

\* What reduceRegion keeps is the normalized spectrum over the steep points,
\* with a point on either side, and lies in 0 to 1, or in -1 to 1 if it is
\* imaginary: a threshold of the median or less always leaves some, and the
\* range is cut from the front and from the back at the first point that is not
\* below it.
THEOREM RegionsAreTheSteepPoints == Spec => []RegionIsTheSteepPoints
<1>1. Init => RegionIsTheSteepPoints
  BY DEF Init, RegionIsTheSteepPoints
<1>2. ASSUME Ready, Next
      PROVE  RegionIsTheSteepPoints'
  <2>1. PICK n : n = Len(data)
    OBVIOUS
  <2>2. /\ data \in Seq(Points) /\ Spectrum(data, n) /\ Size(data) = n /\ n \in Nat
        /\ DOMAIN data = 1..n /\ before' = data
    BY <1>2, <2>1, Called, SpectrumOfSeq DEF Size
  <2> SUFFICES ASSUME call'.fn = "reduceRegion", data' # Outside, n >= 3
               PROVE  LET all == Normalize(data, call'.with.part)
                          steep == (1..(n - 2)) \ FlatPoints(data, call'.with)
                          least == LeastOf(call'.with.part)
                      IN  /\ steep # {} => data' = SubSeq(all, Min(steep), Max(steep) + 2)
                          /\ steep = {} => \/ call'.with.second
                                           \/ Less(Whole(1), call'.with.factor)
                          /\ \A p \in ToSet(data') :
                               ~Less(p.im, least) /\ ~Less(Whole(1), p.im)
    BY <2>1, <2>2 DEF RegionIsTheSteepPoints, LeastOf, FlatPoints
  <2>3. PICK part \in Parts, second \in BOOLEAN, factor \in Finites :
           /\ call'.with.part = part /\ call'.with.second = second
           /\ call'.with.factor = factor
           /\ data' = ReduceRegion(data, part, second, factor)
    BY <1>2, Called
  <2>4. Regular(data, n)
    BY <1>2, <2>2, Called DEF Regular, AllFinite
  <2>5. ReduceRegion(data, part, second, factor) # Outside
    BY <2>3
  <2>6. SteepKept(data, n, part, second, factor)
    BY <2>4, <2>5, ReducedToSteep
  <2>7. FlatPoints(data, call'.with)
          = Below(Grads(Normalize(data, part), second), second, factor)
    BY <2>3 DEF FlatPoints
  <2> QED
    BY <2>3, <2>6, <2>7 DEF SteepKept
<1>3. RegionIsTheSteepPoints /\ UNCHANGED vars => RegionIsTheSteepPoints'
  <2> SUFFICES ASSUME RegionIsTheSteepPoints, UNCHANGED vars
               PROVE  RegionIsTheSteepPoints'
    OBVIOUS
  <2>1. data' = data /\ before' = before /\ call' = call
    BY DEF vars
  <2> QED
    BY <2>1 DEF RegionIsTheSteepPoints
<1> QED
  BY <1>1, <1>2, <1>3, ReadyAlways, PTL DEF Spec

\* eraseSingularites leaves numbers only, each between numbers there were, and
\* the omegas as they are: what it erases a singular point with is the middle
\* of two points that are no longer singular, or never were.
THEOREM SingularitiesAreErased == Spec => []SingularitiesErased
<1>1. Init => SingularitiesErased
  BY DEF Init, SingularitiesErased
<1>2. ASSUME Ready, Next
      PROVE  SingularitiesErased'
  <2>1. PICK n : n = Len(data)
    OBVIOUS
  <2>2. data \in Seq(Points) /\ Spectrum(data, n) /\ n \in Nat /\ before' = data
    BY <1>2, <2>1, Called, SpectrumOfSeq
  <2> SUFFICES ASSUME call'.fn = "eraseSingularites", data' # Outside,
                      \/ Cardinality(Singular(data)) = 1
                      \/ \A i \in Singular(data) :
                           At(data, i).im = Nan /\ i + 1 \notin Singular(data)
               PROVE  \A i \in Indices(data') :
                        /\ Finite(At(data', i).im) /\ Hull(data, At(data', i).im)
                        /\ At(data', i).omega = At(data, i).omega
    BY <2>2 DEF SingularitiesErased, Singular, Hull
  <2>3. PICK e : e = data' /\ e = EraseSingularites(data) /\ e # Outside
    BY <1>2, Called
  <2>4. SameOmegas(e, data, n) /\ \A k \in 1..n : Sound(data, e[k].im)
    <3>1. CASE \A i \in Singular(data) : At(data, i).im = Nan /\ i + 1 \notin Singular(data)
      BY <2>2, <2>3, <3>1, IsolatedErased
    <3>2. CASE Cardinality(Singular(data)) = 1
      <4>1. IsFiniteSet(Singular(data))
        <5>1. Singular(data) \in SUBSET (0..(n - 1))
          BY <2>2, SpectrumAt DEF Singular
        <5>2. IsFiniteSet(0..(n - 1))
          BY <2>2, FS_Interval
        <5> QED
          BY <5>1, <5>2, FS_Subset
      <4>2. PICK s : Singular(data) = {s}
        BY <3>2, <4>1, FS_Singleton
      <4> QED
        BY <2>2, <2>3, <4>2, SingleErased
    <3> QED
      BY <3>1, <3>2
  <2>5. Spectrum(e, n) /\ \A k \in 1..n : e[k].omega = data[k].omega
    BY <2>4 DEF SameOmegas
  <2>6. Indices(e) = 0..(n - 1) /\ \A i \in 0..(n - 1) : i + 1 \in 1..n
    BY <2>2, <2>5, SpectrumAt
  <2>7. ASSUME NEW i \in 0..(n - 1)
        PROVE  /\ Finite(At(e, i).im) /\ Hull(data, At(e, i).im)
               /\ At(e, i).omega = At(data, i).omega
    <3>1. Sound(data, e[i + 1].im) /\ e[i + 1].omega = data[i + 1].omega
      BY <2>4, <2>5, <2>6
    <3>2. Finite(e[i + 1].im) /\ Hull(data, e[i + 1].im)
      BY <3>1, SoundFinite DEF Sound
    <3> QED
      BY <3>1, <3>2 DEF At
  <2> QED
    BY <2>3, <2>6, <2>7
<1>3. SingularitiesErased /\ UNCHANGED vars => SingularitiesErased'
  BY DEF SingularitiesErased, vars
<1> QED
  BY <1>1, <1>2, <1>3, ReadyAlways, PTL DEF Spec

\* removeDuplicates leaves omegas in order with none equal to the next, and
\* one for each there was: to erase the first of two equal neighbours keeps
\* the order, and each pass erases one until there are none.
THEOREM DuplicatesAreRemoved == Spec => []DuplicatesRemoved
<1>1. Init => DuplicatesRemoved
  BY DEF Init, DuplicatesRemoved
<1>2. ASSUME Ready, Next
      PROVE  DuplicatesRemoved'
  <2>1. data \in Seq(Points) /\ before' = data
    BY <1>2, Called
  <2>2. PICK r : r = data'
    OBVIOUS
  <2>3. CASE call'.fn = "removeDuplicates"
    <3>1. r \in RemoveDuplicates(data)
      BY <1>2, <2>2, <2>3, Called
    <3>2. LET eq(p, q) == FvalueEq(p.omega, q.omega)
              olds == ToSet(data)
          IN  /\ ToSet(r) \subseteq olds
              /\ \A k \in 2..Len(r) : Less(r[k - 1].omega, r[k].omega)
              /\ \A k \in 2..Len(r) : ~eq(r[k - 1], r[k])
              /\ (\A p, q, s \in olds : eq(p, q) /\ eq(q, s) => eq(p, s))
                   => \A p \in olds : \E q \in ToSet(r) : eq(p, q)
      BY <2>1, <3>1, WithoutTwins
    <3> QED
      BY <2>1, <2>2, <3>2 DEF DuplicatesRemoved, FvalueEq
  <2>4. CASE call'.fn # "removeDuplicates"
    BY <2>4 DEF DuplicatesRemoved
  <2> QED
    BY <2>3, <2>4
<1>3. DuplicatesRemoved /\ UNCHANGED vars => DuplicatesRemoved'
  BY DEF DuplicatesRemoved, vars
<1> QED
  BY <1>1, <1>2, <1>3, ReadyAlways, PTL DEF Spec

-------------------------------------------------------------------------------
(*****************************************************************************)
(* Sums and products                                                         *)
(*****************************************************************************)
\* Over a common denominator a sum is that of the numerators.
LEMMA PlusIs ==
    ASSUME NEW x, NEW y, NEW a, NEW b, NEW d, Is(x, a, d), Is(y, b, d)
    PROVE  Is(Plus(x, y), a + b, d)
<1>0. PICK f : f = Plus(x, y)
  OBVIOUS
<1>1. f \in Finites /\ f[1] * (x[2] * y[2]) = (x[1] * y[2] + y[1] * x[2]) * f[2]
  BY <1>0, PlusFinite DEF Is
<1>2. PICK p, q, u, v, m, n \in Int : /\ p = x[1] /\ q = x[2] /\ u = y[1] /\ v = y[2]
                                      /\ m = f[1] /\ n = f[2]
  BY <1>1 DEF Is, Finites
<1>3. q > 0 /\ v > 0 /\ d > 0 /\ a \in Int /\ b \in Int /\ d \in Int
  BY <1>2 DEF Is, Finites
<1>4. p * d = a * q /\ u * d = b * v /\ m * (q * v) = (p * v + u * q) * n
  BY <1>1, <1>2 DEF Is
<1>5. (m * d) * (q * v) = ((a + b) * n) * (q * v)
  <2>1. (m * d) * (q * v) = (m * (q * v)) * d
    BY <1>3
  <2>2. ((p * v + u * q) * n) * d = ((p * d) * v + (u * d) * q) * n
    BY <1>3
  <2>3. ((a * q) * v + (b * v) * q) * n = ((a + b) * n) * (q * v)
    BY <1>3
  <2> QED
    BY <1>4, <2>1, <2>2, <2>3
<1>6. m * d = (a + b) * n
  <2>1. PICK g, h, w : g = m * d /\ h = (a + b) * n /\ w = q * v
    OBVIOUS
  <2>2. g \in Int /\ h \in Int /\ w \in Int /\ w > 0
    BY <1>3, <2>1, Products
  <2>3. g * w = h * w
    BY <1>5, <2>1
  <2>4. g = h
    BY <2>2, <2>3, Cancel
  <2> QED
    BY <2>1, <2>4
<1>7. Is(f, a + b, d)
  BY <1>1, <1>2, <1>3, <1>6 DEF Is
<1> QED
  BY <1>0, <1>7

\* Numerator and denominator may have a common factor.
LEMMA ScaleIs ==
    ASSUME NEW x, NEW a, NEW d, Is(x, a, d), NEW e \in Int, e > 0
    PROVE  Is(x, a * e, d * e)
<1>1. PICK p, q \in Int : p = x[1] /\ q = x[2]
  BY DEF Is, Finites
<1>2. a \in Int /\ d \in Int /\ d > 0 /\ p * d = a * q /\ x \in Finites
  BY <1>1 DEF Is
<1>3. p * (d * e) = (p * d) * e /\ (a * e) * q = (a * q) * e
  BY <1>2
<1>4. d * e > 0 /\ d * e \in Int /\ a * e \in Int
  BY <1>2, Products
<1> QED
  BY <1>1, <1>2, <1>3, <1>4 DEF Is

\* A number is its numerator over its denominator.
LEMMA SelfIs ==
    ASSUME NEW x \in Finites
    PROVE  Is(x, x[1], x[2])
BY DEF Is, Finites

\* 0 over any denominator.
LEMMA ZeroIs ==
    ASSUME NEW x, NEW d, Is(x, 0, d), NEW e \in Int, e > 0
    PROVE  Is(x, 0, e)
<1>1. x[1] = 0 /\ x \in Finites
  BY IsSame
<1>2. x[2] \in Int
  BY <1>1 DEF Finites
<1> QED
  BY <1>1, <1>2 DEF Is

-------------------------------------------------------------------------------
(*****************************************************************************)
(* Rescaling                                                                 *)
(*****************************************************************************)
\* A number times what is left of 1, and another times the rest, is between them.
LEMMA MixBetween ==
    ASSUME NEW x \in Finites, NEW y \in Finites, NEW frac, NEW f, NEW e, Is(frac, f, e),
           0 <= f, f <= e
    PROVE  LET m == Plus(Times(x, Difference(Whole(1), frac)), Times(y, frac))
           IN  /\ m \in Finites
               /\ Leq(x, y) => Leq(x, m) /\ Leq(m, y)
               /\ Leq(y, x) => Leq(y, m) /\ Leq(m, x)
               /\ f = 0 => Same(m, x)
<1>1. PICK a, b, c, d \in Int : Is(x, a, d) /\ Is(y, b, d) /\ Is(x, c, d)
  BY CommonDenominator
<1>2. f \in Int /\ e \in Int /\ e > 0 /\ d > 0
  BY <1>1 DEF Is
<1>3. PICK rest : rest = Difference(Whole(1), frac)
  OBVIOUS
<1>4. Is(rest, e - f, e)
  <2>1. Is(Whole(1), 1 * e, e)
    BY <1>2, WholeIs
  <2>2. 1 * e = e
    BY <1>2
  <2>3. Is(Whole(1), e, e)
    BY <2>1, <2>2
  <2> QED
    BY <1>3, <2>3, DifferenceIs
<1>5. PICK s, t : s = Times(x, rest) /\ t = Times(y, frac)
  OBVIOUS
<1>6. Is(s, a * (e - f), d * e) /\ Is(t, b * f, d * e)
  <2>1. Is(s, a * (e - f), d * e)
    BY <1>1, <1>4, <1>5, TimesIs
  <2>2. Is(t, b * f, d * e)
    BY <1>1, <1>5, TimesIs
  <2> QED
    BY <2>1, <2>2
<1>7. PICK m : m = Plus(s, t)
  OBVIOUS
<1>8. PICK g, h, u, v : g = a * (e - f) + b * f /\ h = d * e /\ u = a * e /\ v = b * e
  OBVIOUS
<1>9. Is(m, g, h)
  BY <1>6, <1>7, <1>8, PlusIs
<1>10. Is(x, u, h) /\ Is(y, v, h)
  <2>1. Is(x, a * e, d * e) /\ Is(y, b * e, d * e)
    BY <1>1, <1>2, ScaleIs
  <2> QED
    BY <1>8, <2>1
<1>11. g \in Int /\ u \in Int /\ v \in Int
  BY <1>2, <1>8
<1>12. a <= b => u <= g /\ g <= v
  <2> SUFFICES ASSUME a <= b
               PROVE  u <= g /\ g <= v
    OBVIOUS
  <2>1. (b - a) * f >= 0 /\ (b - a) * (e - f) >= 0
    BY <1>2, Products
  <2>2. g - u = (b - a) * f /\ v - g = (b - a) * (e - f)
    BY <1>2, <1>8
  <2> QED
    BY <1>11, <2>1, <2>2
<1>13. b <= a => v <= g /\ g <= u
  <2> SUFFICES ASSUME b <= a
               PROVE  v <= g /\ g <= u
    OBVIOUS
  <2>1. (a - b) * f >= 0 /\ (a - b) * (e - f) >= 0
    BY <1>2, Products
  <2>2. u - g = (a - b) * f /\ g - v = (a - b) * (e - f)
    BY <1>2, <1>8
  <2> QED
    BY <1>11, <2>1, <2>2
<1>14. f = 0 => g = u
  BY <1>2, <1>8
<1>15. (Leq(x, y) <=> a <= b) /\ (Leq(y, x) <=> b <= a)
  BY <1>1, LeqIs
<1>16. (Leq(x, m) <=> u <= g) /\ (Leq(m, x) <=> g <= u) /\ (Same(m, x) <=> g = u)
  BY <1>9, <1>10, LeqIs
<1>17. (Leq(y, m) <=> v <= g) /\ (Leq(m, y) <=> g <= v)
  BY <1>9, <1>10, LeqIs
<1>18. m \in Finites
  BY <1>9 DEF Is
<1>19. m = Plus(Times(x, Difference(Whole(1), frac)), Times(y, frac))
  BY <1>3, <1>5, <1>7
<1> QED
  BY <1>12, <1>13, <1>14, <1>15, <1>16, <1>17, <1>18, <1>19

\* From 0 on, less than 1, and 0 for the first.
Weight(x, i) ==
    \E f, e \in Int : Is(x, f, e) /\ 0 <= f /\ f < e /\ (i = 0 => f = 0)

\* A position lies at or after its whole part and before the next.
LEMMA PositionAt ==
    ASSUME NEW n \in Nat, n > 0, NEW size \in Nat, size > 1, NEW i \in 0..(size - 1),
           NEW p, p = Position(n, size, i), NEW k, k = p[1] \div p[2]
    PROVE  /\ k \in Nat
           /\ Weight(Difference(p, Whole(k)), i)
           /\ i = 0 => k = 0
           /\ i = size - 1 => k = n - 1
<1>2. size - 1 \in Int /\ size - 1 > 0 /\ (n - 1) * i \in Int /\ (n - 1) * i >= 0
  <2>1. n - 1 \in Int /\ n - 1 >= 0 /\ i \in Int /\ i >= 0
    OBVIOUS
  <2> QED
    BY <2>1, Products
<1>3. PICK m, c \in Int : m = (n - 1) * i /\ c = size - 1
  BY <1>2
<1>4. Is(p, m, c)
  <2>1. p = Over(Whole(m), Whole(c))
    BY <1>3 DEF Position
  <2>2. Is(Whole(m), m, 1) /\ Is(Whole(c), c, 1)
    BY WholeFinite DEF Is
  <2> QED
    BY <1>2, <1>3, <2>1, <2>2, OverIs
<1>5. PICK u, v \in Int : u = p[1] /\ v = p[2]
  BY <1>4 DEF Is, Finites
<1>6. v > 0 /\ u * c = m * v /\ c > 0 /\ p \in Finites
  BY <1>4, <1>5 DEF Is, Finites
<1>7. u >= 0
  <2>1. u < 0 => c * u < 0
    BY <1>6, Products
  <2>2. m * v >= 0
    BY <1>2, <1>3, <1>6, Products
  <2>3. c * u = u * c
    OBVIOUS
  <2> QED
    BY <1>6, <2>1, <2>2, <2>3
<1>8. PICK f : k = u \div v /\ f = u - k * v
  BY <1>5
<1>9. k \in Int /\ u = v * k + (u % v) /\ 0 <= u % v /\ u % v < v /\ u % v \in Int
  BY <1>6, <1>8
<1>10. v * k = k * v /\ k * v \in Int
  BY <1>9
<1>11. f \in Int /\ 0 <= f /\ f < v
  BY <1>8, <1>9, <1>10
<1>12. k \in Nat
  <2>1. k <= -1 => (-1 - k) * v >= 0
    BY <1>6, <1>9, Products
  <2>2. (-1 - k) * v = -v - k * v
    BY <1>9
  <2> QED
    BY <1>6, <1>7, <1>8, <1>9, <1>10, <1>11, <2>1, <2>2
<1>13. Is(Difference(p, Whole(k)), f, v)
  <2>1. Is(p, u, v)
    BY <1>5, <1>6, SelfIs
  <2>2. Is(Whole(k), k * v, v)
    BY <1>6, <1>9, WholeIs
  <2> QED
    BY <1>8, <2>1, <2>2, DifferenceIs
<1>14. i = 0 => k = 0 /\ f = 0
  <2> SUFFICES ASSUME i = 0
               PROVE  k = 0 /\ f = 0
    OBVIOUS
  <2>1. u * c = 0
    BY <1>3, <1>6
  <2>2. u > 0 => u * c > 0
    BY <1>6, Products
  <2>3. u = 0 * v
    BY <1>6, <1>7, <2>1, <2>2
  <2>4. k = 0
    BY <1>6, <1>8, <2>3, Quotient
  <2> QED
    BY <1>6, <1>8, <2>3, <2>4
<1>15. i = size - 1 => k = n - 1
  <2> SUFFICES ASSUME i = size - 1
               PROVE  k = n - 1
    OBVIOUS
  <2>1. m = (n - 1) * c
    BY <1>3
  <2>2. ((n - 1) * c) * v = ((n - 1) * v) * c
    BY <1>6
  <2>3. u * c = ((n - 1) * v) * c
    BY <1>6, <2>1, <2>2
  <2>4. (n - 1) * v \in Int
    OBVIOUS
  <2>5. u = (n - 1) * v
    BY <1>6, <2>3, <2>4, Cancel
  <2> QED
    BY <1>6, <1>8, <2>5, Quotient
<1>16. Weight(Difference(p, Whole(k)), i)
  BY <1>11, <1>13, <1>14 DEF Weight
<1> QED
  BY <1>12, <1>14, <1>15, <1>16

\* A finite value between two of a spectrum is sound.
LEMMA SoundBetween ==
    ASSUME NEW d, NEW n, Regular(d, n), NEW k \in 1..n, NEW l \in 1..n, NEW x \in Finites,
           Leq(d[k].im, x), Leq(x, d[l].im)
    PROVE  Sound(d, x)
<1>1. DOMAIN d = 1..n
  BY SpectrumAt DEF Regular
<1>2. DOMAIN Impedances(d) = 1..n /\ Impedances(d)[k] = d[k].im /\ Impedances(d)[l] = d[l].im
  BY <1>1 DEF Impedances
<1>3. d[k].im \in ToSet(Impedances(d)) /\ d[l].im \in ToSet(Impedances(d))
  BY <1>2 DEF ToSet
<1>4. Finite(d[k].im) /\ Finite(d[l].im)
  BY DEF Regular
<1> QED
  BY <1>3, <1>4 DEF Sound, Hull, Leq

\* What rescale makes of a spectrum without singularities.
LEMMA Rescaled ==
    ASSUME NEW d, NEW n, Regular(d, n), n > 0, NEW size \in Nat, size > 1,
           NEW r \in Rescale(d, size)
    PROVE  /\ DOMAIN r = 1..size
           /\ \A k \in 1..size : Hull(d, r[k].im)
           /\ Same(r[1].im, d[1].im) /\ r[size] = d[n]
<1> DEFINE position(i) == Position(n, size, i)
           source(i) == position(i)[1] \div position(i)[2]
           frac(i) == Difference(position(i), Whole(source(i)))
           mix(a, b, f) == Plus(Times(a, Difference(Whole(1), f)), Times(b, f))
           between(a, b, f) == Point(mix(a.omega, b.omega, f), mix(a.im, b.im, f))
           point(i) == IF source(i) >= n - 1 THEN At(d, n - 1)
                       ELSE between(At(d, source(i)), At(d, source(i) + 1), frac(i))
<1>1. /\ n \in Nat /\ d \in [1..n -> Points] /\ Size(d) = n /\ Spectrum(d, n)
      /\ \A k \in 1..n : d[k].im \in Finites
  <2>1. Spectrum(d, n)
    BY DEF Regular
  <2>2. n \in Nat /\ d \in [1..n -> Points] /\ Size(d) = n
    BY <2>1, SpectrumAt
  <2>3. \A k \in 1..n : d[k].im \in Fvalues
    BY <2>2 DEF Points
  <2> QED
    BY <2>1, <2>2, <2>3, FvaluesParts DEF Regular
<1>2. r = [k \in 1..size |-> point(k - 1)]
  BY <1>1 DEF Rescale
<1>3. DOMAIN r = 1..size /\ \A k \in 1..size : r[k] = point(k - 1)
  <2> HIDE DEF point
  <2> QED
    BY <1>2
<1>4. ASSUME NEW i \in 0..(size - 1)
      PROVE  /\ Sound(d, point(i).im)
             /\ i = 0 => Same(point(i).im, d[1].im)
             /\ i = size - 1 => point(i) = d[n]
  <2>1. PICK p, k, g : p = position(i) /\ k = source(i) /\ g = frac(i)
    OBVIOUS
  <2>2. /\ k = p[1] \div p[2] /\ g = Difference(p, Whole(k))
        /\ p = Position(n, size, i)
    BY <2>1
  <2>3. point(i) = IF k >= n - 1 THEN At(d, n - 1) ELSE between(At(d, k), At(d, k + 1), g)
    BY <2>1
  <2> HIDE DEF point, position, source, frac
  <2>4. /\ k \in Nat /\ Weight(g, i)
        /\ i = 0 => k = 0
        /\ i = size - 1 => k = n - 1
    <3>1. n \in Nat
      BY <1>1
    <3>2. p = Position(n, size, i)
      BY <2>2
    <3>3. k = p[1] \div p[2]
      BY <2>2
    <3>4. g = Difference(p, Whole(k))
      BY <2>2
    <3> QED
      BY <3>1, <3>2, <3>3, <3>4, PositionAt
  <2>5. CASE k >= n - 1
    <3>1. point(i) = d[n] /\ n \in 1..n
      BY <1>1, <2>3, <2>5 DEF At
    <3>2. Sound(d, d[n].im)
      BY <1>1, <3>1, SoundSelf DEF Regular
    <3>3. i = 0 => n = 1
      BY <1>1, <2>4, <2>5
    <3>4. Same(d[n].im, d[n].im)
      BY <1>1, <3>1, LeqTotal
    <3> QED
      BY <3>1, <3>2, <3>3, <3>4
  <2>6. CASE k < n - 1
    <3>1. k + 1 \in 1..n /\ k + 2 \in 1..n /\ k + 1 + 1 = k + 2
      BY <1>1, <2>4, <2>6
    <3>2. At(d, k) = d[k + 1] /\ At(d, k + 1) = d[k + 2]
      BY <3>1 DEF At
    <3>3. ~(k >= n - 1)
      BY <1>1, <2>4, <2>6
    <3>4. point(i).im = mix(d[k + 1].im, d[k + 2].im, g)
      BY <2>3, <3>2, <3>3 DEF Point
    <3>5. PICK x, y \in Finites : x = d[k + 1].im /\ y = d[k + 2].im
      BY <1>1, <3>1
    <3>6. PICK f, e \in Int : Is(g, f, e) /\ 0 <= f /\ f < e /\ (i = 0 => f = 0)
      BY <2>4 DEF Weight
    <3>7. PICK m : m = mix(x, y, g)
      OBVIOUS
    <3>8. /\ m \in Finites
          /\ Leq(x, y) => Leq(x, m) /\ Leq(m, y)
          /\ Leq(y, x) => Leq(y, m) /\ Leq(m, x)
          /\ f = 0 => Same(m, x)
      <4>1. f <= e
        BY <3>6
      <4> QED
        BY <3>5, <3>6, <3>7, <4>1, MixBetween
    <3>9. point(i).im = m
      BY <3>4, <3>5, <3>7
    <3>10. Sound(d, m)
      <4>1. Leq(x, y) \/ Leq(y, x)
        BY <3>5, LeqTotal
      <4> QED
        BY <3>1, <3>5, <3>8, <4>1, SoundBetween
    <3>11. i = 0 => k + 1 = 1
      BY <2>4
    <3>12. i # size - 1
      BY <1>1, <2>4, <2>6
    <3> QED
      BY <3>5, <3>6, <3>8, <3>9, <3>10, <3>11, <3>12
  <2> QED
    BY <1>1, <2>4, <2>5, <2>6
<1> HIDE DEF point
<1>5. \A k \in 1..size : Hull(d, r[k].im)
  <2> TAKE k \in 1..size
  <2>1. k - 1 \in 0..(size - 1)
    OBVIOUS
  <2> QED
    BY <1>3, <1>4, <2>1 DEF Sound
<1>6. Same(r[1].im, d[1].im) /\ r[size] = d[n]
  <2>1. 1 \in 1..size /\ size \in 1..size /\ 0 \in 0..(size - 1) /\ size - 1 \in 0..(size - 1)
        /\ 1 - 1 = 0
    OBVIOUS
  <2>2. r[1] = point(0) /\ r[size] = point(size - 1)
    BY <1>3, <2>1
  <2> QED
    BY <1>4, <2>1, <2>2
<1> QED
  BY <1>3, <1>5, <1>6

\* A spectrum with no singular point is regular.
LEMMA NoneSingular ==
    ASSUME NEW d \in Seq(Points), Singular(d) = {}
    PROVE  Regular(d, Len(d)) /\ Spectrum(d, Len(d)) /\ Len(d) \in Nat
<1>1. PICK n : n = Len(d)
  OBVIOUS
<1>2. Spectrum(d, n) /\ n \in Nat
  BY <1>1, SpectrumOfSeq
<1>3. ASSUME NEW k \in 1..n
      PROVE  Finite(d[k].im)
  <2>1. k - 1 \in 0..(n - 1) /\ k - 1 + 1 = k
    BY <1>2
  <2>2. At(d, k - 1) = d[k] /\ k - 1 \in Indices(d)
    BY <1>2, <2>1, SpectrumAt DEF At
  <2> QED
    BY <2>2 DEF Singular
<1> QED
  BY <1>1, <1>2, <1>3 DEF Regular

\* rescale keeps what it makes between the impedances there were, as each new
\* point has its place between two old ones, or on the last.
THEOREM RescaledBetween == Spec => []RescaledBetweenPoints
<1>1. Init => RescaledBetweenPoints
  BY DEF Init, RescaledBetweenPoints
<1>2. ASSUME Ready, Next
      PROVE  RescaledBetweenPoints'
  <2> SUFFICES ASSUME call'.fn = "rescale", data' # Outside, call'.with > 1, Singular(data) = {}
               PROVE  /\ \A p \in ToSet(data') : Hull(data, p.im)
                      /\ Same(data'[1].im, data[1].im) /\ data'[call'.with] = Last(data)
    BY <1>2, Called DEF RescaledBetweenPoints
  <2>1. PICK n, size : n = Len(data) /\ size = call'.with
    OBVIOUS
  <2>2. size \in Nat /\ size > 1 /\ data' \in Rescale(data, size) /\ data \in Seq(Points)
    BY <1>2, <2>1, Called, InputsAssumption
  <2>3. Regular(data, n) /\ n \in Nat /\ DOMAIN data = 1..n
    BY <2>1, <2>2, NoneSingular, SpectrumOfSeq
  <2>4. n > 0
    <3>1. n = 0 => data' = Outside
      BY <2>1, <2>2 DEF Rescale, Size
    <3> QED
      BY <2>3, <3>1
  <2>5. /\ DOMAIN data' = 1..size
        /\ \A k \in 1..size : Hull(data, data'[k].im)
        /\ Same(data'[1].im, data[1].im) /\ data'[size] = data[n]
    BY <2>2, <2>3, <2>4, Rescaled
  <2>6. \A p \in ToSet(data') : Hull(data, p.im)
    BY <2>5 DEF ToSet
  <2> QED
    BY <2>1, <2>5, <2>6 DEF Last
<1>3. RescaledBetweenPoints /\ UNCHANGED vars => RescaledBetweenPoints'
  BY DEF RescaledBetweenPoints, vars
<1> QED
  BY <1>1, <1>2, <1>3, ReadyAlways, PTL DEF Spec

-------------------------------------------------------------------------------
(*****************************************************************************)
(* The nearest points                                                        *)
(*****************************************************************************)
\* How far a point is from an omega, and the first of the nearest of some.
Dist(d, w, k) == Magnitude(Difference(d[k].omega, w))
Nearest(d, w, side) ==
    IF side = {} THEN 0
    ELSE CHOOSE k \in side : \A l \in side : ~Less(Dist(d, w, l), Dist(d, w, k))
                                             /\ (l < k => Less(Dist(d, w, k), Dist(d, w, l)))

\* A distance is a number.
LEMMA DistFinite ==
    ASSUME NEW d, NEW n, Spectrum(d, n), NEW w \in Finites, NEW k \in 1..n
    PROVE  d[k].omega \in Finites /\ Dist(d, w, k) \in Finites
<1>1. d[k] \in Points
  BY SpectrumAt
<1>2. d[k].omega \in Finites
  BY <1>1 DEF Points
<1> QED
  BY <1>2, DifferenceFinite, MagnitudeFinite DEF Dist

\* There is a first of the nearest.
LEMMA NearestAt ==
    ASSUME NEW d, NEW n, Spectrum(d, n), NEW w \in Finites,
           NEW side \in SUBSET (1..n), side # {}
    PROVE  /\ Nearest(d, w, side) \in side
           /\ \A l \in side : Leq(Dist(d, w, Nearest(d, w, side)), Dist(d, w, l))
<1>0. n \in Nat
  BY SpectrumAt
<1>1. \A k \in side : Dist(d, w, k) \in Finites
  BY DistFinite
<1> DEFINE R == {p \in side \X side : Leq(Dist(d, w, p[1]), Dist(d, w, p[2]))}
<1>2. \A k, l \in side : <<k, l>> \in R <=> Leq(Dist(d, w, k), Dist(d, w, l))
  OBVIOUS
<1> HIDE DEF R
<1>3. OrdersAll(R, side)
  <2>1. \A x, y \in side : Leq(Dist(d, w, x), Dist(d, w, y)) \/ Leq(Dist(d, w, y), Dist(d, w, x))
    BY <1>1, LeqTotal
  <2>2. \A x, y, z \in side :
           Leq(Dist(d, w, x), Dist(d, w, y)) /\ Leq(Dist(d, w, y), Dist(d, w, z))
           => Leq(Dist(d, w, x), Dist(d, w, z))
    BY <1>1, LeqTransitive
  <2> QED
    BY <1>2, <2>1, <2>2 DEF OrdersAll
<1>4. IsFiniteSet(side)
  <2>1. IsFiniteSet(1..n)
    BY <1>0, FS_Interval
  <2> QED
    BY <2>1, FS_Subset
<1>5. PICK x \in side : \A y \in side : <<x, y>> \in R
  BY <1>3, <1>4, FirstExists
<1> DEFINE T == {k \in side : \A l \in side : Leq(Dist(d, w, k), Dist(d, w, l))}
<1>6. T \in SUBSET Nat /\ T # {}
  <2>1. x \in T
    BY <1>2, <1>5
  <2>2. T \in SUBSET side /\ side \in SUBSET Nat
    BY <1>0
  <2> HIDE DEF T
  <2> QED
    BY <2>1, <2>2
<1>7. PICK k \in T : \A l \in T : k <= l
  <2> HIDE DEF T
  <2> QED
    BY <1>6, LeastExists
<1>8. k \in side /\ \A l \in side : Leq(Dist(d, w, k), Dist(d, w, l))
  BY <1>7
<1>9. \A l \in side : l < k => Less(Dist(d, w, k), Dist(d, w, l))
  <2> SUFFICES ASSUME NEW l \in side, l < k, Leq(Dist(d, w, l), Dist(d, w, k))
               PROVE  FALSE
    BY DEF Leq
  <2>1. \A j \in side : Leq(Dist(d, w, l), Dist(d, w, j))
    BY <1>1, <1>8, LeqTransitive
  <2>2. l \in T
    BY <2>1
  <2>3. k <= l
    BY <1>7, <2>2
  <2>4. k \in Int /\ l \in Int
    BY <1>0, <1>8
  <2> QED
    BY <2>3, <2>4
<1> HIDE DEF T
<1> DEFINE Closest(j) == \A l \in side : ~Less(Dist(d, w, l), Dist(d, w, j))
                                     /\ (l < j => Less(Dist(d, w, j), Dist(d, w, l)))
<1>10. Closest(k)
  BY <1>8, <1>9 DEF Leq
<1>11. PICK j : j = CHOOSE i \in side : Closest(i)
  OBVIOUS
<1>12. Nearest(d, w, side) = j
  BY <1>11 DEF Nearest
<1>13. j \in side /\ Closest(j)
  <2> HIDE DEF Closest
  <2> QED
    BY <1>8, <1>10, <1>11
<1> QED
  BY <1>12, <1>13 DEF Leq

\* The nearest below is the highest of those below, the nearest above the lowest.
LEMMA NearestEnds ==
    ASSUME NEW d, NEW n, Spectrum(d, n), NEW w \in Finites, NEW k \in 1..n, NEW l \in 1..n,
           Leq(Dist(d, w, k), Dist(d, w, l))
    PROVE  /\ Less(d[k].omega, w) /\ Less(d[l].omega, w) => Leq(d[l].omega, d[k].omega)
           /\ Less(w, d[k].omega) /\ Less(w, d[l].omega) => Leq(d[k].omega, d[l].omega)
<1>1. PICK x, y \in Finites : x = d[k].omega /\ y = d[l].omega
  BY DistFinite
<1>2. PICK a, b, c, e \in Int : Is(x, a, e) /\ Is(y, b, e) /\ Is(w, c, e)
  BY <1>1, CommonDenominator
<1>3. Is(Difference(x, w), a - c, e) /\ Is(Difference(y, w), b - c, e)
  BY <1>2, DifferenceIs
<1>4. PICK f, g : f = (IF a - c < 0 THEN -(a - c) ELSE a - c)
                  /\ g = (IF b - c < 0 THEN -(b - c) ELSE b - c)
  OBVIOUS
<1>5. Is(Dist(d, w, k), f, e) /\ Is(Dist(d, w, l), g, e)
  BY <1>1, <1>3, <1>4, MagnitudeIs DEF Dist
<1>6. f <= g
  BY <1>5, LeqIs
<1>7. (Less(x, w) <=> a < c) /\ (Less(w, x) <=> c < a)
  <2>1. (Leq(w, x) <=> c <= a) /\ (Leq(x, w) <=> a <= c)
    BY <1>2, LeqIs
  <2> QED
    BY <2>1 DEF Leq
<1>8. (Less(y, w) <=> b < c) /\ (Less(w, y) <=> c < b)
  <2>1. (Leq(w, y) <=> c <= b) /\ (Leq(y, w) <=> b <= c)
    BY <1>2, LeqIs
  <2> QED
    BY <2>1 DEF Leq
<1>9. (Leq(x, y) <=> a <= b) /\ (Leq(y, x) <=> b <= a)
  BY <1>2, LeqIs
<1>10. (a < c /\ b < c => b <= a) /\ (c < a /\ c < b => a <= b)
  BY <1>4, <1>6
<1> QED
  BY <1>1, <1>7, <1>8, <1>9, <1>10

\* The neighbour below, or 0 if there is none; and the one above.
IsBelow(d, n, w, l) ==
    \/ l = 0 /\ \A k \in 1..n : ~Less(d[k].omega, w)
    \/ /\ l \in 1..n /\ Less(d[l].omega, w)
       /\ \A k \in 1..n : Less(d[k].omega, w) => Leq(d[k].omega, d[l].omega)
IsAbove(d, n, w, l) ==
    \/ l = 0 /\ \A k \in 1..n : ~Less(w, d[k].omega)
    \/ /\ l \in 1..n /\ Less(w, d[l].omega)
       /\ \A k \in 1..n : Less(w, d[k].omega) => Leq(d[l].omega, d[k].omega)

\* getLrClosest finds a point with the omega, or the neighbours on either side.
LEMMA LrAt ==
    ASSUME NEW d, NEW n, Spectrum(d, n), NEW w \in Finites, NEW lr, lr = LrClosest(d, w)
    PROVE  \/ \E k \in 1..n : FvalueEq(d[k].omega, w) /\ lr = <<k, k>>
           \/ /\ \A k \in 1..n : ~FvalueEq(d[k].omega, w)
              /\ \E l, r : lr = <<l, r>> /\ IsBelow(d, n, w, l) /\ IsAbove(d, n, w, r)
<1>1. DOMAIN d = 1..n /\ n \in Nat
  BY SpectrumAt
<1> DEFINE equal == {k \in DOMAIN d : FvalueEq(d[k].omega, w)}
           left == {k \in DOMAIN d : Less(d[k].omega, w)}
           right == {k \in DOMAIN d : Less(w, d[k].omega)}
           first == CHOOSE k \in equal : \A l \in equal : k <= l
<1>2. /\ equal # {} => lr = <<first, first>>
      /\ equal = {} => lr = <<Nearest(d, w, left), Nearest(d, w, right)>>
  BY DEF LrClosest, Nearest, Dist
<1>3. /\ equal \in SUBSET (1..n) /\ left \in SUBSET (1..n) /\ right \in SUBSET (1..n)
      /\ \A k \in 1..n : /\ k \in equal <=> FvalueEq(d[k].omega, w)
                         /\ k \in left <=> Less(d[k].omega, w)
                         /\ k \in right <=> Less(w, d[k].omega)
  BY <1>1
<1>4. equal # {} => first \in equal
  <2> SUFFICES ASSUME equal # {}
               PROVE  first \in equal
    OBVIOUS
  <2>1. equal \in SUBSET Nat
    BY <1>1
  <2> HIDE DEF equal
  <2>2. \E k \in equal : \A l \in equal : k <= l
    BY <2>1, LeastExists
  <2> QED
    BY <2>2
<1> HIDE DEF equal, left, right, first
<1>5. CASE equal # {}
  <2>1. first \in 1..n /\ FvalueEq(d[first].omega, w)
    BY <1>3, <1>4, <1>5
  <2> QED
    BY <1>2, <1>5, <2>1
<1>6. CASE equal = {}
  <2>1. PICK l, r : l = Nearest(d, w, left) /\ r = Nearest(d, w, right)
    OBVIOUS
  <2>2. IsBelow(d, n, w, l)
    <3>1. CASE left = {}
      <4>1. l = 0
        BY <2>1, <3>1 DEF Nearest
      <4> QED
        BY <1>3, <3>1, <4>1 DEF IsBelow
    <3>2. CASE left # {}
      <4>1. l \in left /\ \A k \in left : Leq(Dist(d, w, l), Dist(d, w, k))
        BY <1>3, <2>1, <3>2, NearestAt
      <4>2. l \in 1..n /\ Less(d[l].omega, w)
        BY <1>3, <4>1
      <4>3. \A k \in 1..n : Less(d[k].omega, w) => Leq(d[k].omega, d[l].omega)
        BY <1>3, <4>1, <4>2, NearestEnds
      <4> QED
        BY <4>2, <4>3 DEF IsBelow
    <3> QED
      BY <3>1, <3>2
  <2>3. IsAbove(d, n, w, r)
    <3>1. CASE right = {}
      <4>1. r = 0
        BY <2>1, <3>1 DEF Nearest
      <4> QED
        BY <1>3, <3>1, <4>1 DEF IsAbove
    <3>2. CASE right # {}
      <4>1. r \in right /\ \A k \in right : Leq(Dist(d, w, r), Dist(d, w, k))
        BY <1>3, <2>1, <3>2, NearestAt
      <4>2. r \in 1..n /\ Less(w, d[r].omega)
        BY <1>3, <4>1
      <4>3. \A k \in 1..n : Less(w, d[k].omega) => Leq(d[r].omega, d[k].omega)
        BY <1>3, <4>1, <4>2, NearestEnds
      <4> QED
        BY <4>2, <4>3 DEF IsAbove
    <3> QED
      BY <3>1, <3>2
  <2>4. \A k \in 1..n : ~FvalueEq(d[k].omega, w)
    BY <1>3, <1>6
  <2> QED
    BY <1>2, <1>6, <2>1, <2>2, <2>3, <2>4
<1> QED
  BY <1>5, <1>6

-------------------------------------------------------------------------------
(*****************************************************************************)
(* Lines                                                                     *)
(*****************************************************************************)
\* On the line between two points, at an omega between theirs, the value is
\* between theirs.
LEMMA InterpolateBetween ==
    ASSUME NEW a \in Finites, NEW b \in Finites, NEW w \in Finites,
           NEW x \in Finites, NEW y \in Finites, Less(a, w), Less(w, b)
    PROVE  LET slope == Over(Difference(y, x), Difference(b, a))
               p == Plus(x, Times(slope, Difference(w, a)))
           IN  /\ p \in Finites
               /\ Leq(x, y) => Leq(x, p) /\ Leq(p, y)
               /\ Leq(y, x) => Leq(y, p) /\ Leq(p, x)
<1>1. PICK m, n, k, d \in Int : Is(a, m, d) /\ Is(b, n, d) /\ Is(w, k, d)
  BY CommonDenominator
<1>2. PICK u, v, j, e \in Int : Is(x, u, e) /\ Is(y, v, e) /\ Is(x, j, e)
  BY CommonDenominator
<1>3. d > 0 /\ e > 0
  BY <1>1, <1>2 DEF Is
<1>4. m < k /\ k < n
  <2>1. (Leq(w, a) <=> k <= m) /\ (Leq(b, w) <=> n <= k)
    BY <1>1, LeqIs
  <2> QED
    BY <2>1 DEF Leq
<1>5. PICK s, t, f : s = Difference(y, x) /\ t = Difference(b, a) /\ f = Difference(w, a)
  OBVIOUS
<1>6. Is(s, v - u, e) /\ Is(t, n - m, d) /\ Is(f, k - m, d)
  BY <1>1, <1>2, <1>5, DifferenceIs
<1>7. PICK h \in Int : h = e * d /\ h > 0
  BY <1>3, Products
<1>8. PICK g, c \in Int : g = (v - u) * d /\ c = (n - m) * e
  OBVIOUS
<1>9. Is(s, g, h) /\ Is(t, c, h) /\ c > 0
  <2>1. Is(s, (v - u) * d, e * d)
    BY <1>3, <1>6, ScaleIs
  <2>2. Is(t, (n - m) * e, d * e)
    BY <1>3, <1>6, ScaleIs
  <2>3. d * e = e * d
    BY <1>3
  <2>4. n - m > 0
    BY <1>4
  <2>5. (n - m) * e > 0
    BY <1>3, <2>4, Products
  <2> QED
    BY <1>7, <1>8, <2>1, <2>2, <2>3, <2>5
<1>10. PICK slope : slope = Over(s, t)
  OBVIOUS
<1>11. Is(slope, g, c)
  BY <1>9, <1>10, OverIs
<1>12. PICK rise : rise = Times(slope, f)
  OBVIOUS
<1>13. Is(rise, g * (k - m), c * d)
  BY <1>6, <1>11, <1>12, TimesIs
<1>14. PICK z, q \in Int : z = (n - m) * d /\ q = (k - m) * d /\ 0 <= q /\ q <= z /\ z > 0
  <2>1. k - m >= 0 /\ n - k >= 0 /\ n - m > 0
    BY <1>4
  <2>2. (k - m) * d >= 0 /\ (n - k) * d >= 0 /\ (n - m) * d > 0
    BY <1>3, <2>1, Products
  <2>3. (n - m) * d = (k - m) * d + (n - k) * d
    BY <1>3
  <2> QED
    BY <2>2, <2>3
<1>15. g * (k - m) = (v - u) * q /\ c * d = e * z
  <2>1. ((v - u) * d) * (k - m) = (v - u) * ((k - m) * d)
    OBVIOUS
  <2>2. ((n - m) * e) * d = e * ((n - m) * d)
    OBVIOUS
  <2> QED
    BY <1>8, <1>14, <2>1, <2>2
<1>16. Is(x, u * z, e * z) /\ Is(y, v * z, e * z)
  BY <1>2, <1>14, ScaleIs
<1>17. PICK p : p = Plus(x, rise)
  OBVIOUS
<1>18. PICK i, xs, ys, o : i = u * z + (v - u) * q /\ xs = u * z /\ ys = v * z /\ o = e * z
  OBVIOUS
<1>19. Is(p, i, o) /\ Is(x, xs, o) /\ Is(y, ys, o)
  <2>1. Is(rise, (v - u) * q, e * z)
    BY <1>13, <1>15
  <2>2. Is(x, u * z, e * z)
    BY <1>16
  <2>3. Is(p, u * z + (v - u) * q, e * z)
    BY <1>17, <2>1, <2>2, PlusIs
  <2> QED
    BY <1>16, <1>18, <2>3
<1>20. i \in Int /\ xs \in Int /\ ys \in Int
  BY <1>14, <1>18
<1>21. u <= v => xs <= i /\ i <= ys
  <2> SUFFICES ASSUME u <= v
               PROVE  xs <= i /\ i <= ys
    OBVIOUS
  <2>1. (v - u) * q >= 0 /\ (v - u) * (z - q) >= 0
    BY <1>14, Products
  <2>2. i - xs = (v - u) * q /\ ys - i = (v - u) * (z - q)
    BY <1>14, <1>18
  <2> QED
    BY <1>20, <2>1, <2>2
<1>22. v <= u => ys <= i /\ i <= xs
  <2> SUFFICES ASSUME v <= u
               PROVE  ys <= i /\ i <= xs
    OBVIOUS
  <2>1. (u - v) * q >= 0 /\ (u - v) * (z - q) >= 0
    BY <1>14, Products
  <2>2. xs - i = (u - v) * q /\ i - ys = (u - v) * (z - q)
    BY <1>14, <1>18
  <2> QED
    BY <1>20, <2>1, <2>2
<1>23. (Leq(x, y) <=> u <= v) /\ (Leq(y, x) <=> v <= u)
  BY <1>2, LeqIs
<1>24. (Leq(x, p) <=> xs <= i) /\ (Leq(p, x) <=> i <= xs)
  BY <1>19, LeqIs
<1>25. (Leq(y, p) <=> ys <= i) /\ (Leq(p, y) <=> i <= ys)
  BY <1>19, LeqIs
<1>26. p \in Finites
  BY <1>19 DEF Is
<1>27. p = Plus(x, Times(Over(Difference(y, x), Difference(b, a)), Difference(w, a)))
  BY <1>5, <1>10, <1>12, <1>17
<1> QED
  BY <1>21, <1>22, <1>23, <1>24, <1>25, <1>26, <1>27

(***************************************************************************)
(* A line through points with one impedance has no slope                   *)
(***************************************************************************)
\* A sum, step by step.
LEMMA SumSteps ==
    ASSUME NEW n \in Nat, NEW values \in [1..n -> Finites], Len(values) = n
    PROVE  \E s \in [0..n -> Finites] :
             /\ s[0] = Whole(0) /\ \A k \in 1..n : s[k] = Plus(s[k - 1], values[k])
             /\ Sum(values) = s[n]
<1> DEFINE sum == CHOOSE sum : sum = [k \in 0..Len(values) |->
                    IF k = 0 THEN Whole(0) ELSE Plus(sum[k - 1], values[k])]
           G == [q \in Finites \X (1..n) |-> Plus(q[1], values[q[2]])]
<1>1. \A v \in Finites, p \in 1..n : G[<<v, p>>] = Plus(v, values[p]) /\ G[<<v, p>>] \in Finites
  <2> TAKE v \in Finites, p \in 1..n
  <2>1. values[p] \in Finites
    OBVIOUS
  <2>2. Plus(v, values[p]) \in Finites
    BY <2>1, PlusFinite
  <2> QED
    BY <2>2
<1> HIDE DEF G
<1>2. Whole(0) \in Finites
  BY WholeFinite
<1>3. PICK f : IsRecursion(f, Finites, Whole(0), n, G)
  BY <1>1, <1>2, RecursionExists
<1>4. /\ f \in [0..n -> Finites]
      /\ \A p \in 0..n : f[p] = IF p = 0 THEN Whole(0) ELSE G[<<f[p - 1], p>>]
  BY <1>3 DEF IsRecursion
<1>5. \A p \in 0..n : p # 0 => f[p - 1] \in Finites /\ p \in 1..n
  BY <1>4
<1>6. \A p \in 0..n : f[p] = IF p = 0 THEN Whole(0) ELSE Plus(f[p - 1], values[p])
  BY <1>1, <1>4, <1>5
<1>7. f = [k \in 0..Len(values) |-> IF k = 0 THEN Whole(0) ELSE Plus(f[k - 1], values[k])]
  BY <1>4, <1>6
<1>8. sum = [k \in 0..Len(values) |-> IF k = 0 THEN Whole(0) ELSE Plus(sum[k - 1], values[k])]
  BY <1>7
<1>9. Sum(values) = sum[n]
  BY DEF Sum
<1> HIDE DEF sum
<1>10. DOMAIN sum = 0..n
       /\ \A p \in 0..n : sum[p] = IF p = 0 THEN Whole(0) ELSE Plus(sum[p - 1], values[p])
  BY <1>8
<1> DEFINE S == {p \in 0..n : sum[p] = f[p]}
<1>11. 0 \in S
  BY <1>6, <1>10
<1>12. ASSUME NEW p \in 0..(n - 1), p \in S
       PROVE  p + 1 \in S
  <2>1. p + 1 \in 0..n /\ p + 1 # 0 /\ p + 1 - 1 = p
    OBVIOUS
  <2> QED
    BY <1>6, <1>10, <1>12, <2>1
<1>13. \A p \in 0..n : p \in S
  <2> HIDE DEF S
  <2> QED
    BY <1>11, <1>12, UpTo
<1>14. sum[n] = f[n]
  BY <1>13
<1>15. f[0] = Whole(0) /\ \A k \in 1..n : f[k] = Plus(f[k - 1], values[k])
  BY <1>6
<1> QED
  BY <1>4, <1>9, <1>14, <1>15

\* Whole numbers added up.
Sums(t, a, n) ==
    /\ t \in [0..n -> Int] /\ t[0] = 0
    /\ \A k \in 1..n : a[k] \in Int /\ t[k] = t[k - 1] + a[k]

\* There are such sums.
LEMMA SumsExist ==
    ASSUME NEW n \in Nat, NEW a \in [1..n -> Int]
    PROVE  \E t : Sums(t, a, n)
<1> DEFINE G == [q \in Int \X (1..n) |-> q[1] + a[q[2]]]
<1>1. \A v \in Int, p \in 1..n : G[<<v, p>>] = v + a[p] /\ G[<<v, p>>] \in Int
  OBVIOUS
<1> HIDE DEF G
<1>2. PICK V, zero : V = Int /\ zero = 0
  OBVIOUS
<1>3. zero \in V /\ \A v \in V, p \in 1..n : G[<<v, p>>] \in V
  <2>1. zero \in V
    BY <1>2
  <2>2. ASSUME NEW v \in V, NEW p \in 1..n
        PROVE  G[<<v, p>>] \in V
    <3>1. v \in Int
      BY <1>2, Zenon
    <3>2. G[<<v, p>>] \in Int
      BY <1>1, <3>1, Zenon
    <3> QED
      BY <1>2, <3>2, Zenon
  <2> QED
    BY <2>1, <2>2
<1>4. PICK f : IsRecursion(f, V, zero, n, G)
  BY <1>3, RecursionExists
<1>5. f \in [0..n -> V]
  BY <1>4 DEF IsRecursion
<1>6. \A p \in 0..n : f[p] = IF p = 0 THEN zero ELSE G[<<f[p - 1], p>>]
  BY <1>4 DEF IsRecursion
<1>7. f[0] = zero
  <2>1. 0 \in 0..n
    OBVIOUS
  <2> QED
    BY <1>6, <2>1, Zenon
<1>8. \A p \in 1..n : f[p] = G[<<f[p - 1], p>>] /\ f[p - 1] \in V
  BY <1>5, <1>6
<1>9. \A p \in 1..n : f[p] = f[p - 1] + a[p]
  BY <1>1, <1>2, <1>8, Zenon
<1> QED
  BY <1>2, <1>5, <1>7, <1>9 DEF Sums

\* Values over a common denominator.
AllOver(values, a, n, d) ==
    /\ values \in [1..n -> Finites] /\ Len(values) = n /\ d \in Int /\ d > 0
    /\ \A k \in 1..n : Is(values[k], a[k], d)

\* A sum over a common denominator is that of the numerators.
LEMMA SumIs ==
    ASSUME NEW n \in Nat, NEW values, NEW a, NEW t, NEW d,
           Sums(t, a, n), AllOver(values, a, n, d)
    PROVE  Is(Sum(values), t[n], d)
<1>1. PICK s \in [0..n -> Finites] :
         /\ s[0] = Whole(0) /\ \A k \in 1..n : s[k] = Plus(s[k - 1], values[k])
         /\ Sum(values) = s[n]
  BY SumSteps DEF AllOver
<1> DEFINE S == {p \in 0..n : Is(s[p], t[p], d)}
<1>2. 0 \in S
  <2>1. Is(Whole(0), 0 * d, d) /\ 0 * d = 0
    BY WholeIs DEF AllOver
  <2> QED
    BY <1>1, <2>1 DEF Sums
<1>3. ASSUME NEW p \in 0..(n - 1), p \in S
      PROVE  p + 1 \in S
  <2>1. p + 1 \in 0..n /\ p + 1 \in 1..n /\ p + 1 - 1 = p
    OBVIOUS
  <2>2. PICK x, y, b, c : x = s[p] /\ y = values[p + 1] /\ b = t[p] /\ c = a[p + 1]
    OBVIOUS
  <2>3. Is(x, b, d) /\ Is(y, c, d)
    BY <1>3, <2>1, <2>2 DEF AllOver
  <2>4. Is(Plus(x, y), b + c, d)
    BY <2>3, PlusIs
  <2>5. s[p + 1] = Plus(x, y) /\ t[p + 1] = b + c
    BY <1>1, <2>1, <2>2 DEF Sums
  <2> QED
    BY <2>1, <2>4, <2>5
<1>4. \A p \in 0..n : p \in S
  <2> HIDE DEF S
  <2> QED
    BY <1>2, <1>3, UpTo
<1> QED
  BY <1>1, <1>4

\* n times the sum of the squares is more than the square of the sum, unless
\* all are the same.
LEMMA SpreadOut ==
    ASSUME NEW n \in Nat, n > 0, NEW a \in [1..n -> Int],
           NEW t, Sums(t, a, n), NEW s, Sums(s, [k \in 1..n |-> a[k] * a[k]], n),
           NEW i \in 1..n, NEW j \in 1..n, a[i] # a[j]
    PROVE  n * s[n] - t[n] * t[n] > 0
<1> DEFINE M(k) == k * s[k] - t[k] * t[k]
           S == {p \in 0..(n - 1) :
                   /\ M(p + 1) >= 0
                   /\ M(p + 1) = 0 => \A l \in 1..(p + 1) : a[l] = a[1]
                   /\ M(p + 1) = 0 => t[p + 1] = (p + 1) * a[1]}
<1>1. \A k \in 1..n : a[k] \in Int /\ t[k] \in Int /\ s[k] \in Int /\ t[k - 1] \in Int /\ s[k - 1] \in Int
                      /\ t[k] = t[k - 1] + a[k] /\ s[k] = s[k - 1] + a[k] * a[k]
  <2> TAKE k \in 1..n
  <2>1. k \in 0..n /\ k - 1 \in 0..n
    OBVIOUS
  <2>2. t[k] \in Int /\ t[k - 1] \in Int /\ t[k] = t[k - 1] + a[k]
    BY <2>1 DEF Sums
  <2>3. s[k] \in Int /\ s[k - 1] \in Int
    BY <2>1 DEF Sums
  <2>4. s[k] = s[k - 1] + [l \in 1..n |-> a[l] * a[l]][k]
    BY DEF Sums
  <2> QED
    BY <2>2, <2>3, <2>4
<1>2. t[0] = 0 /\ s[0] = 0
  BY DEF Sums
<1>3. 0 \in S
  <2>1. 1 \in 1..n /\ 1 - 1 = 0
    OBVIOUS
  <2>2. t[1] = a[1] /\ s[1] = a[1] * a[1] /\ a[1] \in Int
    BY <1>1, <1>2, <2>1
  <2>3. M(1) = 0
    BY <2>2
  <2> HIDE DEF M
  <2>4. 0 + 1 = 1 /\ \A l \in 1..1 : l = 1
    OBVIOUS
  <2>5. t[1] = 1 * a[1]
    BY <2>2
  <2> QED
    BY <2>3, <2>4, <2>5
<1>4. ASSUME NEW p \in 0..(n - 1 - 1), p \in S
      PROVE  p + 1 \in S
  <2>1. PICK k \in Int : k = p + 1 /\ k \in 1..n /\ k + 1 \in 1..n /\ k + 1 - 1 = k /\ k > 0
    OBVIOUS
  <2>2. PICK x, T, Q, T1, Q1 \in Int : /\ x = a[k + 1] /\ T = t[k] /\ Q = s[k]
                                      /\ T1 = t[k + 1] /\ Q1 = s[k + 1]
    BY <1>1, <2>1
  <2>3. T1 = T + x /\ Q1 = Q + x * x
    <3>1. k + 1 \in 1..n /\ k + 1 - 1 = k
      BY <2>1
    <3>2. PICK l \in 1..n : l = k + 1 /\ l - 1 = k
      BY <3>1
    <3>3. t[l] = t[l - 1] + a[l] /\ s[l] = s[l - 1] + a[l] * a[l]
      BY <1>1
    <3>4. t[l] = t[k] + a[l] /\ s[l] = s[k] + a[l] * a[l]
      BY <3>2, <3>3, Zenon
    <3>5. x = a[l] /\ T = t[k] /\ Q = s[k] /\ T1 = t[l] /\ Q1 = s[l]
      BY <2>2, <3>2
    <3> QED
      BY <3>4, <3>5, Zenon
  <2>4. PICK m, m1, r \in Int : /\ m = k * Q - T * T /\ m1 = (k + 1) * Q1 - T1 * T1
                               /\ r = T - k * x
    <3>1. k * Q - T * T \in Int
      OBVIOUS
    <3>2. (k + 1) * Q1 - T1 * T1 \in Int
      OBVIOUS
    <3>3. T - k * x \in Int
      OBVIOUS
    <3> QED
      BY <3>1, <3>2, <3>3
  <2>5. k * m1 = (k + 1) * m + r * r
    <3>1. (k + 1) * (Q + x * x) - (T + x) * (T + x)
            = m + k * (x * x) + Q - 2 * (T * x)
      BY <2>4
    <3>2. m1 = m + k * (x * x) + Q - 2 * (T * x)
      BY <2>3, <2>4, <3>1
    <3>3. k * (m + k * (x * x) + Q - 2 * (T * x))
            = k * m + (k * x) * (k * x) + k * Q - 2 * (T * (k * x))
      OBVIOUS
    <3>4. r * r = T * T - 2 * (T * (k * x)) + (k * x) * (k * x)
      BY <2>4
    <3>5. (k + 1) * m = k * m + (k * Q - T * T)
      BY <2>4
    <3> QED
      BY <3>2, <3>3, <3>4, <3>5
  <2>6. M(k) = m /\ M(k + 1) = m1
    BY <2>2, <2>4
  <2>7. /\ m >= 0
        /\ m = 0 => \A l \in 1..k : a[l] = a[1]
        /\ m = 0 => T = k * a[1]
    <3> HIDE DEF M
    <3> QED
      BY <1>4, <2>1, <2>2, <2>6
  <2> HIDE DEF M
  <2>8. r * r >= 0 /\ (r # 0 => r * r > 0)
    <3>1. r < 0 => (-r) * (-r) > 0 /\ (-r) * (-r) = r * r
      OBVIOUS
    <3>2. r > 0 => r * r > 0
      OBVIOUS
    <3>3. r = 0 => r * r = 0
      OBVIOUS
    <3> QED
      BY <3>1, <3>2, <3>3
  <2>9. (k + 1) * m >= 0 /\ (m > 0 => (k + 1) * m > 0)
    BY <2>1, <2>7, Products
  <2>10. m1 >= 0 /\ (m1 = 0 => m = 0 /\ r = 0)
    <3>1. m1 < 0 => k * m1 < 0
      BY <2>1, Products
    <3>2. m1 = 0 => k * m1 = 0
      BY <2>1
    <3>3. PICK g, h, o \in Int : g = k * m1 /\ h = (k + 1) * m /\ o = r * r
      OBVIOUS
    <3>4. g = h + o /\ o >= 0 /\ (r # 0 => o > 0) /\ h >= 0 /\ (m > 0 => h > 0) /\ m >= 0
          /\ (m1 < 0 => g < 0) /\ (m1 = 0 => g = 0)
      BY <2>5, <2>7, <2>8, <2>9, <3>1, <3>2, <3>3
    <3> QED
      BY <3>4
  <2>11. ASSUME m1 = 0
         PROVE  x = a[1] /\ T1 = (k + 1) * a[1] /\ \A l \in 1..(k + 1) : a[l] = a[1]
    <3>1. PICK b \in Int : b = a[1]
      BY <1>1
    <3>2. k * b = k * x
      <4>1. m = 0 /\ r = 0
        BY <2>10, <2>11
      <4>2. T = k * b
        BY <2>7, <3>1, <4>1
      <4>3. T = k * x
        BY <2>4, <4>1
      <4> QED
        BY <4>2, <4>3
    <3>3. b * k = x * k
      BY <3>2
    <3>4. b = x
      BY <2>1, <3>3, Cancel
    <3>5. T1 = (k + 1) * b
      BY <2>1, <2>3, <2>7, <2>10, <2>11, <3>1, <3>4
    <3>6. \A l \in 1..(k + 1) : l = k + 1 \/ l \in 1..k
      OBVIOUS
    <3> QED
      BY <2>2, <2>7, <2>10, <2>11, <3>1, <3>4, <3>5, <3>6
  <2>12. k \in 0..(n - 1)
    BY <2>1
  <2>13. k \in S
    BY <2>2, <2>6, <2>10, <2>11, <2>12
  <2> QED
    BY <2>1, <2>13
<1>5. \A p \in 0..(n - 1) : p \in S
  <2>1. n - 1 \in Nat
    OBVIOUS
  <2> HIDE DEF S
  <2> QED
    BY <1>3, <1>4, <2>1, UpTo
<1>6. n - 1 \in S /\ n - 1 + 1 = n
  <2>1. n - 1 \in 0..(n - 1) /\ n - 1 + 1 = n
    OBVIOUS
  <2> HIDE DEF S
  <2> QED
    BY <1>5, <2>1
<1>7. M(n) >= 0 /\ (M(n) = 0 => \A l \in 1..n : a[l] = a[1])
  <2> HIDE DEF M
  <2> QED
    BY <1>6
<1>8. M(n) # 0
  <2> HIDE DEF M
  <2> QED
    BY <1>7
<1>9. M(n) \in Int
  <2>1. n \in 1..n
    OBVIOUS
  <2> QED
    BY <1>1, <2>1
<1> HIDE DEF S
<1>10. M(n) > 0
  <2> HIDE DEF M
  <2> QED
    BY <1>7, <1>8, <1>9
<1> QED
  BY <1>10

\* The line through points with one impedance, not all at one place, is flat.
LEMMA FlatLine ==
    ASSUME NEW n \in Nat, n > 0, NEW e \in [1..n -> Int], NEW c \in Finites,
           NEW i \in 1..n, NEW j \in 1..n, e[i] # e[j], NEW z \in Int,
           NEW xs, xs = [k \in 1..n |-> Whole(e[k])], NEW ys, ys = [k \in 1..n |-> c],
           NEW line, line = Regression(xs, ys), line # Refused
    PROVE  LET p == Plus(Times(line.slope, Whole(z)), line.offset)
           IN  p \in Finites /\ Same(p, c)
<1>1. /\ xs \in [1..n -> Finites] /\ Len(xs) = n /\ \A k \in 1..n : xs[k] = Whole(e[k])
      /\ ys \in [1..n -> Finites] /\ Len(ys) = n /\ \A k \in 1..n : ys[k] = c
  <2>1. \A k \in 1..n : Whole(e[k]) \in Finites
    BY WholeFinite
  <2> QED
    BY <2>1
<1>2. PICK N, sx, sy, xx, xy :
         /\ N = Whole(Len(xs)) /\ sx = Sum(xs) /\ sy = Sum(ys)
         /\ xx = [k \in DOMAIN xs |-> Times(xs[k], xs[k])]
         /\ xy = [k \in DOMAIN xs |-> Times(xs[k], ys[k])]
  OBVIOUS
<1>3. PICK mxx, mxy : /\ mxx = Difference(Times(N, Sum(xx)), Times(sx, sx))
                      /\ mxy = Difference(Times(N, Sum(xy)), Times(sx, sy))
  OBVIOUS
<1>4. PICK slope, offset : /\ slope = Over(mxy, mxx)
                           /\ offset = Over(Difference(sy, Times(slope, sx)), N)
  BY Zenon
<1>5. line.slope = slope /\ line.offset = offset
  <2>1. line = [slope |-> slope, offset |-> offset]
    BY <1>2, <1>3, <1>4, Zenon DEF Regression
  <2> QED
    BY <2>1
<1>6. PICK u, v \in Int : Is(c, u, v) /\ v > 0
  <2>1. Is(c, c[1], c[2])
    BY SelfIs
  <2> QED
    BY <2>1 DEF Is
<1>7. PICK t : Sums(t, e, n)
  BY SumsExist
<1>8. PICK q : Sums(q, [k \in 1..n |-> e[k] * e[k]], n)
  <2>1. [k \in 1..n |-> e[k] * e[k]] \in [1..n -> Int]
    OBVIOUS
  <2> QED
    BY <2>1, SumsExist
<1>9. PICK T, Q \in Int : T = t[n] /\ Q = q[n]
  BY <1>7, <1>8 DEF Sums
<1>10. PICK M \in Int : M = n * Q - T * T /\ M > 0
  <2>1. n * q[n] - t[n] * t[n] > 0
    BY <1>7, <1>8, SpreadOut
  <2>2. n * Q - T * T \in Int
    OBVIOUS
  <2> QED
    BY <1>9, <2>1, <2>2
<1>11. Is(N, n, 1)
  BY <1>1, <1>2, WholeFinite DEF Is
<1>12. \A k \in 1..n : Is(xs[k], e[k], 1)
  BY <1>1, WholeFinite DEF Is
<1>13. Is(sx, T, 1)
  <2>1. AllOver(xs, e, n, 1)
    BY <1>1, <1>12 DEF AllOver
  <2> QED
    BY <1>2, <1>7, <1>9, <2>1, SumIs
<1>14. Is(Sum(xx), Q, 1)
  <2>1. PICK a : a = [k \in 1..n |-> e[k] * e[k]]
    OBVIOUS
  <2>2. ASSUME NEW k \in 1..n
        PROVE  Is(xx[k], a[k], 1)
    <3>1. Is(Times(xs[k], xs[k]), e[k] * e[k], 1 * 1)
      BY <1>12, TimesIs
    <3>2. xx[k] = Times(xs[k], xs[k]) /\ a[k] = e[k] * e[k] /\ 1 * 1 = 1
      BY <1>1, <1>2, <2>1
    <3> QED
      BY <3>1, <3>2
  <2>3. \A k \in 1..n : xx[k] \in Finites
    BY <2>2 DEF Is
  <2>4. xx \in [1..n -> Finites] /\ Len(xx) = n
    BY <1>1, <1>2, <2>3
  <2>5. Sums(q, a, n)
    BY <1>8, <2>1
  <2>6. AllOver(xx, a, n, 1)
    BY <2>2, <2>4 DEF AllOver
  <2> QED
    BY <1>9, <2>5, <2>6, SumIs
<1>15. Is(Sum(xy), T * u, v)
  <2>1. PICK a, s : a = [k \in 1..n |-> e[k] * u] /\ s = [k \in 0..n |-> t[k] * u]
    OBVIOUS
  <2>2. ASSUME NEW k \in 1..n
        PROVE  Is(xy[k], a[k], v)
    <3>1. Is(Times(xs[k], ys[k]), e[k] * u, 1 * v)
      BY <1>1, <1>6, <1>12, TimesIs
    <3>2. xy[k] = Times(xs[k], ys[k]) /\ a[k] = e[k] * u /\ 1 * v = v
      BY <1>1, <1>2, <2>1
    <3> QED
      BY <3>1, <3>2
  <2>3. \A k \in 1..n : xy[k] \in Finites
    BY <2>2 DEF Is
  <2>4. xy \in [1..n -> Finites] /\ Len(xy) = n
    BY <1>1, <1>2, <2>3
  <2>5. Sums(s, a, n)
    <3>0. t \in [0..n -> Int] /\ t[0] = 0 /\ \A k \in 1..n : t[k] = t[k - 1] + e[k]
      BY <1>7 DEF Sums
    <3>1. s \in [0..n -> Int] /\ s[0] = 0
      <4>1. \A k \in 0..n : t[k] \in Int
        BY <3>0
      <4>2. \A k \in 0..n : t[k] * u \in Int
        BY <4>1
      <4>3. 0 \in 0..n /\ 0 * u = 0
        OBVIOUS
      <4>4. s[0] = t[0] * u
        BY <2>1, <4>3
      <4> QED
        BY <2>1, <3>0, <4>2, <4>3, <4>4
    <3>2. ASSUME NEW k \in 1..n
          PROVE  a[k] \in Int /\ s[k] = s[k - 1] + a[k]
      <4>1. k \in 0..n /\ k - 1 \in 0..n
        OBVIOUS
      <4>0. t[k] \in Int /\ t[k - 1] \in Int /\ e[k] \in Int
        BY <3>0, <4>1
      <4>2. PICK f, g, h \in Int : f = t[k] /\ g = t[k - 1] /\ h = e[k] /\ f = g + h
        BY <3>0, <4>0
      <4>3. s[k] = f * u /\ s[k - 1] = g * u /\ a[k] = h * u
        BY <2>1, <4>1, <4>2
      <4>4. f * u = g * u + h * u /\ h * u \in Int
        BY <4>2
      <4> QED
        BY <4>3, <4>4
    <3> QED
      BY <3>1, <3>2 DEF Sums
  <2>6. s[n] = T * u
    BY <1>9, <2>1
  <2>7. AllOver(xy, a, n, v)
    BY <1>6, <2>2, <2>4 DEF AllOver
  <2> QED
    BY <2>5, <2>6, <2>7, SumIs
<1>16. Is(sy, n * u, v)
  <2>1. PICK a, s : a = [k \in 1..n |-> u] /\ s = [k \in 0..n |-> k * u]
    OBVIOUS
  <2>2. \A k \in 1..n : Is(ys[k], a[k], v)
    BY <1>1, <1>6, <2>1
  <2>3. Sums(s, a, n)
    <3>1. s \in [0..n -> Int] /\ s[0] = 0
      BY <2>1
    <3>2. ASSUME NEW k \in 1..n
          PROVE  a[k] \in Int /\ s[k] = s[k - 1] + a[k]
      <4>1. k \in 0..n /\ k - 1 \in 0..n
        OBVIOUS
      <4>2. s[k] = k * u /\ s[k - 1] = (k - 1) * u /\ a[k] = u
        BY <2>1, <4>1
      <4>3. k * u = (k - 1) * u + u
        OBVIOUS
      <4> QED
        BY <4>2, <4>3
    <3> QED
      BY <3>1, <3>2 DEF Sums
  <2>4. s[n] = n * u
    BY <2>1
  <2>5. AllOver(ys, a, n, v)
    BY <1>1, <1>6, <2>2 DEF AllOver
  <2> QED
    BY <1>2, <2>3, <2>4, <2>5, SumIs
<1>17. Is(mxx, M, 1)
  <2>1. Is(Times(N, Sum(xx)), n * Q, 1 * 1) /\ Is(Times(sx, sx), T * T, 1 * 1)
    BY <1>11, <1>13, <1>14, TimesIs
  <2>2. Is(mxx, n * Q - T * T, 1 * 1)
    BY <1>3, <2>1, DifferenceIs
  <2> QED
    BY <1>10, <2>2
<1>18. Is(mxy, 0, v)
  <2>1. Is(Times(N, Sum(xy)), n * (T * u), 1 * v) /\ Is(Times(sx, sy), T * (n * u), 1 * v)
    BY <1>11, <1>13, <1>15, <1>16, TimesIs
  <2>2. Is(mxy, n * (T * u) - T * (n * u), 1 * v)
    BY <1>3, <2>1, DifferenceIs
  <2>3. n * (T * u) - T * (n * u) = 0 /\ 1 * v = v
    OBVIOUS
  <2> QED
    BY <2>2, <2>3
<1>19. Is(slope, 0, M)
  <2>1. Is(mxy, 0, 1)
    BY <1>18, ZeroIs
  <2> QED
    BY <1>4, <1>10, <1>17, <2>1, OverIs
<1>20. Is(Times(slope, sx), 0, v) /\ Is(Times(slope, Whole(z)), 0, n)
  <2>1. Is(Whole(z), z, 1)
    BY WholeFinite DEF Is
  <2>2. Is(Times(slope, sx), 0 * T, M * 1) /\ Is(Times(slope, Whole(z)), 0 * z, M * 1)
    BY <1>13, <1>19, <2>1, TimesIs
  <2>3. 0 * T = 0 /\ 0 * z = 0
    OBVIOUS
  <2>4. Is(Times(slope, sx), 0, M * 1) /\ Is(Times(slope, Whole(z)), 0, M * 1)
    BY <2>2, <2>3
  <2> QED
    BY <1>6, <2>4, ZeroIs
<1>21. Is(offset, n * u, n * v)
  <2>1. Is(Difference(sy, Times(slope, sx)), n * u - 0, v)
    BY <1>16, <1>20, DifferenceIs
  <2>2. n * u - 0 = n * u
    OBVIOUS
  <2>3. Is(Difference(sy, Times(slope, sx)), n * u, v)
    BY <2>1, <2>2
  <2>4. Is(N, n * v, v)
    <3>1. Is(N, n * v, 1 * v)
      BY <1>6, <1>11, ScaleIs
    <3> QED
      BY <3>1
  <2>5. n * v > 0
    BY <1>6, Products
  <2> QED
    BY <1>4, <2>3, <2>4, <2>5, OverIs
<1>22. PICK p, a, d : p = Plus(Times(line.slope, Whole(z)), line.offset) /\ a = n * u /\ d = n * v
  OBVIOUS
<1>23. Is(p, a, d)
  <2>1. n * v > 0 /\ n * v \in Int
    BY <1>6, Products
  <2>2. Is(Times(slope, Whole(z)), 0, d)
    BY <1>20, <1>22, <2>1, ZeroIs
  <2>3. Is(offset, a, d)
    BY <1>21, <1>22
  <2>4. Is(p, 0 + a, d)
    BY <1>5, <1>22, <2>2, <2>3, PlusIs
  <2>5. 0 + a = a
    BY <1>22
  <2> QED
    BY <2>4, <2>5
<1>24. Is(c, a, d)
  <2>1. Is(c, u * n, v * n)
    BY <1>6, ScaleIs
  <2>2. u * n = n * u /\ v * n = n * v
    OBVIOUS
  <2> QED
    BY <1>22, <2>1, <2>2
<1>25. Same(p, c) /\ p \in Finites
  <2>1. Same(p, c) <=> a = a
    BY <1>23, <1>24, LeqIs
  <2> QED
    BY <1>23, <2>1 DEF Is
<1> QED
  BY <1>22, <1>25

-------------------------------------------------------------------------------
(*****************************************************************************)
(* Fitting                                                                   *)
(*****************************************************************************)
\* A power of ten has a logarithm, and no other has the same.
LEMMA LogAt ==
    ASSUME NEW w, \E e \in 0..9 : w = Whole(10 ^ e)
    PROVE  /\ w \in Finites
           /\ \E k \in 0..9 : Log10(w) = Whole(k) /\ Whole(10 ^ k) = w
<1>1. PICK e \in 0..9 : w = Whole(10 ^ e)
  OBVIOUS
<1>2. 10 ^ e \in Int
  OBVIOUS
<1>3. w \in Finites
  BY <1>1, <1>2, WholeFinite
<1>4. PICK k : k = CHOOSE j \in 0..9 : Whole(10 ^ j) = w
  OBVIOUS
<1>5. k \in 0..9 /\ Whole(10 ^ k) = w
  <2>1. \E j \in 0..9 : Whole(10 ^ j) = w
    BY <1>1
  <2> QED
    BY <1>4, <2>1, Zenon
<1>6. Log10(w) = Whole(k)
  BY <1>4 DEF Log10
<1> QED
  BY <1>3, <1>5, <1>6

\* Six points of a constant spectrum, or all, are not at one omega.
LEMMA NotAtOne ==
    ASSUME NEW d, NEW n \in Nat, DOMAIN d = 1..n, Len(d) = n, n > 0, Constant(d),
           NEW m, m = (IF n < 6 THEN n ELSE 6),
           NEW order, \A k \in 1..n : order[k] \in 1..n,
           \A k, l \in 1..n : order[k] = order[l] => k = l
    PROVE  \E i \in 1..m : d[order[i]].omega # d[order[1]].omega
<1> SUFFICES ASSUME \A i \in 1..m : d[order[i]].omega = d[order[1]].omega
             PROVE  FALSE
  OBVIOUS
<1>1. m \in 1..n /\ m \in Nat /\ 1 \in 1..n /\ \A i \in 1..m : i \in 1..n
  OBVIOUS
<1>2. PICK there : there = {l \in DOMAIN d : d[l].omega = d[order[1]].omega}
  OBVIOUS
<1>3. Cardinality(there) < 6 /\ Cardinality(there) < n
  <2>1. order[1] \in DOMAIN d
    BY <1>1
  <2> QED
    BY <1>2, <2>1 DEF Constant
<1>4. IsFiniteSet(there) /\ Cardinality(there) \in Nat
  <2>1. IsFiniteSet(1..n) /\ there \in SUBSET (1..n)
    BY <1>2, FS_Interval
  <2>2. IsFiniteSet(there)
    BY <2>1, FS_Subset
  <2> QED
    BY <2>2, FS_CardinalityType
<1>5. IsFiniteSet(1..m) /\ Cardinality(1..m) = m
  <2>1. 1 \in Int /\ m \in Int
    BY <1>1
  <2>2. IsFiniteSet(1..m) /\ Cardinality(1..m) = IF 1 > m THEN 0 ELSE m - 1 + 1
    BY <2>1, FS_Interval
  <2> QED
    BY <1>1, <2>2
<1>6. Cardinality(there) < Cardinality(1..m)
  BY <1>1, <1>3, <1>4, <1>5
<1>7. PICK f : f = [i \in 1..m |-> order[i]]
  OBVIOUS
<1>8. f \in [1..m -> there]
  <2>1. \A i \in 1..m : order[i] \in there
    BY <1>1, <1>2
  <2> QED
    BY <1>7, <2>1
<1>9. PICK k, l \in 1..m : k # l /\ f[k] = f[l]
  BY <1>4, <1>5, <1>6, <1>8, FS_PigeonHole
<1>10. order[k] = order[l] /\ k \in 1..n /\ l \in 1..n
  BY <1>1, <1>7, <1>9
<1> QED
  BY <1>9, <1>10

\* An extrapolated point lies on some line, at the frequency asked for.
LEMMA ExtrapolatedOnALine ==
    ASSUME NEW d, NEW n \in Nat, Size(d) = n, n >= 3, DOMAIN d = 1..n,
           NEW w, NEW point \in LinearExtrapoloatePoint(w, d)
    PROVE  \E line : point = OnLine(w, line)
<1>1. PICK m : m = IF n < 6 THEN n ELSE 6
  OBVIOUS
<1>2. PICK dists : dists = [k \in 1..n |-> Magnitude(Difference(d[k].omega, w))]
  OBVIOUS
<1>3. PICK sorted \in Orders(dists) :
         point = OnLine(w, Regression([k \in 1..m |-> Log10(d[sorted[k]].omega)],
                                      [k \in 1..m |-> d[sorted[k]].im]))
  <2>1. dists = [k \in DOMAIN d |-> Magnitude(Difference(d[k].omega, w))]
    BY <1>2
  <2>2. ~(Size(d) < 3)
    OBVIOUS
  <2> QED
    BY <1>1, <2>1, <2>2 DEF LinearExtrapoloatePoint
<1> QED
  BY <1>3

\* A constant spectrum goes on as it is.
LEMMA ExtrapolatedFlat ==
    ASSUME NEW d, NEW n, Regular(d, n), n >= 3, Decades(d), Constant(d),
           NEW w, \E e \in 0..9 : w = Whole(10 ^ e),
           NEW point \in LinearExtrapoloatePoint(w, d), point # Refused
    PROVE  point.omega = w /\ Same(point.im, d[1].im)
<1>1. /\ n \in Nat /\ d \in [1..n -> Points] /\ Size(d) = n /\ DOMAIN d = 1..n /\ Len(d) = n
      /\ Spectrum(d, n) /\ w \in Finites
  <2>1. Spectrum(d, n)
    BY DEF Regular
  <2> QED
    BY <2>1, SpectrumAt, LogAt DEF Size
<1>2. PICK m : m = IF n < 6 THEN n ELSE 6
  OBVIOUS
<1>3. m \in Nat /\ m > 0 /\ \A k \in 1..m : k \in 1..n
  BY <1>1, <1>2
<1>4. PICK dists : dists = [k \in 1..n |-> Magnitude(Difference(d[k].omega, w))]
  OBVIOUS
<1>5. PICK sorted \in Orders(dists) :
         point = OnLine(w, Regression([k \in 1..m |-> Log10(d[sorted[k]].omega)],
                                      [k \in 1..m |-> d[sorted[k]].im]))
  <2>1. dists = [k \in DOMAIN d |-> Magnitude(Difference(d[k].omega, w))]
    BY <1>1, <1>4
  <2>2. ~(Size(d) < 3)
    BY <1>1
  <2> QED
    BY <1>1, <1>2, <2>1, <2>2 DEF LinearExtrapoloatePoint
<1>6. dists \in Seq(Finites) /\ Len(dists) = n
  <2>1. \A k \in 1..n : Magnitude(Difference(d[k].omega, w)) \in Finites
    BY <1>1, DistFinite DEF Dist
  <2> QED
    BY <1>1, <1>4, <2>1
<1>7. /\ \A k \in 1..n : sorted[k] \in 1..n
      /\ \A k, l \in 1..n : sorted[k] = sorted[l] => k = l
  <2>1. dists \in Seq(Finites)
    BY <1>6
  <2>2. /\ \A k \in 1..Len(dists) : sorted[k] \in 1..Len(dists)
        /\ \A k, l \in 1..Len(dists) : sorted[k] = sorted[l] => k = l
    BY <2>1, OrdersSort
  <2> QED
    BY <1>6, <2>2
<1>8. PICK i \in 1..m : d[sorted[i]].omega # d[sorted[1]].omega
  BY <1>1, <1>2, <1>7, NotAtOne
<1>9. \A k \in 1..n : \E e \in 0..9 : Log10(d[k].omega) = Whole(e) /\ Whole(10 ^ e) = d[k].omega
  BY <1>1, LogAt DEF Decades
<1> DEFINE log(k) == CHOOSE j \in 0..9 : /\ Log10(d[sorted[k]].omega) = Whole(j)
                                          /\ Whole(10 ^ j) = d[sorted[k]].omega
           e == [k \in 1..m |-> log(k)]
<1>10. \A k \in 1..m : /\ log(k) \in 0..9 /\ Log10(d[sorted[k]].omega) = Whole(log(k))
                       /\ Whole(10 ^ log(k)) = d[sorted[k]].omega
  <2> TAKE k \in 1..m
  <2>1. sorted[k] \in 1..n
    BY <1>3, <1>7
  <2>2. \E j \in 0..9 : Log10(d[sorted[k]].omega) = Whole(j) /\ Whole(10 ^ j) = d[sorted[k]].omega
    BY <1>9, <2>1
  <2> QED
    BY <2>2, Zenon
<1> HIDE DEF log
<1>11. e \in [1..m -> Int] /\ \A k \in 1..m : e[k] = log(k)
  <2>1. \A k \in 1..m : log(k) \in Int
    BY <1>10
  <2> QED
    BY <2>1
<1> HIDE DEF e
<1>12. e[i] # e[1] /\ 1 \in 1..m
  <2>1. 1 \in 1..m
    BY <1>3
  <2> QED
    BY <1>8, <1>10, <1>11, <2>1
<1>13. PICK xs, ys : xs = [k \in 1..m |-> Whole(e[k])] /\ ys = [k \in 1..m |-> d[1].im]
  OBVIOUS
<1>14. xs = [k \in 1..m |-> Log10(d[sorted[k]].omega)]
  BY <1>10, <1>11, <1>13
<1>15. ys = [k \in 1..m |-> d[sorted[k]].im]
  <2>1. \A k \in 1..m : d[sorted[k]].im = d[1].im
    <3> TAKE k \in 1..m
    <3>1. sorted[k] \in DOMAIN d /\ 1 \in DOMAIN d
      BY <1>1, <1>3, <1>7
    <3> QED
      BY <3>1 DEF Constant
  <2> QED
    BY <1>13, <2>1
<1>16. PICK line : line = Regression(xs, ys)
  OBVIOUS
<1>17. point = OnLine(w, line)
  BY <1>5, <1>14, <1>15, <1>16
<1>18. line # Refused
  BY <1>17 DEF OnLine
<1>19. PICK z \in Int : Log10(w) = Whole(z)
  <2>1. PICK k \in 0..9 : Log10(w) = Whole(k)
    BY LogAt
  <2>2. k \in Int
    OBVIOUS
  <2> QED
    BY <2>1, <2>2
<1>20. PICK p : p = Plus(Times(line.slope, Whole(z)), line.offset)
  OBVIOUS
<1>21. point.omega = w /\ point.im = p
  BY <1>17, <1>18, <1>19, <1>20 DEF OnLine, Point
<1>22. d[1].im \in Finites
  <2>1. 1 \in 1..n
    BY <1>1
  <2>2. d[1].im \in Fvalues /\ Finite(d[1].im)
    BY <1>1, <2>1 DEF Points, Regular
  <2> QED
    BY <2>2, FvaluesParts
<1>23. PICK c : c = d[1].im
  OBVIOUS
<1>24. c \in Finites /\ ys = [k \in 1..m |-> c]
  BY <1>13, <1>22, <1>23
<1>25. Same(p, c)
  <2>1. xs = [k \in 1..m |-> Whole(e[k])]
    BY <1>13
  <2>2. c \in Finites
    BY <1>24
  <2>3. ys = [k \in 1..m |-> c]
    BY <1>24
  <2>4. e[i] # e[1] /\ 1 \in 1..m
    BY <1>12
  <2> QED
    BY <1>3, <1>11, <1>16, <1>18, <1>20, <2>1, <2>2, <2>3, <2>4, FlatLine
<1> QED
  BY <1>21, <1>23, <1>25

\* The points at an omega, those up to it and from it on, and the nearest of these.
Close(d, w) == {q \in ToSet(d) : FvalueEq(q.omega, w)}
UpToIt(d, w) == {q \in ToSet(d) : ~Less(w, q.omega)}
FromIt(d, w) == {q \in ToSet(d) : ~Less(q.omega, w)}
Lows(d, w) == {q \in UpToIt(d, w) : \A r \in UpToIt(d, w) : ~Less(q.omega, r.omega)}
Highs(d, w) == {q \in FromIt(d, w) : \A r \in FromIt(d, w) : ~Less(r.omega, q.omega)}

\* The neighbours that getLrClosest finds are these.
LEMMA SidesAt ==
    ASSUME NEW d, NEW n, Spectrum(d, n), NEW w \in Finites,
           \A k \in 1..n : ~FvalueEq(d[k].omega, w),
           NEW l, IsBelow(d, n, w, l), NEW r, IsAbove(d, n, w, r)
    PROVE  /\ Close(d, w) = {}
           /\ l = 0 => UpToIt(d, w) = {}
           /\ r = 0 => FromIt(d, w) = {}
           /\ l # 0 => l \in 1..n /\ d[l] \in Lows(d, w) /\ Less(d[l].omega, w)
           /\ r # 0 => r \in 1..n /\ d[r] \in Highs(d, w) /\ Less(w, d[r].omega)
           /\ n > 0 => l # 0 \/ r # 0
<1>1. DOMAIN d = 1..n /\ n \in Nat
  BY SpectrumAt
<1>2. /\ \A k \in 1..n : d[k] \in ToSet(d)
      /\ \A q \in ToSet(d) : \E k \in 1..n : q = d[k]
  BY <1>1 DEF ToSet
<1>3. \A k \in 1..n : d[k].omega \in Finites
  BY DistFinite
<1>4. \A k \in 1..n : Less(d[k].omega, w) \/ Less(w, d[k].omega)
  BY <1>3, SameIsEqual, LeqTotal
<1>5. \A k \in 1..n : ~(Less(d[k].omega, w) /\ Less(w, d[k].omega))
  BY <1>3, LeqTotal DEF Leq
<1>6. Close(d, w) = {}
  BY <1>2 DEF Close
<1>7. \A k \in 1..n : d[k] \in UpToIt(d, w) <=> Less(d[k].omega, w)
  BY <1>2, <1>4, <1>5 DEF UpToIt
<1>8. \A k \in 1..n : d[k] \in FromIt(d, w) <=> Less(w, d[k].omega)
  BY <1>2, <1>4, <1>5 DEF FromIt
<1>9. /\ \A q \in UpToIt(d, w) : \E k \in 1..n : q = d[k] /\ Less(d[k].omega, w)
      /\ \A q \in FromIt(d, w) : \E k \in 1..n : q = d[k] /\ Less(w, d[k].omega)
  BY <1>2, <1>7, <1>8 DEF UpToIt, FromIt
<1>10. l = 0 => UpToIt(d, w) = {}
  BY <1>9 DEF IsBelow
<1>11. r = 0 => FromIt(d, w) = {}
  BY <1>9 DEF IsAbove
<1>12. ASSUME l # 0
       PROVE  l \in 1..n /\ d[l] \in Lows(d, w) /\ Less(d[l].omega, w)
  <2>1. /\ l \in 1..n /\ Less(d[l].omega, w)
        /\ \A k \in 1..n : Less(d[k].omega, w) => Leq(d[k].omega, d[l].omega)
    BY <1>12 DEF IsBelow
  <2>2. d[l] \in UpToIt(d, w)
    BY <1>7, <2>1
  <2>3. \A q \in UpToIt(d, w) : ~Less(d[l].omega, q.omega)
    BY <1>9, <2>1 DEF Leq
  <2> QED
    BY <2>1, <2>2, <2>3 DEF Lows
<1>13. ASSUME r # 0
       PROVE  r \in 1..n /\ d[r] \in Highs(d, w) /\ Less(w, d[r].omega)
  <2>1. /\ r \in 1..n /\ Less(w, d[r].omega)
        /\ \A k \in 1..n : Less(w, d[k].omega) => Leq(d[r].omega, d[k].omega)
    BY <1>13 DEF IsAbove
  <2>2. d[r] \in FromIt(d, w)
    BY <1>8, <2>1
  <2>3. \A q \in FromIt(d, w) : ~Less(q.omega, d[r].omega)
    BY <1>9, <2>1 DEF Leq
  <2> QED
    BY <2>1, <2>2, <2>3 DEF Highs
<1>14. n > 0 => l # 0 \/ r # 0
  <2> SUFFICES ASSUME n > 0, l = 0, r = 0
               PROVE  FALSE
    OBVIOUS
  <2>1. 1 \in 1..n
    BY <1>1
  <2> QED
    BY <1>1, <1>4, <2>1 DEF IsBelow, IsAbove
<1> QED
  BY <1>6, <1>10, <1>11, <1>12, <1>13, <1>14

\* A point that is fitted lies between others, and continues what is constant.
Between(p, S) == \E q, r \in S : ~Less(p.im, q.im) /\ ~Less(r.im, p.im)
Fitted(d, p, linear) ==
    /\ \/ Close(d, p.omega) # {} \/ (UpToIt(d, p.omega) # {} /\ FromIt(d, p.omega) # {})
       \/ ~linear \/ Len(d) < 3
         => Between(p, IF Close(d, p.omega) # {} THEN Close(d, p.omega)
                       ELSE Lows(d, p.omega) \cup Highs(d, p.omega))
    /\ Constant(d) => Same(p.im, d[1].im)

\* A point with the impedance of a neighbour is fitted.
LEMMA FittedEnd ==
    ASSUME NEW d, NEW n, Regular(d, n), n > 0, NEW w, NEW linear, NEW k \in 1..n,
           d[k] \in (IF Close(d, w) # {} THEN Close(d, w) ELSE Lows(d, w) \cup Highs(d, w))
    PROVE  Fitted(d, Point(w, d[k].im), linear)
<1>1. PICK p : p = Point(w, d[k].im)
  OBVIOUS
<1>2. p.omega = w /\ p.im = d[k].im
  BY <1>1 DEF Point
<1>3. DOMAIN d = 1..n /\ n \in Nat /\ d[k] \in Points /\ 1 \in 1..n
  BY SpectrumAt DEF Regular
<1>4. d[k].im \in Finites
  <2>1. d[k].im \in Fvalues /\ Finite(d[k].im)
    BY <1>3 DEF Points, Regular
  <2> QED
    BY <2>1, FvaluesParts
<1>5. ~Less(p.im, d[k].im) /\ ~Less(d[k].im, p.im) /\ Same(p.im, d[k].im)
  BY <1>2, <1>4, LeqTotal
<1>6. Constant(d) => Same(p.im, d[1].im)
  <2>1. Constant(d) => d[k].im = d[1].im
    BY <1>3 DEF Constant
  <2> QED
    BY <1>5, <2>1
<1>7. Between(p, IF Close(d, w) # {} THEN Close(d, w) ELSE Lows(d, w) \cup Highs(d, w))
  BY <1>5 DEF Between
<1> QED
  BY <1>1, <1>2, <1>6, <1>7 DEF Fitted

\* fitToFrequencies, for one omega.
LEMMA FitPointFitted ==
    ASSUME NEW d, NEW n, Regular(d, n), n > 0, Decades(d), NEW linear \in BOOLEAN,
           NEW w, \E e \in 0..9 : w = Whole(10 ^ e), NEW p \in FitPoint(w, d, linear)
    PROVE  Fitted(d, p, linear)
<1>1. /\ Spectrum(d, n) /\ n \in Nat /\ d \in [1..n -> Points] /\ DOMAIN d = 1..n /\ Len(d) = n
      /\ w \in Finites
  BY SpectrumAt, LogAt DEF Regular, Spectrum
<1>2. \A k \in 1..n : d[k].im \in Finites /\ d[k].omega \in Finites
  <2> TAKE k \in 1..n
  <2>1. d[k].im \in Fvalues /\ Finite(d[k].im) /\ d[k].omega \in Finites
    BY <1>1 DEF Points, Regular
  <2> QED
    BY <2>1, FvaluesParts
<1>3. PICK lr : lr = LrClosest(d, w)
  OBVIOUS
<1>4. p \in FitBetween(w, d, lr, linear)
  BY <1>3 DEF FitPoint
<1>5. CASE \E k \in 1..n : FvalueEq(d[k].omega, w) /\ lr = <<k, k>>
  <2>1. PICK k \in 1..n : FvalueEq(d[k].omega, w) /\ lr = <<k, k>>
    BY <1>5
  <2>2. p = Point(w, d[k].im)
    BY <1>4, <2>1 DEF FitBetween
  <2>3. d[k] \in Close(d, w)
    BY <1>1, <2>1 DEF Close, ToSet
  <2> QED
    BY <2>2, <2>3, FittedEnd
<1>6. CASE /\ \A k \in 1..n : ~FvalueEq(d[k].omega, w)
           /\ \E l, r : lr = <<l, r>> /\ IsBelow(d, n, w, l) /\ IsAbove(d, n, w, r)
  <2>1. PICK l, r : lr = <<l, r>> /\ IsBelow(d, n, w, l) /\ IsAbove(d, n, w, r)
    BY <1>6
  <2>2. lr[1] = l /\ lr[2] = r
    BY <2>1
  <2>3. /\ Close(d, w) = {}
        /\ l = 0 => UpToIt(d, w) = {}
        /\ r = 0 => FromIt(d, w) = {}
        /\ l # 0 => l \in 1..n /\ d[l] \in Lows(d, w) /\ Less(d[l].omega, w)
        /\ r # 0 => r \in 1..n /\ d[r] \in Highs(d, w) /\ Less(w, d[r].omega)
        /\ n > 0 => l # 0 \/ r # 0
    BY <1>1, <1>6, <2>1, SidesAt
  <2>4. CASE l # 0 /\ r # 0
    <3>1. l # r
      BY <1>1, <1>2, <2>3, <2>4, LeqTotal DEF Leq
    <3>2. 0 \notin {l, r}
      BY <2>4
    <3>3. p = LinearInterpolatePoint(w, d[l], d[r])
      BY <1>4, <2>2, <3>1, <3>2 DEF FitBetween
    <3>4. PICK a, b, x, y \in Finites : /\ a = d[l].omega /\ b = d[r].omega
                                        /\ x = d[l].im /\ y = d[r].im
      BY <1>2, <2>3, <2>4
    <3>5. PICK v : v = Plus(x, Times(Over(Difference(y, x), Difference(b, a)), Difference(w, a)))
      OBVIOUS
    <3>6. p.omega = w /\ p.im = v
      BY <3>3, <3>4, <3>5 DEF LinearInterpolatePoint, Point
    <3>7. Less(a, w) /\ Less(w, b)
      BY <2>3, <2>4, <3>4
    <3>8. /\ v \in Finites
          /\ Leq(x, y) => Leq(x, v) /\ Leq(v, y)
          /\ Leq(y, x) => Leq(y, v) /\ Leq(v, x)
      BY <1>1, <3>5, <3>7, InterpolateBetween
    <3>9. Leq(x, y) \/ Leq(y, x)
      BY LeqTotal
    <3>10. Between(p, Lows(d, w) \cup Highs(d, w))
      <4>1. d[l] \in Lows(d, w) \cup Highs(d, w) /\ d[r] \in Lows(d, w) \cup Highs(d, w)
        BY <2>3, <2>4
      <4> QED
        BY <3>4, <3>6, <3>8, <3>9, <4>1 DEF Between, Leq
    <3>11. Constant(d) => Same(p.im, d[1].im)
      <4> SUFFICES ASSUME Constant(d)
                   PROVE  Same(p.im, d[1].im)
        OBVIOUS
      <4>1. x = d[1].im /\ y = d[1].im
        BY <1>1, <2>3, <2>4, <3>4 DEF Constant
      <4>2. Leq(x, v) /\ Leq(v, x)
        BY <3>8, <3>9, <4>1
      <4>3. Same(v, x)
        BY <3>8, <4>2, LeqTotal
      <4> QED
        BY <3>6, <4>1, <4>3
    <3> QED
      BY <2>3, <3>6, <3>10, <3>11 DEF Fitted
  <2>5. CASE l = 0 \/ r = 0
    <3>1. l # r /\ 0 \in {l, r}
      BY <1>1, <2>3, <2>5
    <3>2. PICK k : k = IF l = 0 THEN r ELSE l
      OBVIOUS
    <3>3. k \in 1..n /\ d[k] \in Lows(d, w) \cup Highs(d, w)
      BY <2>3, <3>1, <3>2
    <3>4. PICK end : end = Point(w, d[k].im)
      OBVIOUS
    <3>5. /\ ~linear => p = end
          /\ linear => \E point \in LinearExtrapoloatePoint(w, d) : p = UnlessRefused(point, end)
      BY <1>4, <2>2, <3>1, <3>2, <3>4 DEF FitBetween
    <3>6. Fitted(d, end, linear)
      BY <2>3, <3>3, <3>4, FittedEnd
    <3>7. CASE p = end
      BY <3>6, <3>7
    <3>8. CASE p # end
      <4>1. PICK point \in LinearExtrapoloatePoint(w, d) : p = UnlessRefused(point, end)
        BY <3>5, <3>8
      <4>2. linear /\ point # Refused /\ p = point
        BY <3>5, <3>8, <4>1 DEF UnlessRefused
      <4>3. n >= 3
        <5>1. Size(d) < 3 => point = Refused
          BY <4>1 DEF LinearExtrapoloatePoint
        <5> QED
          BY <1>1, <4>2, <5>1 DEF Size
      <4>4. p.omega = w
        <5>1. n \in Nat /\ Size(d) = n /\ DOMAIN d = 1..n
          BY <1>1 DEF Size
        <5>2. PICK line : point = OnLine(w, line)
          BY <4>1, <4>3, <5>1, ExtrapolatedOnALine
        <5> QED
          BY <4>2, <5>2 DEF OnLine, Point
      <4>5. Constant(d) => Same(p.im, d[1].im)
        BY <4>1, <4>2, <4>3, ExtrapolatedFlat
      <4>6. ~(\/ Close(d, w) # {} \/ (UpToIt(d, w) # {} /\ FromIt(d, w) # {})
              \/ ~linear \/ Len(d) < 3)
        BY <1>1, <2>3, <2>5, <4>2, <4>3
      <4> QED
        BY <4>4, <4>5, <4>6 DEF Fitted
    <3> QED
      BY <3>7, <3>8
  <2> QED
    BY <2>4, <2>5
<1> QED
  BY <1>1, <1>3, <1>5, <1>6, LrAt

\* fitToFrequencies takes points close by, or draws lines between the nearest
\* on either side, however the points are ordered; and a line through points
\* with one impedance has no slope.
THEOREM FittedBetween == Spec => []FittedBetweenPoints
<1>1. Init => FittedBetweenPoints
  BY DEF Init, FittedBetweenPoints
<1>2. ASSUME Ready, Next
      PROVE  FittedBetweenPoints'
  <2> SUFFICES ASSUME call'.fn = "fitToFrequencies", data' # Outside, Singular(data) = {},
                      NEW p \in ToSet(data')
               PROVE  Fitted(data, p, call'.with.linear)
    BY <1>2, Called DEF FittedBetweenPoints, Fitted, Between, Close, UpToIt, FromIt, Lows, Highs
  <2>1. data \in Seq(Points) /\ Decades(data)
    BY <1>2, Called
  <2>2. PICK omegas \in Frequencies, linear \in BOOLEAN :
           call'.with.linear = linear /\ data' \in FitToFrequencies(omegas, data, linear)
    BY <1>2, Called
  <2>3. Regular(data, Len(data)) /\ Len(data) \in Nat
    BY <2>1, NoneSingular
  <2>4. /\ DOMAIN data' = DOMAIN omegas
        /\ \A k \in DOMAIN omegas : data'[k] \in FitPoint(omegas[k], data, linear)
        /\ ~(data = <<>> /\ omegas # <<>>)
    BY <2>2 DEF FitToFrequencies
  <2>5. PICK k \in DOMAIN omegas : p = data'[k]
    BY <2>4 DEF ToSet
  <2>6. omegas \in Seq({Whole(10 ^ e) : e \in 0..9})
    BY InputsAssumption
  <2>7. omegas[k] \in {Whole(10 ^ e) : e \in 0..9}
    BY <2>6
  <2>8. \E e \in 0..9 : omegas[k] = Whole(10 ^ e)
    BY <2>7
  <2>9. Len(data) > 0
    <3>1. omegas # <<>>
      BY <2>5
    <3> QED
      BY <2>1, <2>4, <3>1
  <2>10. p \in FitPoint(omegas[k], data, linear)
    BY <2>4, <2>5
  <2>11. Fitted(data, p, linear)
    BY <2>1, <2>3, <2>8, <2>9, <2>10, FitPointFitted
  <2> QED
    BY <2>2, <2>11
<1>3. FittedBetweenPoints /\ UNCHANGED vars => FittedBetweenPoints'
  BY DEF FittedBetweenPoints, vars
<1> QED
  BY <1>1, <1>2, <1>3, ReadyAlways, PTL DEF Spec

\* rescale and fitToFrequencies are the two that resample a spectrum: neither
\* invents an impedance.
THEOREM ResampledBetween == Spec => []ResampledBetweenPoints
<1>1. RescaledBetweenPoints /\ FittedBetweenPoints => ResampledBetweenPoints
  BY DEF ResampledBetweenPoints
<1> QED
  BY <1>1, RescaledBetween, FittedBetween, PTL
===============================================================================
