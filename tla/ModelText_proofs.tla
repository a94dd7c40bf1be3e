-------------------------- MODULE ModelText_proofs --------------------------
(***************************************************************************)
(* Proofs about the parser of circuit strings: every element of a string   *)
(* is in the circuit once, and a string whose brackets match ends well.    *)
(***************************************************************************)
EXTENDS ModelTextProps, Induction, SequenceTheorems

\* The least of some numbers.
LEMMA MinIn ==
    ASSUME NEW S \in SUBSET Nat, S # {}
    PROVE  Min(S) \in S /\ \A k \in S : Min(S) <= k
BY LeastExists, Zenon DEF Min

\* A number that is no more than the others is the least.
LEMMA MinIs ==
    ASSUME NEW S \in SUBSET Nat, NEW m \in S, \A k \in S : m <= k
    PROVE  Min(S) = m
<1>1. Min(S) \in S /\ \A k \in S : Min(S) <= k
  BY MinIn
<1>2. Min(S) <= m /\ m <= Min(S) /\ Min(S) \in Nat
  BY <1>1
<1> QED
  BY <1>2
\* The strings, among them, for the provers, those the parser writes.
Text ==
    STRING \cup {"0", "1", "2", "3", "4", "5", "6", "7", "8", "9", ":",
                 "parallel", "serial", "r", "c"}
-----------------------------------------------------------------------------
(***************************************************************************)
(* How often a character occurs.                                           *)
(***************************************************************************)
LEMMA OccFinite ==
    ASSUME NEW s, NEW ch, NEW a \in Int, NEW b \in Int
    PROVE  IsFiniteSet({i \in a .. b : At(s, i) = ch})
<1>1. IsFiniteSet(a .. b)
  BY FS_Interval
<1> QED
  BY <1>1, FS_Subset

\* It is a number.
LEMMA OccNat ==
    ASSUME NEW s, NEW ch, NEW a \in Int, NEW b \in Int
    PROVE  Occurrences(s, ch, a, b) \in Nat
BY OccFinite, FS_CardinalityType DEF Occurrences

\* None before the first character.
LEMMA OccNone ==
    ASSUME NEW s, NEW ch, NEW a \in Int
    PROVE  Occurrences(s, ch, a, a - 1) = 0
<1>1. {i \in a .. (a - 1) : At(s, i) = ch} = {}
  OBVIOUS
<1> QED
  BY <1>1, FS_EmptySet DEF Occurrences

\* One more if the next character is it.
LEMMA OccStep ==
    ASSUME NEW s, NEW ch, NEW a \in Int, NEW b \in Int, a <= b
    PROVE  Occurrences(s, ch, a, b)
             = Occurrences(s, ch, a, b - 1) + (IF At(s, b) = ch THEN 1 ELSE 0)
<1> DEFINE S == {i \in a .. (b - 1) : At(s, i) = ch}
           T == {i \in a .. b : At(s, i) = ch}
<1>1. IsFiniteSet(S) /\ Cardinality(S) \in Nat
  BY OccFinite, FS_CardinalityType, b - 1 \in Int
<1>2. a .. b = a .. (b - 1) \cup {b} /\ b \notin a .. (b - 1)
  OBVIOUS
<1>3. CASE At(s, b) = ch
  <2>1. T = S \cup {b} /\ b \notin S
    BY <1>2, <1>3, Zenon
  <2> QED
    BY <1>1, <1>3, <2>1, FS_AddElement DEF Occurrences
<1>4. CASE At(s, b) # ch
  <2>1. T = S
    BY <1>2, <1>4, Zenon
  <2>2. Cardinality(T) = Cardinality(S) + 0
    BY <1>1, <2>1
  <2> QED
    BY <1>4, <2>2 DEF Occurrences
<1> QED
  BY <1>3, <1>4

\* What occurs up to b is what occurs before a and what occurs from a on.
LEMMA OccSplit ==
    ASSUME NEW s, NEW ch, NEW a \in Nat, NEW b \in Int, a <= b + 1
    PROVE  Occurrences(s, ch, 0, b)
             = Occurrences(s, ch, 0, a - 1) + Occurrences(s, ch, a, b)
<1> DEFINE S == {n \in Nat : Occurrences(s, ch, 0, a - 1 + n)
                   = Occurrences(s, ch, 0, a - 1) + Occurrences(s, ch, a, a - 1 + n)}
<1>1. 0 \in S
  <2>1. a - 1 + 0 = a - 1 /\ a - 1 \in Int
    OBVIOUS
  <2>2. Occurrences(s, ch, a, a - 1) = 0
    BY OccNone
  <2>3. Occurrences(s, ch, 0, a - 1) \in Nat
    BY <2>1, 0 \in Int, OccNat
  <2>4. Occurrences(s, ch, 0, a - 1) = Occurrences(s, ch, 0, a - 1) + 0
    BY <2>3
  <2> QED
    BY <2>1, <2>2, <2>4
<1>2. ASSUME NEW n \in Nat, n \in S
      PROVE  n + 1 \in S
  <2>1. PICK b1 \in Int : b1 = a - 1 + (n + 1) /\ b1 - 1 = a - 1 + n /\ a <= b1 /\ 0 <= b1
    OBVIOUS
  <2>2. PICK x, y, z : x = Occurrences(s, ch, 0, b1 - 1) /\ y = Occurrences(s, ch, 0, a - 1)
                         /\ z = Occurrences(s, ch, a, b1 - 1)
    OBVIOUS
  <2>3. x = y + z
    BY <1>2, <2>1, <2>2
  <2>4. x \in Nat /\ y \in Nat /\ z \in Nat
    BY <2>2, OccNat, b1 - 1 \in Int, a - 1 \in Int, a \in Int, 0 \in Int
  <2>5. Occurrences(s, ch, 0, b1) = x + (IF At(s, b1) = ch THEN 1 ELSE 0)
    BY <2>1, <2>2, OccStep
  <2>6. Occurrences(s, ch, a, b1) = z + (IF At(s, b1) = ch THEN 1 ELSE 0)
    BY <2>1, <2>2, OccStep
  <2>7. Occurrences(s, ch, 0, b1) = y + Occurrences(s, ch, a, b1)
    BY <2>3, <2>4, <2>5, <2>6
  <2> QED
    BY <2>1, <2>2, <2>7
<1>3. b + 1 - a \in Nat /\ a - 1 + (b + 1 - a) = b
  OBVIOUS
<1>4. b + 1 - a \in S
  <2> HIDE DEF S
  <2> QED
    BY <1>1, <1>2, <1>3, SetInduction
<1> QED
  BY <1>3, <1>4

\* It occurs if one of the places has it.
LEMMA OccSome ==
    ASSUME NEW s, NEW ch, NEW a \in Int, NEW b \in Int, NEW i \in a .. b, At(s, i) = ch
    PROVE  Occurrences(s, ch, a, b) >= 1
<1> DEFINE S == {j \in a .. b : At(s, j) = ch}
<1>0. IsFiniteSet(S)
  BY OccFinite
<1>1. IsFiniteSet(S) /\ Cardinality(S) \in Nat
  BY <1>0, FS_CardinalityType
<1>2. i \in S
  OBVIOUS
<1>3. Cardinality(S) # 0
  BY <1>1, <1>2, FS_EmptySet
<1> QED
  BY <1>1, <1>3 DEF Occurrences
-----------------------------------------------------------------------------
(***************************************************************************)
(* How many brackets are open.                                             *)
(***************************************************************************)
Kind(ch, open, close) == IF ch = open THEN 1 ELSE IF ch = close THEN -1 ELSE 0

\* None before the first character.
LEMMA DepthFirst ==
    ASSUME NEW s, NEW open, NEW close
    PROVE  Depth(s, open, close, 0) = 0
<1>1. Occurrences(s, open, 0, 0 - 1) = 0 /\ Occurrences(s, close, 0, 0 - 1) = 0
  BY OccNone
<1> QED
  BY <1>1 DEF Depth

\* A depth goes up at an open character, down at a closed one, and is kept by the rest.
LEMMA DepthStep ==
    ASSUME NEW s, NEW open, NEW close, open # close, NEW i \in Nat
    PROVE  /\ Depth(s, open, close, i) \in Int
           /\ Depth(s, open, close, i + 1)
                = Depth(s, open, close, i) + Kind(At(s, i), open, close)
<1>1. i - 1 \in Int /\ i + 1 - 1 = i /\ 0 <= i
  OBVIOUS
<1>2. PICK o, c : o = Occurrences(s, open, 0, i - 1) /\ c = Occurrences(s, close, 0, i - 1)
  OBVIOUS
<1>3. o \in Nat /\ c \in Nat
  BY <1>1, <1>2, 0 \in Int, OccNat
<1>4. Occurrences(s, open, 0, i) = o + (IF At(s, i) = open THEN 1 ELSE 0)
  BY <1>1, <1>2, OccStep
<1>5. Occurrences(s, close, 0, i) = c + (IF At(s, i) = close THEN 1 ELSE 0)
  BY <1>1, <1>2, OccStep
<1>6. Depth(s, open, close, i) = o - c
  BY <1>2 DEF Depth
<1>7. Depth(s, open, close, i + 1)
        = (o + (IF At(s, i) = open THEN 1 ELSE 0)) - (c + (IF At(s, i) = close THEN 1 ELSE 0))
  BY <1>1, <1>4, <1>5 DEF Depth
<1> QED
  BY <1>3, <1>6, <1>7 DEF Kind

\* A depth is an integer at every place.
LEMMA DepthInt ==
    ASSUME NEW s, NEW open, NEW close, NEW i \in Nat
    PROVE  Depth(s, open, close, i) \in Int
<1>1. i - 1 \in Int /\ 0 \in Int
  OBVIOUS
<1>2. Occurrences(s, open, 0, i - 1) \in Nat /\ Occurrences(s, close, 0, i - 1) \in Nat
  BY <1>1, OccNat
<1> QED
  BY <1>2 DEF Depth

\* n characters of s from a on are those of t from b on.
Same(s, a, t, b, n) == \A i \in 0 .. n - 1 : At(s, a + i) = At(t, b + i)

\* As many open and close there.
Nests(s, a, t, b, n, open, close) ==
    \A i \in 0 .. n : Depth(s, open, close, a + i) - Depth(s, open, close, a)
                        = Depth(t, open, close, b + i) - Depth(t, open, close, b)

\* The same text opens and closes the same brackets.
LEMMA DepthShift ==
    ASSUME NEW s, NEW t, NEW open, NEW close, open # close,
           NEW a \in Nat, NEW b \in Nat, NEW n \in Nat, Same(s, a, t, b, n)
    PROVE  Nests(s, a, t, b, n, open, close)
<1> DEFINE d(u, i) == Depth(u, open, close, i)
           S == {i \in Nat : i <= n => d(s, a + i) - d(s, a) = d(t, b + i) - d(t, b)}
<1>1. 0 \in S
  <2>1. a + 0 = a /\ b + 0 = b
    OBVIOUS
  <2>2. d(s, a) \in Int /\ d(t, b) \in Int
    BY DepthInt
  <2>3. d(s, a) - d(s, a) = 0 /\ d(t, b) - d(t, b) = 0
    BY <2>2
  <2> QED
    BY <2>1, <2>3
<1>2. ASSUME NEW i \in Nat, i \in S
      PROVE  i + 1 \in S
  <2> SUFFICES ASSUME i + 1 <= n
               PROVE  d(s, a + (i + 1)) - d(s, a) = d(t, b + (i + 1)) - d(t, b)
    OBVIOUS
  <2>1. a + i \in Nat /\ b + i \in Nat /\ a + (i + 1) = a + i + 1 /\ b + (i + 1) = b + i + 1
    OBVIOUS
  <2>2. d(s, a + i + 1) = d(s, a + i) + Kind(At(s, a + i), open, close)
    BY <2>1, DepthStep
  <2>3. d(t, b + i + 1) = d(t, b + i) + Kind(At(t, b + i), open, close)
    BY <2>1, DepthStep
  <2>4. At(s, a + i) = At(t, b + i)
    BY DEF Same
  <2>5. d(s, a + i) - d(s, a) = d(t, b + i) - d(t, b)
    BY <1>2
  <2>6. Kind(At(s, a + i), open, close) \in Int
    BY DEF Kind
  <2>7. d(s, a) \in Int /\ d(s, a + i) \in Int /\ d(t, b) \in Int /\ d(t, b + i) \in Int
    BY <2>1, DepthInt
  <2> HIDE DEF d
  <2>8. PICK k \in Int : k = Kind(At(s, a + i), open, close)
    BY <2>6
  <2>9. d(s, a + i + 1) = d(s, a + i) + k /\ d(t, b + i + 1) = d(t, b + i) + k
    BY <2>2, <2>3, <2>4, <2>8
  <2>10. d(s, a + i + 1) - d(s, a) = d(t, b + i + 1) - d(t, b)
    BY <2>5, <2>7, <2>9
  <2> QED
    BY <2>1, <2>10
<1>3. \A i \in Nat : i \in S
  <2> HIDE DEF S
  <2> QED
    BY <1>1, <1>2, SetInduction
<1> QED
  BY <1>3 DEF Nests
-----------------------------------------------------------------------------
(***************************************************************************)
(* Braces.                                                                 *)
(***************************************************************************)
LEMMA DigitsSet ==
    ToSet(Digits) = {"0", "1", "2", "3", "4", "5", "6", "7", "8", "9"}
<1>1. DOMAIN Digits = 1 .. 10
  BY DEF Digits
<1>2. \A k \in 1 .. 10 :
        Digits[k] \in {"0", "1", "2", "3", "4", "5", "6", "7", "8", "9"}
  BY DEF Digits
<1>3. /\ Digits[1] = "0" /\ Digits[2] = "1" /\ Digits[3] = "2" /\ Digits[4] = "3"
      /\ Digits[5] = "4" /\ Digits[6] = "5" /\ Digits[7] = "6" /\ Digits[8] = "7"
      /\ Digits[9] = "8" /\ Digits[10] = "9"
  BY DEF Digits
<1> HIDE DEF Digits
<1>4. /\ ToSet(Digits) \in SUBSET {"0", "1", "2", "3", "4", "5", "6", "7", "8", "9"}
  BY <1>1, <1>2 DEF ToSet
<1>5. \A ch \in {"0", "1", "2", "3", "4", "5", "6", "7", "8", "9"} :
        \E k \in 1 .. 10 : Digits[k] = ch
  BY <1>3
<1>6. \A ch \in {"0", "1", "2", "3", "4", "5", "6", "7", "8", "9"} : ch \in ToSet(Digits)
  BY <1>1, <1>5, Zenon DEF ToSet
<1> QED
  BY <1>4, <1>6

\* The braces are none of the characters the parser gives another meaning.
LEMMA BracesDiffer ==
    /\ LBrace # RBrace
    /\ LBrace \notin {"(", ")", "-", ":"} /\ RBrace \notin {"(", ")", "-", ":"}
    /\ LBrace \notin ElementChars /\ RBrace \notin ElementChars
    /\ LBrace \notin ToSet(Digits) /\ RBrace \notin ToSet(Digits)
<1>1. LBrace # RBrace
  BY Zenon DEF LBrace, RBrace
<1>2. LBrace \notin {"(", ")", "-", ":"} /\ RBrace \notin {"(", ")", "-", ":"}
  BY Zenon DEF LBrace, RBrace
<1>3. LBrace \notin ElementChars /\ RBrace \notin ElementChars
  BY Zenon DEF LBrace, RBrace, ElementChars
<1>4. LBrace \notin ToSet(Digits) /\ RBrace \notin ToSet(Digits)
  BY DigitsSet, Zenon DEF LBrace, RBrace
<1> QED
  BY <1>1, <1>2, <1>3, <1>4

\* A string in which braces open and close one at a time.
Braced(s) ==
    /\ s \in Seq(Text)
    /\ \A i \in 0 .. Len(s) : BraceDepth(s, i) \in {0, 1}
    /\ BraceDepth(s, Len(s)) = 0

\* How the brace depth starts and changes from one place to the next.
LEMMA BraceStep ==
    ASSUME NEW s, NEW i \in Nat
    PROVE  /\ BraceDepth(s, 0) = 0
           /\ BraceDepth(s, i) \in Int
           /\ BraceDepth(s, i + 1) = BraceDepth(s, i) + Kind(At(s, i), LBrace, RBrace)
BY DepthFirst, DepthStep, DepthInt, BracesDiffer DEF BraceDepth

\* What each character is at: an open brace opens one, a closed brace closes
\* one, and another leaves them.
LEMMA BraceKinds ==
    ASSUME NEW s, Braced(s), NEW i \in 0 .. Len(s) - 1
    PROVE  /\ At(s, i) = LBrace => BraceDepth(s, i) = 0 /\ BraceDepth(s, i + 1) = 1
           /\ At(s, i) = RBrace => BraceDepth(s, i) = 1 /\ BraceDepth(s, i + 1) = 0
           /\ At(s, i) \notin {LBrace, RBrace} => BraceDepth(s, i + 1) = BraceDepth(s, i)
<1>1. Len(s) \in Nat
  BY DEF Braced
<1>2. i \in Nat /\ i \in 0 .. Len(s) /\ i + 1 \in 0 .. Len(s)
  BY <1>1
<1>3. BraceDepth(s, i) \in {0, 1} /\ BraceDepth(s, i + 1) \in {0, 1}
  BY <1>2 DEF Braced
<1>4. BraceDepth(s, i + 1) = BraceDepth(s, i) + Kind(At(s, i), LBrace, RBrace)
  BY <1>2, BraceStep
<1>5. PICK d, e : d = BraceDepth(s, i) /\ e = BraceDepth(s, i + 1)
  OBVIOUS
<1>6. d \in {0, 1} /\ e \in {0, 1} /\ e = d + Kind(At(s, i), LBrace, RBrace)
  BY <1>3, <1>4, <1>5
<1>7. At(s, i) = LBrace => d = 0 /\ e = 1
  BY <1>6 DEF Kind
<1>8. At(s, i) = RBrace => d = 1 /\ e = 0
  BY <1>6, BracesDiffer DEF Kind
<1>9. At(s, i) \notin {LBrace, RBrace} => e = d
  BY <1>6 DEF Kind
<1> QED
  BY <1>5, <1>7, <1>8, <1>9

Closings(s, p) == {j \in p .. Len(s) - 1 : At(s, j) = RBrace}

\* A brace that opens is closed before the next place with no brace open, and
\* until then it is open.
LEMMA BraceCloses ==
    ASSUME NEW s, Braced(s), NEW p \in 0 .. Len(s) - 1, At(s, p) = LBrace,
           NEW q \in (p + 1) .. Len(s), BraceDepth(s, q) = 0
    PROVE  \E m \in (p + 1) .. q - 1 :
             /\ At(s, m) = RBrace
             /\ m = Min(Closings(s, p))
             /\ \A j \in (p + 1) .. m : BraceDepth(s, j) = 1
             /\ BraceDepth(s, m + 1) = 0
<1>1. Len(s) \in Nat /\ p \in Nat /\ q \in Nat
  BY DEF Braced
<1>2. BraceDepth(s, p + 1) = 1
  BY BraceKinds
<1> DEFINE T == {j \in Nat : p + 1 <= j /\ j <= q /\ BraceDepth(s, j) = 0}
<1>3. T \in SUBSET Nat /\ q \in T
  BY <1>1
<1> HIDE DEF T
<1>4. PICK k \in T : \A j \in T : k <= j
  BY <1>3, LeastExists
<1>5. k \in Nat /\ p + 1 <= k /\ k <= q /\ BraceDepth(s, k) = 0
  BY <1>4 DEF T
<1>6. k # p + 1
  BY <1>2, <1>5
<1>7. PICK m \in Nat : k = m + 1
  <2>1. k - 1 \in Nat /\ k = k - 1 + 1
    BY <1>1, <1>5
  <2> QED
    BY <2>1
<1>8. m \in (p + 1) .. q - 1 /\ m \in 0 .. Len(s) - 1
  BY <1>1, <1>5, <1>6, <1>7
<1>9. \A j \in (p + 1) .. m : BraceDepth(s, j) = 1
  <2> TAKE j \in (p + 1) .. m
  <2>1. j \in Nat /\ j \in 0 .. Len(s) /\ j <= q /\ ~(k <= j)
    BY <1>1, <1>7, <1>8
  <2>2. BraceDepth(s, j) # 0
    BY <1>1, <1>4, <2>1 DEF T
  <2> QED
    BY <2>1, <2>2 DEF Braced
<1>10. At(s, m) = RBrace
  <2>1. BraceDepth(s, m) = 1 /\ BraceDepth(s, m + 1) = 0
    BY <1>5, <1>7, <1>8, <1>9
  <2> QED
    BY <1>8, <2>1, BraceKinds
<1>11. m = Min(Closings(s, p))
  <2>1. Closings(s, p) \in SUBSET Nat
    BY <1>1 DEF Closings
  <2>2. m \in Closings(s, p)
    BY <1>1, <1>8, <1>10 DEF Closings
  <2>3. ASSUME NEW j \in Closings(s, p)
        PROVE  m <= j
    <3>1. j \in Nat /\ j \in p .. Len(s) - 1 /\ j \in 0 .. Len(s) - 1 /\ At(s, j) = RBrace
      BY <1>1 DEF Closings
    <3>2. j # p
      BY <3>1, BracesDiffer
    <3>3. BraceDepth(s, j + 1) = 0
      BY <3>1, BraceKinds
    <3> SUFFICES ASSUME j < m
                 PROVE  FALSE
      BY <1>8, <3>1
    <3>4. j + 1 \in (p + 1) .. m
      BY <1>1, <3>1
    <3> QED
      BY <1>9, <3>3, <3>4
  <2> QED
    BY <2>1, <2>2, <2>3, MinIs
<1> QED
  BY <1>5, <1>7, <1>8, <1>9, <1>10, <1>11
-----------------------------------------------------------------------------
(***************************************************************************)
(* Sequences put together.                                                 *)
(***************************************************************************)
\* f[n] is the first n sequences of x in a row.
InARow(f, x, S) ==
    /\ f \in [0 .. Len(x) -> Seq(S)]
    /\ f[0] = <<>>
    /\ \A n \in 1 .. Len(x) : f[n] = f[n - 1] \o x[n]

\* The sequences of a sequence can be joined one after the other.
LEMMA RowExists ==
    ASSUME NEW S, NEW x \in Seq(Seq(S))
    PROVE  \E f : InARow(f, x, S)
<1> DEFINE V == Seq(S)
           G == [vp \in V \X (1 .. Len(x)) |-> vp[1] \o x[vp[2]]]
<1>1. <<>> \in V /\ Len(x) \in Nat
  OBVIOUS
<1>2. \A v \in V, p \in 1 .. Len(x) : G[<<v, p>>] = v \o x[p] /\ G[<<v, p>>] \in V
  <2> TAKE v \in V, p \in 1 .. Len(x)
  <2>1. x[p] \in Seq(S)
    OBVIOUS
  <2>2. v \o x[p] \in Seq(S)
    BY <2>1
  <2>3. G[<<v, p>>] = v \o x[p]
    OBVIOUS
  <2> QED
    BY <2>2, <2>3
<1> HIDE DEF G, V
<1>3. PICK f : IsRecursion(f, V, <<>>, Len(x), G)
  BY <1>1, <1>2, RecursionExists
<1>4. f \in [0 .. Len(x) -> V] /\ 0 \in 0 .. Len(x)
  BY <1>1, <1>3 DEF IsRecursion
<1>5. f[0] = <<>>
  BY <1>3, <1>4 DEF IsRecursion
<1>6. ASSUME NEW n \in 1 .. Len(x)
      PROVE  f[n] = f[n - 1] \o x[n]
  <2>1. n \in 0 .. Len(x) /\ n - 1 \in 0 .. Len(x) /\ n # 0
    BY <1>1
  <2>2. f[n] = G[<<f[n - 1], n>>]
    BY <1>3, <2>1 DEF IsRecursion
  <2>3. f[n - 1] \in V
    BY <1>4, <2>1
  <2> QED
    BY <1>2, <2>2, <2>3
<1> QED
  BY <1>4, <1>5, <1>6 DEF InARow, V

\* The last is what FlattenSeq gives.
LEMMA RowIsFlat ==
    ASSUME NEW S, NEW x \in Seq(Seq(S)), NEW f, InARow(f, x, S)
    PROVE  FlattenSeq(x) = f[Len(x)]
<1>1. Len(x) \in Nat
  OBVIOUS
<1>2. CASE Len(x) = 0
  <2>1. x = <<>>
    BY <1>2
  <2> QED
    BY <1>2, <2>1 DEF InARow, FlattenSeq
<1>3. CASE Len(x) # 0
  <2> DEFINE Step(fl) == [i \in 1 .. Len(x) |-> IF i = 1 THEN x[i] ELSE fl[i - 1] \o x[i]]
             flatten == CHOOSE fl : fl = Step(fl)
             g == [i \in 1 .. Len(x) |-> f[i]]
  <2>1. ASSUME NEW i \in 1 .. Len(x)
        PROVE  g[i] = IF i = 1 THEN x[i] ELSE g[i - 1] \o x[i]
    <3>1. f[i] = f[i - 1] \o x[i] /\ x[i] \in Seq(S)
      BY DEF InARow
    <3>2. CASE i = 1
      <4>1. f[i - 1] = <<>>
        BY <3>2 DEF InARow
      <4>2. <<>> \o x[i] = x[i]
        BY <3>1
      <4> QED
        BY <3>1, <3>2, <4>1, <4>2
    <3>3. CASE i # 1
      <4>1. i - 1 \in 1 .. Len(x)
        BY <1>1, <3>3
      <4> QED
        BY <3>1, <3>3, <4>1
    <3> QED
      BY <3>2, <3>3
  <2>2. g = Step(g)
    <3>1. \A i \in 1 .. Len(x) : g[i] = Step(g)[i]
      BY <2>1
    <3> HIDE DEF g
    <3>2. g = [i \in 1 .. Len(x) |-> g[i]]
      BY DEF g
    <3> QED
      BY <3>1, <3>2
  <2>3. flatten = Step(flatten)
    <3> HIDE DEF g, Step
    <3> QED
      BY <2>2
  <2> HIDE DEF flatten
  <2>4. \A i \in 1 .. Len(x) : flatten[i] = IF i = 1 THEN x[i] ELSE flatten[i - 1] \o x[i]
    BY <2>3
  <2>5. \A i \in 1 .. Len(x) : f[i] = f[i - 1] \o x[i]
    BY DEF InARow
  <2> DEFINE T == {n \in Nat : n + 1 <= Len(x) => flatten[n + 1] = f[n + 1]}
  <2>6. 0 \in T
    <3>1. 1 \in 1 .. Len(x) /\ 0 + 1 = 1 /\ 1 - 1 = 0
      BY <1>1, <1>3
    <3>2. flatten[1] = x[1]
      BY <2>4, <3>1
    <3>3. f[1] = f[0] \o x[1]
      BY <2>5, <3>1
    <3>4. f[0] = <<>> /\ x[1] \in Seq(S)
      BY <3>1 DEF InARow
    <3>5. f[1] = x[1]
      BY <3>3, <3>4
    <3> QED
      BY <3>1, <3>2, <3>5
  <2>7. ASSUME NEW n \in Nat, n \in T
        PROVE  n + 1 \in T
    <3> SUFFICES ASSUME n + 1 + 1 <= Len(x)
                 PROVE  flatten[n + 1 + 1] = f[n + 1 + 1]
      OBVIOUS
    <3>1. PICK k : k = n + 1 + 1
      OBVIOUS
    <3>2. k \in 1 .. Len(x) /\ k # 1 /\ k - 1 = n + 1 /\ n + 1 <= Len(x)
      BY <1>1, <3>1
    <3>3. flatten[k] = flatten[k - 1] \o x[k]
      BY <2>4, <3>2, Zenon
    <3>4. f[k] = f[k - 1] \o x[k]
      BY <2>5, <3>2, Zenon
    <3>5. flatten[n + 1] = f[n + 1]
      BY <2>7, <3>2
    <3>6. flatten[k - 1] = f[k - 1]
      BY <3>2, <3>5
    <3>7. flatten[k] = f[k]
      BY <3>3, <3>4, <3>6, Zenon
    <3> QED
      BY <3>1, <3>7
  <2>8. \A n \in Nat : n \in T
    <3> HIDE DEF T
    <3> QED
      BY <2>6, <2>7, SetInduction
  <2>9. PICK n \in Nat : n + 1 = Len(x)
    <3>1. Len(x) - 1 \in Nat /\ Len(x) - 1 + 1 = Len(x)
      BY <1>1, <1>3
    <3> QED
      BY <3>1
  <2>10. flatten[n + 1] = f[n + 1]
    <3>1. n \in T /\ n + 1 <= Len(x)
      BY <1>1, <2>8, <2>9
    <3> QED
      BY <3>1
  <2>11. flatten[Len(x)] = f[Len(x)]
    BY <2>9, <2>10
  <2> QED
    BY <1>3, <2>11 DEF FlattenSeq, flatten
<1> QED
  BY <1>2, <1>3

\* No sequences join to the empty one.
LEMMA FlatEmpty ==
    FlattenSeq(<<>>) = <<>>
BY DEF FlattenSeq

\* Sequences over a set join to a sequence over it.
LEMMA FlatSeq ==
    ASSUME NEW S, NEW x \in Seq(Seq(S))
    PROVE  FlattenSeq(x) \in Seq(S)
<1>1. PICK f : InARow(f, x, S)
  BY RowExists
<1>2. FlattenSeq(x) = f[Len(x)] /\ Len(x) \in Nat
  BY <1>1, RowIsFlat
<1> QED
  BY <1>1, <1>2 DEF InARow

\* One sequence more.
LEMMA FlatStep ==
    ASSUME NEW S, NEW x \in Seq(Seq(S)), NEW e \in Seq(S)
    PROVE  FlattenSeq(Append(x, e)) = FlattenSeq(x) \o e
<1>1. PICK f : InARow(f, x, S)
  BY RowExists
<1> DEFINE y == Append(x, e)
           g == [n \in 0 .. Len(y) |-> IF n <= Len(x) THEN f[n] ELSE f[Len(x)] \o e]
<1>2. Len(x) \in Nat /\ y \in Seq(Seq(S)) /\ Len(y) = Len(x) + 1
        /\ (\A i \in 1 .. Len(x) : y[i] = x[i]) /\ y[Len(x) + 1] = e
  OBVIOUS
<1>3. \A n \in 0 .. Len(x) : f[n] \in Seq(S)
  BY <1>1 DEF InARow
<1>4. f[Len(x)] \o e \in Seq(S)
  <2>1. f[Len(x)] \in Seq(S)
    BY <1>2, <1>3
  <2> QED
    BY <2>1
<1> HIDE DEF y
<1>5. InARow(g, y, S)
  <2>1. g \in [0 .. Len(y) -> Seq(S)]
    BY <1>2, <1>3, <1>4
  <2>2. g[0] = <<>>
    BY <1>1, <1>2 DEF InARow
  <2>3. ASSUME NEW n \in 1 .. Len(y)
        PROVE  g[n] = g[n - 1] \o y[n]
    <3>1. n \in 0 .. Len(y) /\ n - 1 \in 0 .. Len(y) /\ n - 1 <= Len(x)
      BY <1>2
    <3>2. g[n - 1] = f[n - 1]
      BY <3>1
    <3>3. CASE n <= Len(x)
      <4>1. n \in 1 .. Len(x)
        BY <1>2, <3>3
      <4> QED
        BY <1>1, <1>2, <3>1, <3>2, <3>3, <4>1 DEF InARow
    <3>4. CASE ~(n <= Len(x))
      <4>1. n = Len(x) + 1 /\ n - 1 = Len(x)
        BY <1>2, <3>4
      <4> QED
        BY <1>2, <3>1, <3>2, <3>4, <4>1
    <3> QED
      BY <3>3, <3>4
  <2> QED
    BY <2>1, <2>2, <2>3 DEF InARow
<1>6. FlattenSeq(x) = f[Len(x)]
  BY <1>1, RowIsFlat
<1>7. FlattenSeq(y) = g[Len(y)]
  <2> HIDE DEF g
  <2> QED
    BY <1>2, <1>5, RowIsFlat
<1>8. g[Len(y)] = f[Len(x)] \o e
  BY <1>2
<1> QED
  BY <1>6, <1>7, <1>8 DEF y

\* The sequences e has from a on before b, in a row.
Row(e, a, b) == FlattenSeq([k \in 1 .. (b - a) |-> e[a + k - 1]])

\* The row between a place and itself is empty.
LEMMA RowNone ==
    ASSUME NEW e, NEW a \in Nat
    PROVE  Row(e, a, a) = <<>>
<1>1. [k \in 1 .. (a - a) |-> e[a + k - 1]] = <<>>
  OBVIOUS
<1> QED
  BY <1>1, FlatEmpty DEF Row

\* The parts of a row are sequences.
LEMMA RowParts ==
    ASSUME NEW S, NEW N \in Nat, NEW e \in [0 .. (N - 1) -> Seq(S)],
           NEW a \in 0 .. N, NEW b \in a .. N
    PROVE  [k \in 1 .. (b - a) |-> e[a + k - 1]] \in Seq(Seq(S))
<1>1. b - a \in Nat
  OBVIOUS
<1>2. \A k \in 1 .. (b - a) : e[a + k - 1] \in Seq(S)
  <2> TAKE k \in 1 .. (b - a)
  <2>1. a + k - 1 \in 0 .. (N - 1)
    OBVIOUS
  <2> QED
    BY <2>1
<1> QED
  BY <1>1, <1>2

\* A row is a sequence over the set its parts are over.
LEMMA RowType ==
    ASSUME NEW S, NEW N \in Nat, NEW e \in [0 .. (N - 1) -> Seq(S)],
           NEW a \in 0 .. N, NEW b \in a .. N
    PROVE  Row(e, a, b) \in Seq(S)
BY RowParts, FlatSeq DEF Row

\* A row that goes one place further has that place's part at its end.
LEMMA RowStep ==
    ASSUME NEW S, NEW N \in Nat, NEW e \in [0 .. (N - 1) -> Seq(S)],
           NEW a \in 0 .. N, NEW b \in a .. (N - 1)
    PROVE  Row(e, a, b + 1) = Row(e, a, b) \o e[b]
<1> DEFINE x == [k \in 1 .. (b - a) |-> e[a + k - 1]]
           y == [k \in 1 .. ((b + 1) - a) |-> e[a + k - 1]]
<1>1. b \in a .. N /\ b \in 0 .. (N - 1) /\ b - a \in Nat /\ (b + 1) - a = (b - a) + 1
        /\ a + ((b - a) + 1) - 1 = b
  OBVIOUS
<1>2. x \in Seq(Seq(S)) /\ Len(x) = b - a /\ e[b] \in Seq(S)
  BY <1>1, RowParts
<1>3. b \in a .. N /\ b + 1 \in a .. N
  OBVIOUS
<1>4. y \in Seq(Seq(S)) /\ Len(y) = (b - a) + 1
  BY <1>1, <1>3, RowParts
<1>5. y[(b - a) + 1] = e[b]
  BY <1>1
<1>6. \A k \in 1 .. (b - a) : y[k] = x[k]
  BY <1>1
<1> HIDE DEF x, y
<1>7. \A k \in 1 .. Len(y) : y[k] = Append(x, e[b])[k]
  <2> TAKE k \in 1 .. Len(y)
  <2>1. CASE k = (b - a) + 1
    <3>1. Append(x, e[b])[Len(x) + 1] = e[b]
      BY <1>2
    <3> QED
      BY <1>2, <1>5, <2>1, <3>1
  <2>2. CASE k # (b - a) + 1
    <3>1. k \in 1 .. (b - a)
      BY <1>1, <1>4, <2>2
    <3>2. Append(x, e[b])[k] = x[k]
      BY <1>2, <3>1
    <3> QED
      BY <1>6, <3>1, <3>2
  <2> QED
    BY <2>1, <2>2
<1>8. Append(x, e[b]) \in Seq(Seq(S)) /\ Len(Append(x, e[b])) = (b - a) + 1
  <2>1. Append(x, e[b]) \in Seq(Seq(S)) /\ Len(Append(x, e[b])) = Len(x) + 1
    BY <1>2, AppendProperties
  <2> QED
    BY <1>2, <2>1
<1>9. y = Append(x, e[b])
  BY <1>4, <1>7, <1>8, SeqEqual
<1>10. FlattenSeq(Append(x, e[b])) = FlattenSeq(x) \o e[b]
  BY <1>2, FlatStep
<1> QED
  BY <1>9, <1>10 DEF Row, x, y

\* A row is the row up to a place between its ends and the row from there.
LEMMA RowSplit ==
    ASSUME NEW S, NEW N \in Nat, NEW e \in [0 .. (N - 1) -> Seq(S)],
           NEW a \in 0 .. N, NEW b \in a .. N, NEW c \in b .. N
    PROVE  Row(e, a, c) = Row(e, a, b) \o Row(e, b, c)
<1> DEFINE T == {n \in Nat : b + n <= N => Row(e, a, b + n) = Row(e, a, b) \o Row(e, b, b + n)}
<1>1. b \in Nat /\ b \in 0 .. N /\ a \in Nat /\ c \in Nat
  OBVIOUS
<1>2. Row(e, a, b) \in Seq(S)
  BY RowType
<1>3. 0 \in T
  <2>1. Row(e, b, b) = <<>> /\ b + 0 = b
    BY <1>1, RowNone
  <2>2. Row(e, a, b) \o <<>> = Row(e, a, b)
    BY <1>2
  <2> QED
    BY <2>1, <2>2
<1>4. ASSUME NEW n \in Nat, n \in T
      PROVE  n + 1 \in T
  <2> SUFFICES ASSUME b + (n + 1) <= N
               PROVE  Row(e, a, b + (n + 1)) = Row(e, a, b) \o Row(e, b, b + (n + 1))
    OBVIOUS
  <2>1. PICK m : m = b + n
    OBVIOUS
  <2>2. m \in a .. (N - 1) /\ m \in b .. (N - 1) /\ m \in b .. N /\ b + (n + 1) = m + 1
          /\ m \in 0 .. (N - 1)
    BY <1>1, <2>1
  <2>3. Row(e, a, m) = Row(e, a, b) \o Row(e, b, m)
    BY <1>1, <1>4, <2>1, <2>2
  <2>4. Row(e, a, m + 1) = Row(e, a, m) \o e[m]
    BY <2>2, RowStep
  <2>5. Row(e, b, m + 1) = Row(e, b, m) \o e[m]
    BY <1>1, <2>2, RowStep
  <2>6. Row(e, b, m) \in Seq(S) /\ e[m] \in Seq(S)
    BY <1>1, <2>2, RowType
  <2>7. (Row(e, a, b) \o Row(e, b, m)) \o e[m] = Row(e, a, b) \o (Row(e, b, m) \o e[m])
    <3>1. PICK u, v, w : u = Row(e, a, b) /\ v = Row(e, b, m) /\ w = e[m]
      OBVIOUS
    <3>2. u \in Seq(S) /\ v \in Seq(S) /\ w \in Seq(S)
      BY <1>2, <2>6, <3>1, Zenon
    <3>3. (u \o v) \o w = u \o (v \o w)
      BY <3>2, ConcatAssociative
    <3> QED
      BY <3>1, <3>3, Zenon
  <2>8. Row(e, a, m + 1) = Row(e, a, b) \o Row(e, b, m + 1)
    BY <2>3, <2>4, <2>5, <2>7, Zenon
  <2> QED
    BY <2>2, <2>8
<1>5. \A n \in Nat : n \in T
  <2> HIDE DEF T
  <2> QED
    BY <1>3, <1>4, SetInduction
<1>6. PICK n \in Nat : c = b + n
  <2>1. c - b \in Nat /\ c = b + (c - b)
    BY <1>1
  <2> QED
    BY <2>1
<1>7. n \in T /\ b + n <= N
  BY <1>5, <1>6
<1> QED
  BY <1>6, <1>7

\* A row of empty parts is empty.
LEMMA RowEmpty ==
    ASSUME NEW S, NEW N \in Nat, NEW e \in [0 .. (N - 1) -> Seq(S)],
           NEW a \in 0 .. N, NEW b \in a .. N,
           \A i \in a .. (b - 1) : e[i] = <<>>
    PROVE  Row(e, a, b) = <<>>
<1> DEFINE T == {n \in Nat : a + n <= b => Row(e, a, a + n) = <<>>}
<1>1. a \in Nat /\ b \in Nat
  OBVIOUS
<1>2. 0 \in T
  BY RowNone, a + 0 = a, <1>1
<1>3. ASSUME NEW n \in Nat, n \in T
      PROVE  n + 1 \in T
  <2> SUFFICES ASSUME a + (n + 1) <= b
               PROVE  Row(e, a, a + (n + 1)) = <<>>
    OBVIOUS
  <2>1. PICK m : m = a + n
    OBVIOUS
  <2>2. m \in a .. (N - 1) /\ m \in a .. (b - 1) /\ a + (n + 1) = m + 1
    BY <1>1, <2>1
  <2>3. Row(e, a, m + 1) = Row(e, a, m) \o e[m]
    BY <2>2, RowStep
  <2>4. Row(e, a, m) = <<>>
    BY <1>1, <1>3, <2>1, <2>2
  <2>5. e[m] = <<>>
    BY <2>2
  <2>6. Row(e, a, m + 1) = <<>>
    BY <2>3, <2>4, <2>5
  <2> QED
    BY <2>2, <2>6
<1>4. \A n \in Nat : n \in T
  <2> HIDE DEF T
  <2> QED
    BY <1>2, <1>3, SetInduction
<1>5. PICK n \in Nat : b = a + n
  <2>1. b - a \in Nat /\ b = a + (b - a)
    BY <1>1
  <2> QED
    BY <2>1
<1>6. n \in T /\ a + n <= b
  BY <1>1, <1>4, <1>5
<1> QED
  BY <1>5, <1>6

\* e has from a on before c what g has from b on before d.
Alike(e, a, c, g, b, d) ==
    \E n \in Nat : /\ a \in Int /\ b \in Int /\ c = a + n /\ d = b + n
                  /\ \A i \in 0 .. (n - 1) : e[a + i] = g[b + i]

\* Rows of the same parts are the same.
LEMMA RowSame ==
    ASSUME NEW e, NEW a, NEW c, NEW g, NEW b, NEW d, Alike(e, a, c, g, b, d)
    PROVE  Row(e, a, c) = Row(g, b, d)
<1>0. PICK n \in Nat : /\ a \in Int /\ b \in Int /\ c = a + n /\ d = b + n
                      /\ \A i \in 0 .. (n - 1) : e[a + i] = g[b + i]
  BY DEF Alike
<1>1. c - a = n /\ d - b = n
  BY <1>0
<1>2. ASSUME NEW k \in 1 .. n
      PROVE  e[a + k - 1] = g[b + k - 1]
  <2>1. k - 1 \in 0 .. (n - 1) /\ a + (k - 1) = a + k - 1 /\ b + (k - 1) = b + k - 1
    BY <1>0
  <2>2. e[a + (k - 1)] = g[b + (k - 1)]
    BY <1>0, <2>1
  <2> QED
    BY <2>1, <2>2
<1>3. [k \in 1 .. n |-> e[a + k - 1]] = [k \in 1 .. n |-> g[b + k - 1]]
  BY <1>2
<1> QED
  BY <1>1, <1>3 DEF Row
-----------------------------------------------------------------------------
(***************************************************************************)
(* The elements of a tree.                                                 *)
(***************************************************************************)
Node == [op : Text, param : Seq(Text), size : Nat]

LeafOf(node) == IF node.op \in ElementChars THEN <<node>> ELSE <<>>
LeafRow(tree) == [i \in 0 .. (Len(tree) - 1) |-> LeafOf(tree[i + 1])]

\* The leaves of a tree's nodes, one node after the other, can be laid in a row.
LEMMA LeafRowType ==
    ASSUME NEW S, NEW tree \in Seq(S)
    PROVE  Len(tree) \in Nat /\ LeafRow(tree) \in [0 .. (Len(tree) - 1) -> Seq(S)]
<1>1. Len(tree) \in Nat
  OBVIOUS
<1>2. ASSUME NEW i \in 0 .. (Len(tree) - 1)
      PROVE  LeafOf(tree[i + 1]) \in Seq(S)
  <2>1. i + 1 \in 1 .. Len(tree)
    BY <1>1
  <2>2. tree[i + 1] \in S
    BY <2>1
  <2> QED
    BY <2>2 DEF LeafOf
<1> QED
  BY <1>1, <1>2 DEF LeafRow

\* The leaves of a tree are the row of its nodes' leaves.
LEMMA LeavesRow ==
    ASSUME NEW S, NEW tree \in Seq(S)
    PROVE  Leaves(tree) = Row(LeafRow(tree), 0, Len(tree)) /\ Leaves(tree) \in Seq(S)
<1>1. Len(tree) \in Nat /\ DOMAIN tree = 1 .. Len(tree) /\ Len(tree) - 0 = Len(tree)
  OBVIOUS
<1>2. ASSUME NEW k \in 1 .. Len(tree)
      PROVE  (IF tree[k].op \in ElementChars THEN <<tree[k]>> ELSE <<>>)
               = LeafRow(tree)[0 + k - 1]
  <2>1. 0 + k - 1 \in 0 .. (Len(tree) - 1) /\ (0 + k - 1) + 1 = k
    BY <1>1
  <2> QED
    BY <2>1 DEF LeafRow, LeafOf
<1>3. [k \in 1 .. Len(tree) |-> IF tree[k].op \in ElementChars THEN <<tree[k]>> ELSE <<>>]
        = [k \in 1 .. Len(tree) |-> LeafRow(tree)[0 + k - 1]]
  BY <1>2
<1>4. Leaves(tree) = Row(LeafRow(tree), 0, Len(tree))
  BY <1>1, <1>3 DEF Leaves, Row
<1>5. LeafRow(tree) \in [0 .. (Len(tree) - 1) -> Seq(S)]
  BY LeafRowType
<1>6. Row(LeafRow(tree), 0, Len(tree)) \in Seq(S)
  <2>1. 0 \in 0 .. Len(tree) /\ Len(tree) \in 0 .. Len(tree)
    BY <1>1
  <2> QED
    BY <1>1, <1>5, <2>1, RowType
<1> QED
  BY <1>4, <1>6

\* The leaves of one tree after another are theirs, one after the other.
LEMMA LeavesConcat ==
    ASSUME NEW S, NEW x \in Seq(S), NEW y \in Seq(S)
    PROVE  Leaves(x \o y) = Leaves(x) \o Leaves(y)
<1> DEFINE z == x \o y
           m == Len(x)
           n == Len(y)
<1>1. z \in Seq(S) /\ m \in Nat /\ n \in Nat /\ Len(z) = m + n
        /\ (\A k \in 1 .. m : z[k] = x[k]) /\ (\A k \in 1 .. n : z[m + k] = y[k])
  OBVIOUS
<1> HIDE DEF z
<1>2. Leaves(z) = Row(LeafRow(z), 0, m + n) /\ Leaves(x) = Row(LeafRow(x), 0, m)
        /\ Leaves(y) = Row(LeafRow(y), 0, n)
  BY <1>1, LeavesRow
<1>3. LeafRow(z) \in [0 .. ((m + n) - 1) -> Seq(S)]
  <2>1. LeafRow(z) \in [0 .. (Len(z) - 1) -> Seq(S)]
    BY <1>1, LeafRowType
  <2> QED
    BY <1>1, <2>1
<1> HIDE DEF m, n
<1>4. Row(LeafRow(z), 0, m + n) = Row(LeafRow(z), 0, m) \o Row(LeafRow(z), m, m + n)
  <2>1. m + n \in Nat /\ 0 \in 0 .. (m + n) /\ m \in 0 .. (m + n) /\ m + n \in m .. (m + n)
    BY <1>1
  <2> QED
    BY <1>3, <2>1, RowSplit, Zenon
<1>7. m = 0 + m /\ n = 0 + n /\ 0 \in Nat
  BY <1>1
<1>5. Row(LeafRow(z), 0, m) = Row(LeafRow(x), 0, m)
  <2>1. Alike(LeafRow(z), 0, m, LeafRow(x), 0, m)
    <3> SUFFICES ASSUME NEW i \in 0 .. (m - 1)
                 PROVE  LeafRow(z)[0 + i] = LeafRow(x)[0 + i]
      BY <1>1, <1>7 DEF Alike
    <3>1. i \in 0 .. ((m + n) - 1) /\ i + 1 \in 1 .. m /\ 0 + i = i
      BY <1>1
    <3>2. z[i + 1] = x[i + 1]
      BY <1>1, <3>1
    <3>3. LeafRow(z)[i] = LeafOf(z[i + 1])
      BY <1>1, <3>1 DEF LeafRow
    <3>4. LeafRow(x)[i] = LeafOf(x[i + 1])
      BY <3>1 DEF LeafRow, m
    <3> QED
      BY <3>1, <3>2, <3>3, <3>4
  <2> QED
    BY <2>1, RowSame
<1>6. Row(LeafRow(z), m, m + n) = Row(LeafRow(y), 0, n)
  <2>1. Alike(LeafRow(z), m, m + n, LeafRow(y), 0, n)
    <3> SUFFICES ASSUME NEW i \in 0 .. (n - 1)
                 PROVE  LeafRow(z)[m + i] = LeafRow(y)[0 + i]
      BY <1>1, <1>7 DEF Alike
    <3>1. m + i \in 0 .. ((m + n) - 1) /\ i + 1 \in 1 .. n /\ 0 + i = i /\ (m + i) + 1 = m + (i + 1)
      BY <1>1
    <3>2. z[m + (i + 1)] = y[i + 1]
      BY <1>1, <3>1
    <3>3. LeafRow(z)[m + i] = LeafOf(z[(m + i) + 1])
      BY <1>1, <3>1 DEF LeafRow
    <3>4. LeafRow(y)[i] = LeafOf(y[i + 1])
      BY <3>1 DEF LeafRow, n
    <3> QED
      BY <3>1, <3>2, <3>3, <3>4
  <2> QED
    BY <2>1, RowSame
<1> QED
  BY <1>2, <1>4, <1>5, <1>6, Zenon DEF z

\* The empty tree has no leaves.
LEMMA LeavesEmpty ==
    Leaves(<<>>) = <<>>
<1>1. [k \in DOMAIN <<>> |-> IF <<>>[k].op \in ElementChars THEN << <<>>[k]>> ELSE <<>>] = <<>>
  OBVIOUS
<1> QED
  BY <1>1, FlatEmpty DEF Leaves

\* The leaves of a tree of one node are that node, or none.
LEMMA LeavesOne ==
    ASSUME NEW S, NEW node \in S
    PROVE  Leaves(<<node>>) = LeafOf(node)
<1>1. <<node>> \in Seq(S) /\ Len(<<node>>) = 1
  OBVIOUS
<1>2. Leaves(<<node>>) = Row(LeafRow(<<node>>), 0, 1)
  BY <1>1, LeavesRow
<1>3. LeafRow(<<node>>) \in [0 .. (1 - 1) -> Seq(S)]
  <2>1. LeafRow(<<node>>) \in [0 .. (Len(<<node>>) - 1) -> Seq(S)]
    BY <1>1, LeafRowType
  <2> QED
    BY <1>1, <2>1
<1>4. LeafRow(<<node>>)[0] = LeafOf(node) /\ LeafOf(node) \in Seq(S)
  BY <1>1 DEF LeafRow, LeafOf
<1>5. 1 \in Nat /\ 0 \in 0 .. 1 /\ 0 \in 0 .. (1 - 1) /\ 0 + 1 = 1 /\ 0 \in Nat
  OBVIOUS
<1>6. Row(LeafRow(<<node>>), 0, 0 + 1) = Row(LeafRow(<<node>>), 0, 0) \o LeafRow(<<node>>)[0]
  BY <1>3, <1>5, RowStep
<1>7. Row(LeafRow(<<node>>), 0, 0) = <<>>
  BY <1>5, RowNone
<1>8. <<>> \o LeafOf(node) = LeafOf(node)
  BY <1>4
<1> QED
  BY <1>2, <1>4, <1>5, <1>6, <1>7, <1>8, Zenon

\* The elements of combined trees are theirs.
LEMMA LeavesCombine ==
    ASSUME NEW op \in {"parallel", "serial"}, NEW trees \in Seq(Seq(Node))
    PROVE  /\ Combine(op, trees) \in Seq(Node)
           /\ Leaves(Combine(op, trees)) = Leaves(FlattenSeq(trees))
<1> DEFINE flat == FlattenSeq(trees)
           node == [op |-> op, param |-> <<>>, size |-> Len(trees)]
<1>1. flat \in Seq(Node)
  BY FlatSeq
<1>2. node \in Node /\ LeafOf(node) = <<>> /\ Len(trees) \in Nat
  <2>1. Len(trees) \in Nat /\ <<>> \in Seq(Text) /\ op \in Text
    BY DEF Text
  <2>2. node \in Node
    BY <2>1 DEF Node
  <2>3. node.op \notin ElementChars
    BY DEF ElementChars
  <2> QED
    BY <2>1, <2>2, <2>3 DEF LeafOf
<1> HIDE DEF flat, node
<1>3. CASE Len(trees) = 0
  <2>1. trees = <<>>
    BY <1>3
  <2>2. Combine(op, trees) = <<>>
    BY <1>3 DEF Combine, Nothing
  <2>3. <<>> \in Seq(Node)
    OBVIOUS
  <2>4. FlattenSeq(trees) = <<>>
    BY <2>1, FlatEmpty
  <2> QED
    BY <2>2, <2>3, <2>4
<1>4. CASE Len(trees) = 1
  <2>1. Combine(op, trees) = trees[1]
    BY <1>4 DEF Combine
  <2>2. trees[1] \in Seq(Node) /\ trees = Append(<<>>, trees[1]) /\ <<>> \in Seq(Seq(Node))
    BY <1>4
  <2>3. FlattenSeq(trees) = FlattenSeq(<<>>) \o trees[1]
    BY <2>2, FlatStep
  <2>4. FlattenSeq(trees) = trees[1]
    BY <2>2, <2>3, FlatEmpty
  <2> QED
    BY <2>1, <2>2, <2>4
<1>5. CASE Len(trees) # 0 /\ Len(trees) # 1
  <2>1. Combine(op, trees) = Append(flat, node)
    BY <1>5 DEF Combine, NewCombination, flat, node
  <2>2. Append(flat, node) = flat \o <<node>> /\ <<node>> \in Seq(Node)
    BY <1>1, <1>2, AppendIsConcat
  <2>3. Leaves(flat \o <<node>>) = Leaves(flat) \o Leaves(<<node>>)
    BY <1>1, <2>2, LeavesConcat
  <2>4. Leaves(<<node>>) = <<>>
    BY <1>2, LeavesOne
  <2>5. Leaves(flat) \in Seq(Node)
    BY <1>1, LeavesRow
  <2>6. Leaves(flat) \o <<>> = Leaves(flat)
    BY <2>5
  <2>7. Append(flat, node) \in Seq(Node)
    BY <1>1, <1>2
  <2> QED
    BY <2>1, <2>2, <2>3, <2>4, <2>6, <2>7 DEF flat
<1> QED
  BY <1>3, <1>4, <1>5
-----------------------------------------------------------------------------
(***************************************************************************)
(* Pieces of strings.                                                      *)
(***************************************************************************)
LEMMA SubstrFacts ==
    ASSUME NEW S, NEW s \in Seq(S), NEW a \in Nat, NEW n \in Nat, a + n <= Len(s)
    PROVE  /\ Substr(s, a, a + n) \in Seq(S)
           /\ Len(Substr(s, a, a + n)) = n
           /\ Same(Substr(s, a, a + n), 0, s, a, n)
<1>1. Len(s) \in Nat /\ a + 1 \in Int /\ a + n \in Int
  OBVIOUS
<1>2. \A i \in (a + 1) .. (a + n) : s[i] \in S
  BY <1>1
<1>3. /\ SubSeq(s, a + 1, a + n) \in Seq(S)
      /\ Len(SubSeq(s, a + 1, a + n))
           = IF a + 1 <= a + n THEN a + n - (a + 1) + 1 ELSE 0
      /\ \A i \in 1 .. (a + n - (a + 1) + 1) :
           SubSeq(s, a + 1, a + n)[i] = s[(a + 1) + i - 1]
  BY <1>1, <1>2, SubSeqProperties
<1>4. Len(SubSeq(s, a + 1, a + n)) = n
  BY <1>1, <1>3
<1>5. ASSUME NEW i \in 0 .. (n - 1)
      PROVE  SubSeq(s, a + 1, a + n)[(0 + i) + 1] = s[(a + i) + 1]
  <2>1. (0 + i) + 1 \in 1 .. (a + n - (a + 1) + 1) /\ (a + 1) + ((0 + i) + 1) - 1 = (a + i) + 1
    BY <1>1, <1>5
  <2> QED
    BY <1>3, <2>1
<1> QED
  BY <1>3, <1>4, <1>5 DEF Substr, Same, At

\* Places that hold the same characters have the same substring.
LEMMA SubstrSame ==
    ASSUME NEW S, NEW s \in Seq(S), NEW a \in Nat, NEW n \in Nat, a + n <= Len(s),
           NEW t \in Seq(S), NEW b \in Nat, b + n <= Len(t), Same(s, a, t, b, n)
    PROVE  Substr(s, a, a + n) = Substr(t, b, b + n)
<1>2. PICK u, v : u = Substr(s, a, a + n) /\ v = Substr(t, b, b + n)
  OBVIOUS
<1>3. u \in Seq(S) /\ Len(u) = n /\ Same(u, 0, s, a, n)
  BY <1>2, SubstrFacts
<1>4. v \in Seq(S) /\ Len(v) = n /\ Same(v, 0, t, b, n)
  BY <1>2, SubstrFacts
<1>5. ASSUME NEW k \in 1 .. n
      PROVE  u[k] = v[k]
  <2>1. PICK i \in 0 .. (n - 1) : 0 + i + 1 = k
    <3>1. k - 1 \in 0 .. (n - 1) /\ 0 + (k - 1) + 1 = k
      OBVIOUS
    <3> QED
      BY <3>1
  <2>2. At(u, 0 + i) = At(s, a + i)
    BY <1>3 DEF Same
  <2>3. At(v, 0 + i) = At(t, b + i)
    BY <1>4 DEF Same
  <2>4. At(s, a + i) = At(t, b + i)
    BY DEF Same
  <2>5. At(u, 0 + i) = u[k] /\ At(v, 0 + i) = v[k]
    BY <2>1 DEF At
  <2> QED
    BY <2>2, <2>3, <2>4, <2>5
<1>6. u = v
  BY <1>3, <1>4, <1>5, SeqEqual
<1> QED
  BY <1>2, <1>6

\* A piece of a string between places with no brace open.
Piece(s, a, n) ==
    /\ Braced(s) /\ a \in Nat /\ n \in Nat /\ a + n <= Len(s)
    /\ BraceDepth(s, a) = 0 /\ BraceDepth(s, a + n) = 0

AsDeep(s, a, t, b, n) ==
    \A i \in 0 .. n : /\ BraceDepth(s, a + i) = BraceDepth(t, b + i)
                      /\ BraceDepth(s, a + i) \in {0, 1}

\* In it as many braces are open as in the same piece of another string.
LEMMA PieceDepth ==
    ASSUME NEW s, NEW t, NEW a, NEW b, NEW n, Piece(s, a, n), b \in Nat,
           BraceDepth(t, b) = 0, Same(s, a, t, b, n)
    PROVE  AsDeep(s, a, t, b, n)
<1> SUFFICES ASSUME NEW i \in 0 .. n
             PROVE  /\ BraceDepth(s, a + i) = BraceDepth(t, b + i)
                    /\ BraceDepth(s, a + i) \in {0, 1}
  BY DEF AsDeep
<1>1. a \in Nat /\ n \in Nat /\ a + i \in Nat /\ b + i \in Nat /\ Len(s) \in Nat
        /\ a + i \in 0 .. Len(s)
  <2>1. Len(s) \in Nat /\ a \in Nat /\ n \in Nat /\ a + n <= Len(s)
    BY DEF Piece, Braced
  <2> QED
    BY <2>1
<1>2. BraceDepth(s, a + i) - BraceDepth(s, a) = BraceDepth(t, b + i) - BraceDepth(t, b)
  <2>1. Nests(s, a, t, b, n, LBrace, RBrace)
    BY <1>1, BracesDiffer, DepthShift, Zenon
  <2> QED
    BY <2>1 DEF Nests, BraceDepth
<1>3. BraceDepth(s, a) = 0 /\ BraceDepth(t, b) = 0
  BY DEF Piece
<1>4. BraceDepth(s, a + i) \in Int /\ BraceDepth(t, b + i) \in Int
  BY <1>1, BraceStep
<1>5. BraceDepth(s, a + i) = BraceDepth(t, b + i)
  BY <1>2, <1>3, <1>4
<1>6. BraceDepth(s, a + i) \in {0, 1}
  BY <1>1 DEF Piece, Braced
<1> QED
  BY <1>5, <1>6

\* A piece cut where no brace is open is balanced, and as deep as its place.
LEMMA PieceBraced ==
    ASSUME NEW s, NEW a, NEW n, Piece(s, a, n)
    PROVE  LET t == Substr(s, a, a + n)
           IN  /\ Braced(t) /\ Len(t) = n /\ Same(s, a, t, 0, n)
               /\ \A i \in 0 .. n : BraceDepth(t, i) = BraceDepth(s, a + i)
<1> DEFINE t == Substr(s, a, a + n)
<1>1. s \in Seq(Text) /\ Len(s) \in Nat /\ a \in Nat /\ n \in Nat /\ a + n <= Len(s)
  BY DEF Piece, Braced
<1>2. a \in 0 .. Len(s) /\ a + n \in a .. Len(s) /\ (a + n) - a = n
  BY <1>1
<1>3. t \in Seq(Text) /\ Len(t) = n /\ Same(t, 0, s, a, n)
  BY <1>1, SubstrFacts
<1> HIDE DEF t
<1>4. Same(s, a, t, 0, n)
  BY <1>3 DEF Same
<1>5. 0 \in Nat /\ BraceDepth(t, 0) = 0
  BY BraceStep, 0 \in Nat
<1>6. AsDeep(s, a, t, 0, n)
  BY <1>4, <1>5, PieceDepth
<1>7. \A i \in 0 .. n : BraceDepth(t, i) = BraceDepth(s, a + i) /\ BraceDepth(t, i) \in {0, 1}
  <2> TAKE i \in 0 .. n
  <2>1. 0 + i = i
    BY <1>1
  <2> QED
    BY <1>6, <2>1 DEF AsDeep
<1>8. BraceDepth(t, n) = 0
  <2>1. n \in 0 .. n
    BY <1>1
  <2> QED
    BY <1>7, <2>1 DEF Piece
<1> QED
  BY <1>3, <1>4, <1>7, <1>8 DEF Braced, t
-----------------------------------------------------------------------------
(***************************************************************************)
(* What a character stands for.                                            *)
(***************************************************************************)
\* The digits outside of braces have a finished bracket each, and no element is
\* in braces.
DigitsRefer(s, done) ==
    \A i \in Indices(s) :
      IF BraceDepth(s, i) = 0
      THEN \A d \in 1 .. 10 : At(s, i) = Digits[d] => d <= Len(done)
      ELSE At(s, i) \notin ElementChars

\* A string the parser can be at, with the brackets it has finished.
Good(s, done) == Braced(s) /\ done \in Seq(Seq(Node)) /\ DigitsRefer(s, done)

ElemRow(s, done) == [i \in 0 .. (Len(s) - 1) |-> ElementsAt(s, done, i)]

\* A digit stands for one number only.
LEMMA DigitsDiffer ==
    \A j, k \in 1 .. 10 : Digits[j] = Digits[k] => j = k
<1>1. /\ Digits[1] = "0" /\ Digits[2] = "1" /\ Digits[3] = "2" /\ Digits[4] = "3"
      /\ Digits[5] = "4" /\ Digits[6] = "5" /\ Digits[7] = "6" /\ Digits[8] = "7"
      /\ Digits[9] = "8" /\ Digits[10] = "9"
  BY DEF Digits
<1> HIDE DEF Digits
<1>2. \A k \in 1 .. 10 : \/ k = 1 \/ k = 2 \/ k = 3 \/ k = 4 \/ k = 5
                         \/ k = 6 \/ k = 7 \/ k = 8 \/ k = 9 \/ k = 10
  OBVIOUS
<1> QED
  BY <1>1, <1>2

\* A digit has a number.
LEMMA DigitNumber ==
    ASSUME NEW ch \in ToSet(Digits)
    PROVE  \E k \in 1 .. 10 : Digits[k] = ch
<1>1. DOMAIN Digits = 1 .. 10
  BY DEF Digits
<1> QED
  BY <1>1 DEF ToSet

\* The character of a number below ten is a digit.
LEMMA DigitIn ==
    ASSUME NEW k \in 1 .. 10
    PROVE  Digits[k] \in ToSet(Digits)
<1>1. DOMAIN Digits = 1 .. 10
  BY DEF Digits
<1> QED
  BY <1>1, Zenon DEF ToSet

\* What the parser takes characters for is one thing each.
LEMMA CharsDiffer ==
    /\ \A ch \in ToSet(Digits) : ch \notin ElementChars \cup {LBrace, RBrace, "-", "(", ")", ":"}
    /\ \A ch \in ElementChars : ch \notin {LBrace, RBrace, "-", "(", ")", ":"}
<1>1. \A ch \in ToSet(Digits) : ch \notin ElementChars /\ ch \notin {"-", "(", ")", ":"}
  BY DigitsSet DEF ElementChars
<1>2. \A ch \in ElementChars : ch \notin {"-", "(", ")", ":"}
  BY DEF ElementChars
<1> QED
  BY <1>1, <1>2, BracesDiffer, Zenon

\* The parameters of an element: what is in the braces that follow, if any do.
LEMMA ParamFacts ==
    ASSUME NEW s, Braced(s), NEW i \in 0 .. Len(s) - 1, BraceDepth(s, i) = 0,
           At(s, i + 1) = LBrace, i + 1 < Len(s)
    PROVE  \A q \in (i + 2) .. Len(s) : BraceDepth(s, q) = 0 =>
             \E m \in (i + 2) .. q - 1 :
               /\ At(s, m) = RBrace
               /\ m = Min(Closings(s, i + 1))
               /\ \A j \in (i + 2) .. m : BraceDepth(s, j) = 1
               /\ BraceDepth(s, m + 1) = 0
               /\ ParamAt(s, i) = Substr(s, i + 2, m)
<1> TAKE q \in (i + 2) .. Len(s)
<1> HAVE BraceDepth(s, q) = 0
<1>1. Len(s) \in Nat
  BY DEF Braced
<1>2. PICK p \in Nat : p = i + 1 /\ p \in 0 .. Len(s) - 1 /\ p + 1 = i + 2 /\ q \in (p + 1) .. Len(s)
  <2>1. i + 1 \in Nat /\ i + 1 \in 0 .. Len(s) - 1 /\ (i + 1) + 1 = i + 2
    BY <1>1
  <2> QED
    BY <2>1
<1>3. At(s, p) = LBrace
  BY <1>2
<1>4. PICK m \in (p + 1) .. q - 1 :
             /\ At(s, m) = RBrace
             /\ m = Min(Closings(s, p))
             /\ \A j \in (p + 1) .. m : BraceDepth(s, j) = 1
             /\ BraceDepth(s, m + 1) = 0
  BY <1>2, <1>3, BraceCloses
<1>5. ParamAt(s, i) = Substr(s, i + 2, Min(Closings(s, i + 1)))
  BY DEF ParamAt, Closings
<1> QED
  BY <1>2, <1>4, <1>5

\* The parameter string of an element is a string.
LEMMA ParamType ==
    ASSUME NEW s, Braced(s), NEW i \in 0 .. Len(s) - 1, BraceDepth(s, i) = 0
    PROVE  ParamAt(s, i) \in Seq(Text)
<1>1. Len(s) \in Nat /\ s \in Seq(Text) /\ BraceDepth(s, Len(s)) = 0
  BY DEF Braced
<1>2. CASE ~(i + 1 < Len(s) /\ At(s, i + 1) = LBrace)
  BY <1>2 DEF ParamAt
<1>3. CASE i + 1 < Len(s) /\ At(s, i + 1) = LBrace
  <2>1. Len(s) \in (i + 2) .. Len(s)
    BY <1>1, <1>3
  <2>2. PICK m \in (i + 2) .. Len(s) - 1 : ParamAt(s, i) = Substr(s, i + 2, m)
    BY <1>1, <1>3, <2>1, ParamFacts
  <2>3. PICK n \in Nat : m = i + 2 + n
    <3>1. m - (i + 2) \in Nat /\ m = i + 2 + (m - (i + 2))
      BY <1>1
    <3> QED
      BY <3>1
  <2>4. i + 2 \in Nat /\ i + 2 + n <= Len(s)
    BY <1>1, <2>3
  <2>5. Substr(s, i + 2, i + 2 + n) \in Seq(Text)
    BY <1>1, <2>4, SubstrFacts
  <2> QED
    BY <2>2, <2>3, <2>5
<1> QED
  BY <1>2, <1>3

\* The elements at a place: none in braces or at a delimiter, those of its
\* bracket at a digit, itself at an element.
LEMMA ElemNone ==
    ASSUME NEW s, NEW done, NEW i,
           BraceDepth(s, i) # 0 \/ At(s, i) \in {LBrace, RBrace, "-", "(", ")", ":"}
    PROVE  ElementsAt(s, done, i) = <<>>
<1>1. ~(BraceDepth(s, i) = 0 /\ At(s, i) \in ElementChars)
        /\ ~(BraceDepth(s, i) = 0 /\ At(s, i) \in ToSet(Digits))
  BY CharsDiffer, Zenon
<1> QED
  BY <1>1 DEF ElementsAt

\* The element at an element's letter is the one the parser makes there.
LEMMA ElemElement ==
    ASSUME NEW s, NEW done, NEW i, BraceDepth(s, i) = 0, At(s, i) \in ElementChars
    PROVE  ElementsAt(s, done, i) = CreateNewComponant(At(s, i), ParamAt(s, i))
<1>1. ~(BraceDepth(s, i) = 0 /\ At(s, i) \in ToSet(Digits))
  BY CharsDiffer, Zenon
<1> QED
  BY <1>1 DEF ElementsAt

\* The elements at a digit are the leaves of the bracket it stands for.
LEMMA ElemDigit ==
    ASSUME NEW s, NEW done, NEW i, BraceDepth(s, i) = 0, NEW k \in 1 .. 10, At(s, i) = Digits[k]
    PROVE  ElementsAt(s, done, i) = Leaves(done[k])
<1>1. At(s, i) \in ToSet(Digits)
  BY DigitIn
<1>2. ~(BraceDepth(s, i) = 0 /\ At(s, i) \in ElementChars)
  BY <1>1, CharsDiffer, Zenon
<1>3. (CHOOSE j \in 1 .. 10 : Digits[j] = At(s, i)) = k
  BY DigitsDiffer
<1> QED
  BY <1>1, <1>2, <1>3 DEF ElementsAt

\* What the parser makes of an element's letter is a tree of that one leaf.
LEMMA ElementNode ==
    ASSUME NEW ch \in ElementChars, NEW param \in Seq(Text)
    PROVE  /\ CreateNewComponant(ch, param) \in Seq(Node)
           /\ Leaves(CreateNewComponant(ch, param)) = CreateNewComponant(ch, param)
<1> DEFINE node == [op |-> ch, param |-> param, size |-> 0]
<1>1. ch \in Text
  BY DEF ElementChars, Text
<1>2. node \in Node /\ node.op \in ElementChars
  BY <1>1 DEF Node
<1> HIDE DEF node
<1>3. Leaves(<<node>>) = LeafOf(node)
  BY <1>2, LeavesOne
<1>4. LeafOf(node) = <<node>>
  BY <1>2 DEF LeafOf
<1> QED
  BY <1>2, <1>3, <1>4 DEF CreateNewComponant, node

\* The elements at a place are a sequence of nodes.
LEMMA ElemType ==
    ASSUME NEW s, NEW done, Good(s, done), NEW i \in 0 .. Len(s) - 1
    PROVE  ElementsAt(s, done, i) \in Seq(Node)
<1>1. Braced(s) /\ done \in Seq(Seq(Node)) /\ DigitsRefer(s, done)
  BY DEF Good
<1>2. CASE BraceDepth(s, i) = 0 /\ At(s, i) \in ElementChars
  <2>1. ParamAt(s, i) \in Seq(Text)
    BY <1>1, <1>2, ParamType
  <2>2. CreateNewComponant(At(s, i), ParamAt(s, i)) \in Seq(Node)
    BY <1>2, <2>1, ElementNode
  <2> QED
    BY <1>2, <2>2, ElemElement
<1>3. CASE BraceDepth(s, i) = 0 /\ At(s, i) \in ToSet(Digits)
  <2>1. PICK k \in 1 .. 10 : Digits[k] = At(s, i)
    BY <1>3, DigitNumber
  <2>2. k <= Len(done)
    BY <1>1, <1>3, <2>1 DEF DigitsRefer, Indices
  <2>3. done[k] \in Seq(Node)
    BY <1>1, <2>2
  <2>4. Leaves(done[k]) \in Seq(Node)
    BY <2>3, LeavesRow
  <2> QED
    BY <1>3, <2>1, <2>4, ElemDigit
<1>4. CASE ~(BraceDepth(s, i) = 0 /\ At(s, i) \in ElementChars)
           /\ ~(BraceDepth(s, i) = 0 /\ At(s, i) \in ToSet(Digits))
  <2>1. ElementsAt(s, done, i) = <<>>
    BY <1>4 DEF ElementsAt
  <2> QED
    BY <2>1
<1> QED
  BY <1>2, <1>3, <1>4

\* The elements at the places of a string can be laid in a row.
LEMMA ElemRowType ==
    ASSUME NEW s, NEW done, Good(s, done)
    PROVE  Len(s) \in Nat /\ ElemRow(s, done) \in [0 .. (Len(s) - 1) -> Seq(Node)]
BY ElemType DEF ElemRow, Good, Braced

\* The elements of a string are the row of those at its places.
LEMMA ElementsRow ==
    ASSUME NEW s, NEW done, Good(s, done)
    PROVE  /\ Elements(s, done) = Row(ElemRow(s, done), 0, Len(s))
           /\ Elements(s, done) \in Seq(Node)
<1>1. Len(s) \in Nat /\ DOMAIN s = 1 .. Len(s) /\ Len(s) - 0 = Len(s)
  BY DEF Good, Braced
<1>2. ASSUME NEW k \in 1 .. Len(s)
      PROVE  ElementsAt(s, done, k - 1) = ElemRow(s, done)[0 + k - 1]
  <2>1. 0 + k - 1 \in 0 .. (Len(s) - 1) /\ 0 + k - 1 = k - 1
    BY <1>1
  <2> QED
    BY <2>1 DEF ElemRow
<1>3. [k \in 1 .. Len(s) |-> ElementsAt(s, done, k - 1)]
        = [k \in 1 .. Len(s) |-> ElemRow(s, done)[0 + k - 1]]
  BY <1>2
<1>4. Elements(s, done) = Row(ElemRow(s, done), 0, Len(s))
  BY <1>1, <1>3 DEF Elements, Row
<1>5. Row(ElemRow(s, done), 0, Len(s)) \in Seq(Node)
  <2>1. 0 \in 0 .. Len(s) /\ Len(s) \in 0 .. Len(s)
    BY <1>1
  <2> QED
    BY <2>1, ElemRowType, RowType
<1> QED
  BY <1>4, <1>5

\* A character more.
LEMMA ElemRowStep ==
    ASSUME NEW s, NEW done, Good(s, done), NEW i \in 0 .. Len(s) - 1
    PROVE  /\ Row(ElemRow(s, done), 0, i) \in Seq(Node)
           /\ Row(ElemRow(s, done), 0, i + 1)
                = Row(ElemRow(s, done), 0, i) \o ElementsAt(s, done, i)
<1>1. PICK N, e : N = Len(s) /\ e = ElemRow(s, done)
  OBVIOUS
<1>2. N \in Nat /\ e \in [0 .. (N - 1) -> Seq(Node)]
  BY <1>1, ElemRowType
<1>3. 0 \in 0 .. N /\ i \in 0 .. N /\ i \in 0 .. (N - 1)
  BY <1>1, <1>2
<1>4. Row(e, 0, i + 1) = Row(e, 0, i) \o e[i]
  BY <1>2, <1>3, RowStep
<1>5. Row(e, 0, i) \in Seq(Node)
  BY <1>2, <1>3, RowType
<1>6. e[i] = ElementsAt(s, done, i)
  BY <1>1, <1>3 DEF ElemRow
<1> QED
  BY <1>1, <1>4, <1>5, <1>6
-----------------------------------------------------------------------------
(***************************************************************************)
(* The elements of a piece of a string are those the piece has by itself.  *)
(***************************************************************************)
\* No parameters follow that are cut off.
CleanEnd(s, c) == c = Len(s) \/ At(s, c) # LBrace

\* The parameters after a place in a piece end at m, which is not after the
\* first end in another.
ParamEnds(s, a, t, b, n, i, m) ==
    /\ BraceDepth(s, a + m + 1) = 0
    /\ ParamAt(s, a + i) = Substr(s, a + i + 2, a + m)
    /\ \A k \in Nat : i + 2 <= k /\ k < n /\ BraceDepth(t, b + k + 1) = 0 => m <= k

\* Parameters that begin in a piece end in it.
LEMMA ParamEnd ==
    ASSUME NEW s, NEW t, NEW a, NEW b, NEW n, Piece(s, a, n), Piece(t, b, n),
           Same(s, a, t, b, n), NEW i \in 0 .. n - 1, i + 1 < n,
           BraceDepth(s, a + i) = 0, At(s, a + i + 1) = LBrace
    PROVE  \E m \in (i + 2) .. n - 1 : ParamEnds(s, a, t, b, n, i, m)
<1>1. /\ Len(s) \in Nat /\ a \in Nat /\ n \in Nat /\ a + n <= Len(s) /\ Braced(s)
      /\ BraceDepth(s, a) = 0 /\ BraceDepth(s, a + n) = 0
      /\ Len(t) \in Nat /\ b \in Nat /\ b + n <= Len(t) /\ Braced(t) /\ BraceDepth(t, b) = 0
  BY DEF Piece, Braced
<1>2. PICK x \in Nat : /\ x = a + i /\ x \in 0 .. Len(s) - 1 /\ x + 1 = a + i + 1
                       /\ x + 2 = a + i + 2 /\ x + 1 < Len(s)
  <2>1. a + i \in Nat /\ a + i \in 0 .. Len(s) - 1 /\ a + i + 1 < Len(s)
    BY <1>1
  <2> QED
    BY <2>1
<1>3. BraceDepth(s, x) = 0 /\ At(s, x + 1) = LBrace
  BY <1>2
<1>4. \A q \in (x + 2) .. Len(s) : BraceDepth(s, q) = 0 =>
             \E m \in (x + 2) .. q - 1 :
               /\ At(s, m) = RBrace
               /\ m = Min(Closings(s, x + 1))
               /\ \A j \in (x + 2) .. m : BraceDepth(s, j) = 1
               /\ BraceDepth(s, m + 1) = 0
               /\ ParamAt(s, x) = Substr(s, x + 2, m)
  BY <1>1, <1>2, <1>3, ParamFacts
<1>5. a + n \in (x + 2) .. Len(s)
  <2>1. a + n # x + 1 \/ i + 1 # n
    BY <1>1, <1>2
  <2> QED
    BY <1>1, <1>2
<1>6. PICK y \in (x + 2) .. (a + n) - 1 :
               /\ At(s, y) = RBrace
               /\ y = Min(Closings(s, x + 1))
               /\ \A j \in (x + 2) .. y : BraceDepth(s, j) = 1
               /\ BraceDepth(s, y + 1) = 0
               /\ ParamAt(s, x) = Substr(s, x + 2, y)
  BY <1>1, <1>4, <1>5
<1>7. PICK m \in (i + 2) .. n - 1 : y = a + m
  <2>1. y - a \in (i + 2) .. n - 1 /\ y = a + (y - a)
    BY <1>1, <1>2
  <2> QED
    BY <2>1
<1>8. ASSUME NEW k \in Nat, i + 2 <= k, k < n, BraceDepth(t, b + k + 1) = 0
      PROVE  m <= k
  <2>1. AsDeep(s, a, t, b, n)
    BY <1>1, PieceDepth
  <2>2. k + 1 \in 0 .. n /\ a + (k + 1) = a + k + 1 /\ b + (k + 1) = b + k + 1
    BY <1>1, <1>8
  <2>3. BraceDepth(s, a + k + 1) = 0
    BY <1>8, <2>1, <2>2 DEF AsDeep
  <2>4. a + k + 1 \in (x + 2) .. Len(s)
    BY <1>1, <1>2, <1>8
  <2>5. \E z \in (x + 2) .. (a + k + 1) - 1 : z = Min(Closings(s, x + 1))
    BY <1>4, <2>3, <2>4
  <2>6. y <= (a + k + 1) - 1
    BY <1>6, <2>5
  <2> QED
    BY <1>1, <1>7, <2>6
<1> QED
  BY <1>2, <1>6, <1>7, <1>8 DEF ParamEnds

\* An element has the same parameter string in two places that read the same.
LEMMA ParamSame ==
    ASSUME NEW s, NEW t, NEW a, NEW b, NEW n, Piece(s, a, n), Piece(t, b, n),
           Same(s, a, t, b, n), CleanEnd(s, a + n), CleanEnd(t, b + n),
           NEW i \in 0 .. n - 1, BraceDepth(s, a + i) = 0
    PROVE  ParamAt(s, a + i) = ParamAt(t, b + i)
<1>1. /\ Len(s) \in Nat /\ a \in Nat /\ n \in Nat /\ a + n <= Len(s) /\ s \in Seq(Text)
      /\ Len(t) \in Nat /\ b \in Nat /\ b + n <= Len(t) /\ t \in Seq(Text)
      /\ BraceDepth(t, b) = 0
  BY DEF Piece, Braced
<1>2. i \in 0 .. n /\ i \in Nat
  BY <1>1
<1>3. BraceDepth(t, b + i) = 0
  <2>1. AsDeep(s, a, t, b, n)
    BY <1>1, PieceDepth
  <2> QED
    BY <1>2, <2>1 DEF AsDeep
<1>4. CASE i + 1 < n
  <2>1. i + 1 \in 0 .. n - 1 /\ a + (i + 1) = a + i + 1 /\ b + (i + 1) = b + i + 1
          /\ a + i + 1 < Len(s) /\ b + i + 1 < Len(t)
    BY <1>1, <1>4
  <2>2. At(s, a + i + 1) = At(t, b + i + 1)
    BY <2>1 DEF Same
  <2>3. CASE At(s, a + i + 1) # LBrace
    BY <2>2, <2>3 DEF ParamAt
  <2>4. CASE At(s, a + i + 1) = LBrace
    <3>1. PICK m \in (i + 2) .. n - 1 : ParamEnds(s, a, t, b, n, i, m)
      BY <1>4, <2>4, ParamEnd
    <3>2. Same(t, b, s, a, n)
      BY DEF Same
    <3>3. At(t, b + i + 1) = LBrace
      BY <2>2, <2>4
    <3>4. PICK k \in (i + 2) .. n - 1 : ParamEnds(t, b, s, a, n, i, k)
      BY <1>3, <1>4, <3>2, <3>3, ParamEnd
    <3>5. m \in Nat /\ k \in Nat /\ i + 2 <= m /\ i + 2 <= k /\ m < n /\ k < n
      BY <1>1
    <3>6. m <= k /\ k <= m
      BY <3>1, <3>4, <3>5 DEF ParamEnds
    <3>7. k = m
      BY <3>5, <3>6
    <3>8. PICK l \in Nat : m = i + 2 + l
      <4>1. m - (i + 2) \in Nat /\ m = i + 2 + (m - (i + 2))
        BY <1>1
      <4> QED
        BY <4>1
    <3>9. Same(s, a + i + 2, t, b + i + 2, l)
      <4> SUFFICES ASSUME NEW j \in 0 .. l - 1
                   PROVE  At(s, a + i + 2 + j) = At(t, b + i + 2 + j)
        BY DEF Same
      <4>1. i + 2 + j \in 0 .. n - 1 /\ a + (i + 2 + j) = a + i + 2 + j
              /\ b + (i + 2 + j) = b + i + 2 + j
        BY <1>1, <3>5, <3>8
      <4>2. At(s, a + (i + 2 + j)) = At(t, b + (i + 2 + j))
        BY <4>1 DEF Same
      <4> QED
        BY <4>1, <4>2
    <3>10. PICK p, q \in Nat : p = a + i + 2 /\ q = b + i + 2 /\ p + l = a + m /\ q + l = b + m
                                 /\ p + l <= Len(s) /\ q + l <= Len(t)
      <4>1. a + i + 2 \in Nat /\ b + i + 2 \in Nat /\ a + i + 2 + l = a + m
              /\ b + i + 2 + l = b + m /\ a + m <= Len(s) /\ b + m <= Len(t)
        BY <1>1, <3>5, <3>8
      <4> QED
        BY <4>1
    <3>11. Same(s, p, t, q, l)
      BY <3>9, <3>10
    <3>12. Substr(s, p, p + l) = Substr(t, q, q + l)
      BY <1>1, <3>8, <3>10, <3>11, SubstrSame
    <3>13. ParamAt(s, a + i) = Substr(s, p, p + l)
      BY <3>1, <3>10 DEF ParamEnds
    <3>14. ParamAt(t, b + i) = Substr(t, q, q + l)
      BY <3>4, <3>7, <3>10 DEF ParamEnds
    <3> QED
      BY <3>12, <3>13, <3>14
  <2> QED
    BY <2>3, <2>4
<1>5. CASE ~(i + 1 < n)
  <2>1. a + i + 1 = a + n /\ b + i + 1 = b + n
    BY <1>1, <1>5
  <2>2. ~(a + i + 1 < Len(s) /\ At(s, a + i + 1) = LBrace)
    BY <1>1, <2>1 DEF CleanEnd
  <2>3. ~(b + i + 1 < Len(t) /\ At(t, b + i + 1) = LBrace)
    BY <1>1, <2>1 DEF CleanEnd
  <2> QED
    BY <2>2, <2>3 DEF ParamAt
<1> QED
  BY <1>4, <1>5

\* Two places that read the same have the same elements.
LEMMA ElemSame ==
    ASSUME NEW s, NEW t, NEW a, NEW b, NEW n, Piece(s, a, n), Piece(t, b, n),
           Same(s, a, t, b, n), CleanEnd(s, a + n), CleanEnd(t, b + n),
           NEW done, NEW i \in 0 .. n - 1
    PROVE  ElementsAt(s, done, a + i) = ElementsAt(t, done, b + i)
<1>1. a \in Nat /\ n \in Nat /\ b \in Nat /\ BraceDepth(t, b) = 0 /\ i \in 0 .. n
  BY DEF Piece
<1>2. BraceDepth(s, a + i) = BraceDepth(t, b + i)
  <2>1. AsDeep(s, a, t, b, n)
    BY <1>1, PieceDepth
  <2> QED
    BY <1>1, <2>1 DEF AsDeep
<1>3. At(s, a + i) = At(t, b + i)
  BY DEF Same
<1>4. CASE BraceDepth(s, a + i) = 0
  <2>1. ParamAt(s, a + i) = ParamAt(t, b + i)
    BY <1>4, ParamSame
  <2> QED
    BY <1>2, <1>3, <2>1, Zenon DEF ElementsAt
<1>5. CASE BraceDepth(s, a + i) # 0
  <2>1. ElementsAt(s, done, a + i) = <<>>
    BY <1>5, ElemNone, Zenon
  <2>2. ElementsAt(t, done, b + i) = <<>>
    BY <1>2, <1>5, ElemNone, Zenon
  <2> QED
    BY <2>1, <2>2
<1> QED
  BY <1>4, <1>5

\* The elements of a piece are those of the same piece in another string.
ElementsAlike(s, a, t, b, n, done) ==
    \A i \in 0 .. n - 1 : ElementsAt(s, done, a + i) = ElementsAt(t, done, b + i)

\* Two stretches that read the same have the same elements, place by place.
LEMMA ElemsSame ==
    ASSUME NEW s, NEW t, NEW a, NEW b, NEW n, Piece(s, a, n), Piece(t, b, n),
           Same(s, a, t, b, n), CleanEnd(s, a + n), CleanEnd(t, b + n), NEW done
    PROVE  ElementsAlike(s, a, t, b, n, done)
BY ElemSame DEF ElementsAlike

\* The part of a string between places with no brace open is a string the
\* parser can be at, and has the elements of its place.
LEMMA PieceElements ==
    ASSUME NEW s, NEW done, NEW a, NEW n, Good(s, done), Piece(s, a, n), CleanEnd(s, a + n)
    PROVE  /\ Good(Substr(s, a, a + n), done)
           /\ Elements(Substr(s, a, a + n), done) = Row(ElemRow(s, done), a, a + n)
<1> DEFINE t == Substr(s, a, a + n)
<1>1. /\ Len(s) \in Nat /\ a \in Nat /\ n \in Nat /\ a + n <= Len(s)
      /\ done \in Seq(Seq(Node)) /\ DigitsRefer(s, done)
  BY DEF Piece, Braced, Good
<1>2. /\ Braced(t) /\ Len(t) = n /\ Same(s, a, t, 0, n)
      /\ \A i \in 0 .. n : BraceDepth(t, i) = BraceDepth(s, a + i)
  BY PieceBraced
<1> HIDE DEF t
<1>3. DigitsRefer(t, done)
  <2> SUFFICES ASSUME NEW i \in 0 .. n - 1
               PROVE  IF BraceDepth(t, i) = 0
                      THEN \A d \in 1 .. 10 : At(t, i) = Digits[d] => d <= Len(done)
                      ELSE At(t, i) \notin ElementChars
    BY <1>2 DEF DigitsRefer, Indices
  <2>1. a + i \in Indices(s) /\ i \in 0 .. n /\ 0 + i = i
    BY <1>1 DEF Indices
  <2>2. At(s, a + i) = At(t, i)
    BY <1>2, <2>1 DEF Same
  <2>3. BraceDepth(s, a + i) = BraceDepth(t, i)
    BY <1>2, <2>1
  <2>4. IF BraceDepth(s, a + i) = 0
        THEN \A d \in 1 .. 10 : At(s, a + i) = Digits[d] => d <= Len(done)
        ELSE At(s, a + i) \notin ElementChars
    BY <1>1, <2>1 DEF DigitsRefer
  <2> QED
    BY <2>2, <2>3, <2>4
<1>4. Good(t, done)
  BY <1>1, <1>2, <1>3 DEF Good
<1>5. Elements(t, done) = Row(ElemRow(t, done), 0, n)
  BY <1>2, <1>4, ElementsRow
<1>6. Alike(ElemRow(t, done), 0, n, ElemRow(s, done), a, a + n)
  <2> SUFFICES ASSUME NEW i \in 0 .. (n - 1)
               PROVE  ElemRow(t, done)[0 + i] = ElemRow(s, done)[a + i]
    <3>1. n = 0 + n
      BY <1>1
    <3> QED
      BY <1>1, <3>1 DEF Alike
  <2>1. Piece(t, 0, n) /\ CleanEnd(t, 0 + n)
    <3>1. 0 + n = n /\ 0 \in Nat /\ n \in 0 .. n /\ 0 \in 0 .. n /\ a + 0 = a
      BY <1>1
    <3>2. BraceDepth(t, 0) = 0 /\ BraceDepth(t, n) = 0
      BY <1>2, <3>1 DEF Piece
    <3> QED
      BY <1>1, <1>2, <3>1, <3>2 DEF Piece, CleanEnd
  <2>2. ElementsAt(s, done, a + i) = ElementsAt(t, done, 0 + i)
    BY <1>2, <2>1, ElemSame
  <2>3. a + i \in 0 .. (Len(s) - 1) /\ 0 + i \in 0 .. (Len(t) - 1)
    BY <1>1, <1>2
  <2> QED
    BY <2>2, <2>3 DEF ElemRow
<1>7. Row(ElemRow(t, done), 0, n) = Row(ElemRow(s, done), a, a + n)
  BY <1>6, RowSame
<1> QED
  BY <1>4, <1>5, <1>7 DEF t
-----------------------------------------------------------------------------
(***************************************************************************)
(* Tokenize: no element is lost between the tokens.                        *)
(***************************************************************************)
AllBraced(tokens) == tokens \in Seq(Seq(Text)) /\ \A k \in 1 .. Len(tokens) : Braced(tokens[k])

AllGood(tokens, done) ==
    tokens \in Seq(Seq(Text)) /\ \A k \in 1 .. Len(tokens) : Good(tokens[k], done)

AllElements(tokens, done) == FlattenSeq([k \in 1 .. Len(tokens) |-> Elements(tokens[k], done)])

\* The elements of several strings are sequences of nodes.
LEMMA AllElementsType ==
    ASSUME NEW tokens, NEW done, AllGood(tokens, done)
    PROVE  [k \in 1 .. Len(tokens) |-> Elements(tokens[k], done)] \in Seq(Seq(Node))
<1>1. Len(tokens) \in Nat
  BY DEF AllGood
<1>2. \A k \in 1 .. Len(tokens) : Elements(tokens[k], done) \in Seq(Node)
  BY ElementsRow DEF AllGood
<1> QED
  BY <1>1, <1>2

\* One more string adds its elements at the end.
LEMMA AllElementsStep ==
    ASSUME NEW tokens, NEW done, AllGood(tokens, done), NEW t \in Seq(Text), Good(t, done)
    PROVE  /\ AllGood(Append(tokens, t), done)
           /\ AllElements(Append(tokens, t), done) = AllElements(tokens, done) \o Elements(t, done)
<1> DEFINE more == Append(tokens, t)
           x == [k \in 1 .. Len(tokens) |-> Elements(tokens[k], done)]
           y == [k \in 1 .. Len(more) |-> Elements(more[k], done)]
<1>1. tokens \in Seq(Seq(Text)) /\ Len(tokens) \in Nat
        /\ \A k \in 1 .. Len(tokens) : Good(tokens[k], done)
  BY DEF AllGood
<1>2. more \in Seq(Seq(Text)) /\ Len(more) = Len(tokens) + 1
        /\ (\A k \in 1 .. Len(tokens) : more[k] = tokens[k]) /\ more[Len(tokens) + 1] = t
  BY <1>1
<1> HIDE DEF more
<1>3. AllGood(more, done)
  <2> SUFFICES ASSUME NEW k \in 1 .. Len(more)
               PROVE  Good(more[k], done)
    BY <1>2 DEF AllGood
  <2>1. CASE k \in 1 .. Len(tokens)
    BY <1>1, <1>2, <2>1
  <2>2. CASE k \notin 1 .. Len(tokens)
    <3>1. k = Len(tokens) + 1
      BY <1>1, <1>2, <2>2
    <3> QED
      BY <1>2, <3>1
  <2> QED
    BY <2>1, <2>2
<1>4. x \in Seq(Seq(Node)) /\ Len(x) = Len(tokens)
  BY <1>1, AllElementsType
<1>5. y \in Seq(Seq(Node)) /\ Len(y) = Len(tokens) + 1
  <2>1. y \in Seq(Seq(Node))
    BY <1>3, AllElementsType
  <2> QED
    BY <1>1, <1>2, <2>1
<1>6. Elements(t, done) \in Seq(Node)
  BY ElementsRow
<1>7. \A k \in 1 .. Len(tokens) : y[k] = x[k]
  BY <1>1, <1>2
<1>8. y[Len(tokens) + 1] = Elements(t, done)
  BY <1>1, <1>2
<1>9. y = Append(x, Elements(t, done))
  <2> HIDE DEF x, y
  <2> DEFINE z == Append(x, Elements(t, done))
  <2>1. z \in Seq(Seq(Node)) /\ Len(z) = Len(tokens) + 1
          /\ (\A k \in 1 .. Len(tokens) : z[k] = x[k]) /\ z[Len(tokens) + 1] = Elements(t, done)
    BY <1>4, <1>6
  <2> HIDE DEF z
  <2>2. ASSUME NEW k \in 1 .. Len(y)
        PROVE  y[k] = z[k]
    <3>1. CASE k \in 1 .. Len(tokens)
      BY <1>7, <2>1, <3>1
    <3>2. CASE k \notin 1 .. Len(tokens)
      <4>1. k = Len(tokens) + 1
        BY <1>1, <1>5, <3>2
      <4> QED
        BY <1>8, <2>1, <4>1
    <3> QED
      BY <3>1, <3>2
  <2>3. y = z
    BY <1>5, <2>1, <2>2, SeqEqual
  <2> QED
    BY <2>3 DEF z
<1>10. FlattenSeq(y) = FlattenSeq(x) \o Elements(t, done)
  <2> HIDE DEF x, y
  <2> QED
    BY <1>4, <1>6, <1>9, FlatStep
<1> QED
  BY <1>3, <1>10 DEF AllElements, more

\* The tokens up to c, and the next one up to i.
TokensDone(s, done, at, c, i) ==
    /\ c \in Nat /\ c <= i /\ BraceDepth(s, c) = 0
    /\ at.token = Substr(s, c, i)
    /\ AllBraced(at.tokens)
    /\ Good(s, done) => /\ AllGood(at.tokens, done)
                        /\ AllElements(at.tokens, done) = Row(ElemRow(s, done), 0, c)

TokenState == [tokens : Seq(Seq(Text)), token : Seq(Text)]

TokenNext(s, at, i) ==
    IF At(s, i) = "-" /\ BraceDepth(s, i) = 0
    THEN [tokens |-> Append(at.tokens, at.token), token |-> <<>>]
    ELSE [tokens |-> at.tokens, token |-> Append(at.token, At(s, i))]

\* The token that ends at i.
LEMMA TokenEnds ==
    ASSUME NEW s, NEW done, Braced(s), NEW at, NEW c, NEW i \in 0 .. Len(s),
           TokensDone(s, done, at, c, i), BraceDepth(s, i) = 0, CleanEnd(s, i)
    PROVE  /\ AllBraced(Append(at.tokens, at.token))
           /\ Good(s, done) =>
                /\ AllGood(Append(at.tokens, at.token), done)
                /\ AllElements(Append(at.tokens, at.token), done) = Row(ElemRow(s, done), 0, i)
<1>1. Len(s) \in Nat /\ c \in Nat /\ c <= i /\ BraceDepth(s, c) = 0 /\ at.token = Substr(s, c, i)
        /\ AllBraced(at.tokens)
  BY DEF TokensDone, Braced
<1>2. PICK n \in Nat : i = c + n
  <2>1. i - c \in Nat /\ i = c + (i - c)
    BY <1>1
  <2> QED
    BY <2>1
<1>3. Piece(s, c, n)
  BY <1>1, <1>2 DEF Piece
<1>4. Braced(at.token) /\ at.token \in Seq(Text)
  BY <1>1, <1>2, <1>3, PieceBraced DEF Braced
<1>5. AllBraced(Append(at.tokens, at.token))
  <2>1. at.tokens \in Seq(Seq(Text)) /\ \A k \in 1 .. Len(at.tokens) : Braced(at.tokens[k])
    BY <1>1 DEF AllBraced
  <2>2. PICK x, t : x = at.tokens /\ t = at.token
    OBVIOUS
  <2>3. x \in Seq(Seq(Text)) /\ t \in Seq(Text) /\ Braced(t) /\ \A k \in 1 .. Len(x) : Braced(x[k])
    BY <1>4, <2>1, <2>2
  <2>4. Append(x, t) \in Seq(Seq(Text)) /\ Len(Append(x, t)) = Len(x) + 1 /\ Len(x) \in Nat
          /\ (\A k \in 1 .. Len(x) : Append(x, t)[k] = x[k]) /\ Append(x, t)[Len(x) + 1] = t
    BY <2>3
  <2>5. ASSUME NEW k \in 1 .. Len(Append(x, t))
        PROVE  Braced(Append(x, t)[k])
    <3>1. k \in 1 .. Len(x) \/ k = Len(x) + 1
      BY <2>4
    <3> QED
      BY <2>3, <2>4, <3>1
  <2> QED
    BY <2>2, <2>4, <2>5 DEF AllBraced
<1>6. ASSUME Good(s, done)
      PROVE  /\ AllGood(Append(at.tokens, at.token), done)
             /\ AllElements(Append(at.tokens, at.token), done) = Row(ElemRow(s, done), 0, i)
  <2>1. AllGood(at.tokens, done) /\ AllElements(at.tokens, done) = Row(ElemRow(s, done), 0, c)
    BY <1>6 DEF TokensDone
  <2>2. Good(Substr(s, c, c + n), done)
          /\ Elements(Substr(s, c, c + n), done) = Row(ElemRow(s, done), c, c + n)
    BY <1>2, <1>3, <1>6, PieceElements
  <2>3. Good(at.token, done) /\ Elements(at.token, done) = Row(ElemRow(s, done), c, i)
    BY <1>1, <1>2, <2>2
  <2>4. AllGood(Append(at.tokens, at.token), done)
          /\ AllElements(Append(at.tokens, at.token), done)
               = AllElements(at.tokens, done) \o Elements(at.token, done)
    BY <1>4, <2>1, <2>3, AllElementsStep
  <2>5. Row(ElemRow(s, done), 0, i) = Row(ElemRow(s, done), 0, c) \o Row(ElemRow(s, done), c, i)
    <3>1. 0 \in 0 .. Len(s) /\ c \in 0 .. Len(s) /\ i \in c .. Len(s)
      BY <1>1
    <3>2. ElemRow(s, done) \in [0 .. (Len(s) - 1) -> Seq(Node)]
      BY <1>6, ElemRowType
    <3> QED
      BY <1>1, <3>1, <3>2, RowSplit
  <2> QED
    BY <2>1, <2>3, <2>4, <2>5
<1> QED
  BY <1>5, <1>6

\* The substring between a place and itself is empty.
LEMMA SubstrNone ==
    ASSUME NEW S, NEW s \in Seq(S), NEW a \in Nat, a <= Len(s)
    PROVE  Substr(s, a, a) = <<>>
<1>1. a + 0 = a /\ 0 \in Nat
  OBVIOUS
<1>2. Substr(s, a, a + 0) \in Seq(S) /\ Len(Substr(s, a, a + 0)) = 0
  BY <1>1, SubstrFacts
<1> QED
  BY <1>1, <1>2

\* A substring that goes one place further has that character at its end.
LEMMA SubstrOneMore ==
    ASSUME NEW S, NEW s \in Seq(S), NEW a \in Nat, NEW i \in Nat, a <= i, i < Len(s)
    PROVE  Append(Substr(s, a, i), At(s, i)) = Substr(s, a, i + 1)
<1>1. PICK n \in Nat : i = a + n
  <2>1. i - a \in Nat /\ i = a + (i - a)
    OBVIOUS
  <2> QED
    BY <2>1
<1>2. n + 1 \in Nat /\ i + 1 = a + (n + 1) /\ a + (n + 1) <= Len(s) /\ a + n <= Len(s) /\ Len(s) \in Nat
  BY <1>1
<1>3. PICK u, v : u = Substr(s, a, a + n) /\ v = Substr(s, a, a + (n + 1))
  OBVIOUS
<1>4. u \in Seq(S) /\ Len(u) = n /\ Same(u, 0, s, a, n)
  BY <1>2, <1>3, SubstrFacts
<1>5. v \in Seq(S) /\ Len(v) = n + 1 /\ Same(v, 0, s, a, n + 1)
  BY <1>2, <1>3, SubstrFacts
<1>6. At(s, i) \in S
  <2>1. i + 1 \in 1 .. Len(s)
    BY <1>2
  <2> QED
    BY <2>1 DEF At
<1>7. PICK w : w = Append(u, At(s, i))
  OBVIOUS
<1>8. w \in Seq(S) /\ Len(w) = n + 1 /\ (\A k \in 1 .. n : w[k] = u[k]) /\ w[n + 1] = At(s, i)
  BY <1>4, <1>6, <1>7
<1>9. ASSUME NEW k \in 1 .. (n + 1)
      PROVE  w[k] = v[k]
  <2>1. PICK j \in 0 .. n : k = j + 1
    <3>1. k - 1 \in 0 .. n /\ k = (k - 1) + 1
      OBVIOUS
    <3> QED
      BY <3>1
  <2>2. j \in 0 .. (n + 1) - 1 /\ 0 + j = j
    OBVIOUS
  <2>3. At(v, j) = At(s, a + j)
    BY <1>5, <2>2 DEF Same
  <2>4. CASE j = n
    BY <1>1, <1>8, <2>1, <2>3, <2>4 DEF At
  <2>5. CASE j # n
    <3>1. j \in 0 .. n - 1 /\ k \in 1 .. n
      BY <2>1, <2>5
    <3>2. At(u, j) = At(s, a + j)
      BY <1>4, <2>2, <3>1 DEF Same
    <3> QED
      BY <1>8, <2>1, <2>3, <3>1, <3>2 DEF At
  <2> QED
    BY <2>4, <2>5
<1>10. w = v
  BY <1>5, <1>8, <1>9, SeqEqual
<1> QED
  BY <1>1, <1>2, <1>3, <1>7, <1>10

\* One character more.
LEMMA TokenStep ==
    ASSUME NEW s, NEW done, Braced(s), NEW at, NEW c, NEW i \in 0 .. Len(s) - 1,
           TokensDone(s, done, at, c, i)
    PROVE  \E d : TokensDone(s, done, TokenNext(s, at, i), d, i + 1)
<1>1. /\ s \in Seq(Text) /\ Len(s) \in Nat /\ c \in Nat /\ c <= i /\ BraceDepth(s, c) = 0
      /\ at.token = Substr(s, c, i) /\ AllBraced(at.tokens) /\ i \in 0 .. Len(s) /\ i \in Nat
      /\ i + 1 \in Nat /\ i + 1 <= Len(s) /\ i < Len(s)
  BY DEF TokensDone, Braced
<1>2. CASE At(s, i) = "-" /\ BraceDepth(s, i) = 0
  <2> DEFINE new == [tokens |-> Append(at.tokens, at.token), token |-> <<>>]
  <2>1. TokenNext(s, at, i) = new
    BY <1>2 DEF TokenNext
  <2>2. CleanEnd(s, i)
    BY <1>2, CharsDiffer, BracesDiffer DEF CleanEnd
  <2>3. /\ AllBraced(Append(at.tokens, at.token))
        /\ Good(s, done) =>
             /\ AllGood(Append(at.tokens, at.token), done)
             /\ AllElements(Append(at.tokens, at.token), done) = Row(ElemRow(s, done), 0, i)
    BY <1>1, <1>2, <2>2, TokenEnds
  <2>4. BraceDepth(s, i + 1) = 0
    <3>1. At(s, i) \notin {LBrace, RBrace}
      BY <1>2, BracesDiffer
    <3> QED
      BY <1>2, <3>1, BraceKinds
  <2>5. new.token = Substr(s, i + 1, i + 1)
    BY <1>1, SubstrNone
  <2>6. ASSUME Good(s, done)
        PROVE  Row(ElemRow(s, done), 0, i + 1) = Row(ElemRow(s, done), 0, i)
    <3>1. ElementsAt(s, done, i) = <<>>
      BY <1>2, ElemNone
    <3>2. /\ Row(ElemRow(s, done), 0, i) \in Seq(Node)
          /\ Row(ElemRow(s, done), 0, i + 1) = Row(ElemRow(s, done), 0, i) \o <<>>
      BY <2>6, <3>1, ElemRowStep
    <3> QED
      BY <3>2
  <2>7. TokensDone(s, done, new, i + 1, i + 1)
    BY <1>1, <2>3, <2>4, <2>5, <2>6 DEF TokensDone
  <2> QED
    BY <2>1, <2>7
<1>3. CASE ~(At(s, i) = "-" /\ BraceDepth(s, i) = 0)
  <2> DEFINE new == [tokens |-> at.tokens, token |-> Append(at.token, At(s, i))]
  <2>1. TokenNext(s, at, i) = new
    BY <1>3, Zenon DEF TokenNext
  <2>2. new.token = Substr(s, c, i + 1)
    BY <1>1, SubstrOneMore
  <2>3. new.tokens = at.tokens
    OBVIOUS
  <2>4. TokensDone(s, done, new, c, i + 1)
    BY <1>1, <2>2, <2>3 DEF TokensDone
  <2> QED
    BY <2>1, <2>4
<1> QED
  BY <1>2, <1>3

\* The walk over the characters.
TokenWalk(s, w) ==
    /\ w \in [0 .. Len(s) -> TokenState]
    /\ \A i \in 0 .. Len(s) :
         w[i] = IF i = 0 THEN [tokens |-> <<>>, token |-> <<>>] ELSE TokenNext(s, w[i - 1], i - 1)

\* The walk of Tokenize over a string exists, so FoldLeft has a value to be equal to.
LEMMA TokenWalkExists ==
    ASSUME NEW s \in Seq(Text)
    PROVE  \E w : TokenWalk(s, w)
<1> DEFINE V == TokenState
           G == [vp \in V \X (1 .. Len(s)) |-> TokenNext(s, vp[1], vp[2] - 1)]
           first == [tokens |-> <<>>, token |-> <<>>]
<1>1. first \in V /\ Len(s) \in Nat
  BY DEF TokenState
<1>2. ASSUME NEW v \in V, NEW p \in 1 .. Len(s)
      PROVE  G[<<v, p>>] = TokenNext(s, v, p - 1) /\ G[<<v, p>>] \in V
  <2>1. G[<<v, p>>] = TokenNext(s, v, p - 1)
    OBVIOUS
  <2>2. At(s, p - 1) \in Text
    <3>1. p - 1 + 1 \in 1 .. Len(s)
      OBVIOUS
    <3> QED
      BY <3>1 DEF At
  <2>3. v.tokens \in Seq(Seq(Text)) /\ v.token \in Seq(Text)
    BY DEF TokenState
  <2>4. Append(v.tokens, v.token) \in Seq(Seq(Text)) /\ Append(v.token, At(s, p - 1)) \in Seq(Text)
          /\ <<>> \in Seq(Text)
    BY <2>2, <2>3
  <2>5. TokenNext(s, v, p - 1) \in V
    BY <2>3, <2>4 DEF TokenNext, TokenState
  <2> QED
    BY <2>1, <2>5
<1> HIDE DEF G, V, first
<1>3. PICK w : IsRecursion(w, V, first, Len(s), G)
  BY <1>1, <1>2, RecursionExists
<1>4. w \in [0 .. Len(s) -> V]
        /\ \A p \in 0 .. Len(s) : w[p] = IF p = 0 THEN first ELSE G[<<w[p - 1], p>>]
  BY <1>3 DEF IsRecursion
<1>5. ASSUME NEW p \in 0 .. Len(s)
      PROVE  w[p] = IF p = 0 THEN first ELSE TokenNext(s, w[p - 1], p - 1)
  <2>1. CASE p = 0
    BY <1>4, <2>1
  <2>2. CASE p # 0
    <3>1. p \in 1 .. Len(s) /\ p - 1 \in 0 .. Len(s)
      BY <1>1, <2>2
    <3>2. w[p - 1] \in V
      BY <1>4, <3>1
    <3> QED
      BY <1>2, <1>4, <2>2, <3>1, <3>2
  <2> QED
    BY <2>1, <2>2
<1> QED
  BY <1>4, <1>5 DEF TokenWalk, V, first

\* Tokenize is the end of such a walk.
LEMMA TokenizeWalk ==
    ASSUME NEW s \in Seq(Text), BraceDepth(s, Len(s)) = 0
    PROVE  \E w : /\ TokenWalk(s, w)
                  /\ Tokenize(s, "-", LBrace, RBrace)
                       = Append(w[Len(s)].tokens, w[Len(s)].token)
<1> DEFINE Step(f) == [i \in 0 .. Len(s) |->
                         IF i = 0 THEN [tokens |-> <<>>, token |-> <<>>]
                         ELSE IF At(s, i - 1) = "-" /\ Depth(s, LBrace, RBrace, i - 1) = 0
                         THEN [tokens |-> Append(f[i - 1].tokens, f[i - 1].token), token |-> <<>>]
                         ELSE [tokens |-> f[i - 1].tokens,
                               token |-> Append(f[i - 1].token, At(s, i - 1))]]
           walk == CHOOSE f : f = Step(f)
<1>1. PICK w : TokenWalk(s, w)
  BY TokenWalkExists
<1>2. w = Step(w)
  <2>1. \A i \in 0 .. Len(s) : w[i] = Step(w)[i]
    BY <1>1 DEF TokenWalk, TokenNext, BraceDepth
  <2>2. w = [i \in 0 .. Len(s) |-> w[i]]
    BY <1>1 DEF TokenWalk
  <2> QED
    BY <2>1, <2>2
<1>3. walk = Step(walk)
  <2> HIDE DEF Step
  <2> QED
    BY <1>2
<1>4. Tokenize(s, "-", LBrace, RBrace) = Append(walk[Len(s)].tokens, walk[Len(s)].token)
  BY DEF Tokenize, BraceDepth
<1> HIDE DEF walk
<1>5. \A i \in 0 .. Len(s) :
         walk[i] = IF i = 0 THEN [tokens |-> <<>>, token |-> <<>>]
                   ELSE TokenNext(s, walk[i - 1], i - 1)
  BY <1>3 DEF TokenNext, BraceDepth
<1> HIDE DEF Step
<1>6. Len(s) \in Nat /\ 0 \in 0 .. Len(s) /\ Len(s) \in 0 .. Len(s)
  OBVIOUS
<1> DEFINE T == {i \in Nat : i <= Len(s) => walk[i] = w[i]}
<1>7. 0 \in T
  BY <1>1, <1>5, <1>6 DEF TokenWalk
<1>8. ASSUME NEW i \in Nat, i \in T
      PROVE  i + 1 \in T
  <2> SUFFICES ASSUME i + 1 <= Len(s)
               PROVE  walk[i + 1] = w[i + 1]
    OBVIOUS
  <2>1. PICK k \in 0 .. Len(s) : k = i + 1 /\ k # 0 /\ k - 1 = i
    <3>1. i + 1 \in 0 .. Len(s) /\ i + 1 # 0 /\ (i + 1) - 1 = i
      OBVIOUS
    <3> QED
      BY <3>1
  <2>2. walk[i] = w[i]
    BY <1>8
  <2>3. walk[k] = TokenNext(s, walk[k - 1], k - 1)
    BY <1>5, <2>1
  <2>4. w[k] = TokenNext(s, w[k - 1], k - 1)
    BY <1>1, <2>1 DEF TokenWalk
  <2> QED
    BY <2>1, <2>2, <2>3, <2>4
<1>9. \A i \in Nat : i \in T
  <2> HIDE DEF T
  <2> QED
    BY <1>7, <1>8, SetInduction
<1>10. walk[Len(s)] = w[Len(s)]
  BY <1>6, <1>9
<1> QED
  BY <1>1, <1>4, <1>10

\* After every character, Tokenize has cut the string into tokens and a rest.
LEMMA WalkDone ==
    ASSUME NEW s, NEW done, Braced(s), NEW w, TokenWalk(s, w)
    PROVE  \E c : TokensDone(s, done, w[Len(s)], c, Len(s))
<1> DEFINE T == {i \in Nat : i <= Len(s) => \E c : TokensDone(s, done, w[i], c, i)}
<1>1. s \in Seq(Text) /\ Len(s) \in Nat
  BY DEF Braced
<1>2. 0 \in T
  <2>1. 0 \in 0 .. Len(s)
    BY <1>1
  <2>2. w[0] = [tokens |-> <<>>, token |-> <<>>]
    BY <2>1 DEF TokenWalk
  <2>3. w[0].tokens = <<>> /\ w[0].token = Substr(s, 0, 0)
    BY <1>1, <2>2, SubstrNone
  <2>4. BraceDepth(s, 0) = 0
    BY BraceStep, 0 \in Nat
  <2>5. <<>> \in Seq(Seq(Text)) /\ Len(<<>>) = 0 /\ [k \in 1 .. 0 |-> Elements(<<>>[k], done)] = <<>>
    OBVIOUS
  <2>6. AllBraced(<<>>) /\ AllGood(<<>>, done)
    BY <2>5 DEF AllBraced, AllGood
  <2>7. AllElements(<<>>, done) = <<>>
    BY <2>5, FlatEmpty DEF AllElements
  <2>8. Row(ElemRow(s, done), 0, 0) = <<>>
    BY RowNone, 0 \in Nat
  <2>9. TokensDone(s, done, w[0], 0, 0)
    BY <2>3, <2>4, <2>6, <2>7, <2>8 DEF TokensDone
  <2> QED
    BY <2>9
<1>3. ASSUME NEW i \in Nat, i \in T
      PROVE  i + 1 \in T
  <2> SUFFICES ASSUME i + 1 <= Len(s)
               PROVE  \E c : TokensDone(s, done, w[i + 1], c, i + 1)
    OBVIOUS
  <2>1. i \in 0 .. Len(s) - 1 /\ i <= Len(s) /\ i + 1 \in 0 .. Len(s) /\ i + 1 # 0 /\ (i + 1) - 1 = i
    BY <1>1
  <2>2. PICK c : TokensDone(s, done, w[i], c, i)
    BY <1>3, <2>1
  <2>3. w[i + 1] = TokenNext(s, w[(i + 1) - 1], (i + 1) - 1)
    BY <2>1 DEF TokenWalk
  <2>4. w[i + 1] = TokenNext(s, w[i], i)
    BY <2>1, <2>3
  <2>5. \E d : TokensDone(s, done, TokenNext(s, w[i], i), d, i + 1)
    BY <2>1, <2>2, TokenStep
  <2> QED
    BY <2>4, <2>5
<1>4. \A i \in Nat : i \in T
  <2> HIDE DEF T
  <2> QED
    BY <1>2, <1>3, SetInduction
<1> QED
  BY <1>1, <1>4

\* The tokens of a string have its elements.
LEMMA TokenizeElements ==
    ASSUME NEW s, NEW done, Braced(s)
    PROVE  /\ AllBraced(Tokenize(s, "-", LBrace, RBrace))
           /\ Good(s, done) =>
                /\ AllGood(Tokenize(s, "-", LBrace, RBrace), done)
                /\ AllElements(Tokenize(s, "-", LBrace, RBrace), done) = Elements(s, done)
<1>1. s \in Seq(Text) /\ Len(s) \in Nat /\ BraceDepth(s, Len(s)) = 0 /\ Len(s) \in 0 .. Len(s)
  BY DEF Braced
<1>2. PICK w : /\ TokenWalk(s, w)
               /\ Tokenize(s, "-", LBrace, RBrace) = Append(w[Len(s)].tokens, w[Len(s)].token)
  BY <1>1, TokenizeWalk
<1>3. PICK c : TokensDone(s, done, w[Len(s)], c, Len(s))
  BY <1>2, WalkDone
<1>4. CleanEnd(s, Len(s))
  BY DEF CleanEnd
<1>5. /\ AllBraced(Append(w[Len(s)].tokens, w[Len(s)].token))
      /\ Good(s, done) =>
           /\ AllGood(Append(w[Len(s)].tokens, w[Len(s)].token), done)
           /\ AllElements(Append(w[Len(s)].tokens, w[Len(s)].token), done)
                = Row(ElemRow(s, done), 0, Len(s))
  BY <1>1, <1>3, <1>4, TokenEnds
<1> QED
  BY <1>2, <1>5, ElementsRow
-----------------------------------------------------------------------------
(***************************************************************************)
(* Scan: a token's trees have its elements.                                *)
(***************************************************************************)
TreeLeaves(trees) == Leaves(FlattenSeq(trees))

\* None or one.
AtMostOne(trees) == trees = <<>> \/ \E tree \in Seq(Node) : trees = <<tree>>

\* The leaves of more trees are those before and those added.
LEMMA TreeLeavesConcat ==
    ASSUME NEW x \in Seq(Seq(Node)), NEW y, AtMostOne(y)
    PROVE  /\ x \o y \in Seq(Seq(Node)) /\ y \in Seq(Seq(Node))
           /\ TreeLeaves(x \o y) = TreeLeaves(x) \o TreeLeaves(y)
           /\ TreeLeaves(x) \in Seq(Node)
<1>1. FlattenSeq(x) \in Seq(Node)
  BY FlatSeq
<1>2. TreeLeaves(x) \in Seq(Node)
  BY <1>1, LeavesRow DEF TreeLeaves
<1>3. CASE y = <<>>
  <2>1. x \o y = x /\ y \in Seq(Seq(Node))
    BY <1>3
  <2>2. TreeLeaves(y) = <<>>
    BY <1>3, FlatEmpty, LeavesEmpty DEF TreeLeaves
  <2>3. TreeLeaves(x) \o <<>> = TreeLeaves(x)
    BY <1>2
  <2> QED
    BY <1>2, <2>1, <2>2, <2>3
<1>4. CASE \E tree \in Seq(Node) : y = <<tree>>
  <2>1. PICK tree \in Seq(Node) : y = <<tree>>
    BY <1>4
  <2>2. x \o y = Append(x, tree) /\ y = Append(<<>>, tree) /\ y \in Seq(Seq(Node))
          /\ Append(x, tree) \in Seq(Seq(Node)) /\ <<>> \in Seq(Seq(Node))
    BY <2>1
  <2>3. FlattenSeq(Append(x, tree)) = FlattenSeq(x) \o tree
    BY FlatStep
  <2>4. FlattenSeq(Append(<<>>, tree)) = FlattenSeq(<<>>) \o tree
    BY <2>2, FlatStep
  <2>5. FlattenSeq(y) = tree
    BY <2>2, <2>4, FlatEmpty
  <2>6. Leaves(FlattenSeq(x) \o tree) = Leaves(FlattenSeq(x)) \o Leaves(tree)
    BY <1>1, LeavesConcat
  <2> QED
    BY <1>2, <2>2, <2>3, <2>5, <2>6 DEF TreeLeaves
<1> QED
  BY <1>3, <1>4 DEF AtMostOne

\* The leaves of a single tree are its own.
LEMMA TreeLeavesOne ==
    ASSUME NEW tree \in Seq(Node)
    PROVE  AtMostOne(<<tree>>) /\ TreeLeaves(<<tree>>) = Leaves(tree)
<1>1. <<tree>> = Append(<<>>, tree) /\ <<>> \in Seq(Seq(Node))
  OBVIOUS
<1>2. FlattenSeq(Append(<<>>, tree)) = FlattenSeq(<<>>) \o tree
  BY <1>1, FlatStep
<1>3. FlattenSeq(<<tree>>) = tree
  BY <1>1, <1>2, FlatEmpty
<1> QED
  BY <1>3 DEF TreeLeaves, AtMostOne

\* No tree has no leaves.
LEMMA TreeLeavesNone ==
    AtMostOne(<<>>) /\ TreeLeaves(<<>>) = <<>>
BY FlatEmpty, LeavesEmpty DEF TreeLeaves, AtMostOne

\* The bracket that closes is one of those after the one that opens.
LEMMA OpposingIn ==
    ASSUME NEW s, Len(s) \in Nat, NEW i \in 0 .. Len(s) - 1, NEW close,
           OpposingBraket(s, i, close) # NPos
    PROVE  /\ OpposingBraket(s, i, close) \in i .. Len(s) - 1
           /\ At(s, OpposingBraket(s, i, close)) = close
<1> DEFINE C == {j \in i .. Len(s) - 1 :
                   /\ At(s, j) = close
                   /\ Occurrences(s, At(s, i), i, j) - Occurrences(s, close, i, j) < 1}
<1>1. OpposingBraket(s, i, close) = IF C = {} THEN NPos ELSE Min(C)
  BY DEF OpposingBraket
<1>2. C \in SUBSET Nat /\ \A j \in C : j \in i .. Len(s) - 1 /\ At(s, j) = close
  OBVIOUS
<1> HIDE DEF C
<1>3. C # {}
  BY <1>1
<1>4. Min(C) \in C
  BY <1>2, <1>3, MinIn
<1> QED
  BY <1>1, <1>2, <1>3, <1>4

\* It is the first closing bracket if nothing is open there.
LEMMA OpposingIs ==
    ASSUME NEW s, Len(s) \in Nat, NEW i \in 0 .. Len(s) - 1, NEW close,
           NEW m \in i .. Len(s) - 1, At(s, m) = close,
           Occurrences(s, At(s, i), i, m) - Occurrences(s, close, i, m) < 1,
           \A j \in i .. Len(s) - 1 : At(s, j) = close => m <= j
    PROVE  OpposingBraket(s, i, close) = m /\ m # NPos
<1> DEFINE C == {j \in i .. Len(s) - 1 :
                   /\ At(s, j) = close
                   /\ Occurrences(s, At(s, i), i, j) - Occurrences(s, close, i, j) < 1}
<1>1. OpposingBraket(s, i, close) = IF C = {} THEN NPos ELSE Min(C)
  BY DEF OpposingBraket
<1>2. C \in SUBSET Nat /\ m \in C /\ \A j \in C : m <= j
  OBVIOUS
<1> HIDE DEF C
<1>3. Min(C) = m
  BY <1>2, MinIs
<1>4. m # NPos
  BY DEF NPos
<1> QED
  BY <1>1, <1>2, <1>3, <1>4

\* What is between two places is what is up to the second but not the first.
LEMMA DepthBetween ==
    ASSUME NEW s, NEW open, NEW close, NEW i \in Nat, NEW m \in Nat, i <= m + 1
    PROVE  Occurrences(s, open, i, m) - Occurrences(s, close, i, m)
             = Depth(s, open, close, m + 1) - Depth(s, open, close, i)
<1>1. PICK o1, o2, o3, c1, c2, c3 :
        /\ o1 = Occurrences(s, open, 0, i - 1) /\ o2 = Occurrences(s, open, i, m)
        /\ o3 = Occurrences(s, open, 0, m)
        /\ c1 = Occurrences(s, close, 0, i - 1) /\ c2 = Occurrences(s, close, i, m)
        /\ c3 = Occurrences(s, close, 0, m)
  OBVIOUS
<1>2. o1 \in Nat /\ o2 \in Nat /\ o3 \in Nat /\ c1 \in Nat /\ c2 \in Nat /\ c3 \in Nat
  BY <1>1, OccNat, 0 \in Int, i - 1 \in Int, i \in Int, m \in Int
<1>3. o3 = o1 + o2 /\ c3 = c1 + c2
  BY <1>1, OccSplit, m \in Int
<1>4. (m + 1) - 1 = m
  OBVIOUS
<1>5. Depth(s, open, close, m + 1) = o3 - c3 /\ Depth(s, open, close, i) = o1 - c1
  BY <1>1, <1>4 DEF Depth
<1> QED
  BY <1>1, <1>2, <1>3, <1>5

\* The brace that closes an open one.
LEMMA OpposingBrace ==
    ASSUME NEW s, Braced(s), NEW i \in 0 .. Len(s) - 1, At(s, i) = LBrace
    PROVE  \E m \in (i + 1) .. Len(s) - 1 :
             /\ OpposingBraket(s, i, RBrace) = m /\ m # NPos
             /\ \A j \in (i + 1) .. m : BraceDepth(s, j) = 1
             /\ BraceDepth(s, m + 1) = 0
<1>1. Len(s) \in Nat /\ BraceDepth(s, Len(s)) = 0
  BY DEF Braced
<1>2. Len(s) \in (i + 1) .. Len(s) /\ i \in Nat
  BY <1>1
<1>3. PICK m \in (i + 1) .. Len(s) - 1 :
             /\ At(s, m) = RBrace
             /\ m = Min(Closings(s, i))
             /\ \A j \in (i + 1) .. m : BraceDepth(s, j) = 1
             /\ BraceDepth(s, m + 1) = 0
  BY <1>1, <1>2, BraceCloses
<1>4. m \in Nat /\ i <= m + 1 /\ m \in i .. Len(s) - 1
  BY <1>1
<1>5. BraceDepth(s, i) = 0
  BY BraceKinds
<1>6. Occurrences(s, LBrace, i, m) - Occurrences(s, RBrace, i, m) = 0
  <2>1. Occurrences(s, LBrace, i, m) - Occurrences(s, RBrace, i, m)
          = Depth(s, LBrace, RBrace, m + 1) - Depth(s, LBrace, RBrace, i)
    BY <1>2, <1>4, DepthBetween
  <2> QED
    BY <1>3, <1>5, <2>1 DEF BraceDepth
<1>7. \A j \in i .. Len(s) - 1 : At(s, j) = RBrace => m <= j
  <2>1. Closings(s, i) \in SUBSET Nat /\ m \in Closings(s, i)
    BY <1>1, <1>3, <1>4 DEF Closings
  <2>2. \A j \in Closings(s, i) : m <= j
    BY <1>3, <2>1, MinIn
  <2> QED
    BY <2>2 DEF Closings
<1>8. OpposingBraket(s, i, RBrace) = m /\ m # NPos
  <2>1. Occurrences(s, At(s, i), i, m) - Occurrences(s, RBrace, i, m) < 1
    BY <1>6
  <2> QED
    BY <1>1, <1>3, <1>4, <1>7, <2>1, OpposingIs
<1> QED
  BY <1>3, <1>8

\* The brace that closes the parameters of an element: it is looked for from the
\* element on, as if that had opened.  No element is in braces.
LEMMA OpposingParam ==
    ASSUME NEW s, NEW done, Good(s, done), NEW i \in 0 .. Len(s) - 1, BraceDepth(s, i) = 0,
           At(s, i) \in ElementChars, At(s, i + 1) = LBrace, i + 1 < Len(s)
    PROVE  \E m \in (i + 2) .. Len(s) - 1 :
             /\ OpposingBraket(s, i, RBrace) = m /\ m # NPos
             /\ ParamAt(s, i) = Substr(s, i + 2, m)
             /\ \A j \in (i + 2) .. m : BraceDepth(s, j) = 1
             /\ BraceDepth(s, m + 1) = 0
<1>1. Braced(s) /\ DigitsRefer(s, done) /\ Len(s) \in Nat /\ BraceDepth(s, Len(s)) = 0
  BY DEF Good, Braced
<1>2. Len(s) \in (i + 2) .. Len(s)
  BY <1>1
<1>3. PICK m \in (i + 2) .. Len(s) - 1 :
             /\ At(s, m) = RBrace
             /\ m = Min(Closings(s, i + 1))
             /\ \A j \in (i + 2) .. m : BraceDepth(s, j) = 1
             /\ BraceDepth(s, m + 1) = 0
             /\ ParamAt(s, i) = Substr(s, i + 2, m)
  BY <1>1, <1>2, ParamFacts
<1>4. m \in Nat /\ m \in i .. Len(s) - 1 /\ i \in Nat /\ i + 1 \in 0 .. Len(s) - 1
  BY <1>1
<1>5. ASSUME NEW j \in i .. m, At(s, j) = At(s, i)
      PROVE  j = i
  <2>1. CASE j = i + 1
    BY <1>5, <2>1, BracesDiffer
  <2>2. CASE j \in (i + 2) .. m
    <3>1. BraceDepth(s, j) = 1 /\ j \in Indices(s)
      BY <1>1, <1>3, <1>4, <2>2 DEF Indices
    <3>2. At(s, j) \notin ElementChars
      BY <1>1, <3>1 DEF DigitsRefer
    <3> QED
      BY <1>5, <3>2
  <2> QED
    BY <1>4, <2>1, <2>2
<1>6. {j \in i .. m : At(s, j) = At(s, i)} = {i}
  <2>1. i \in i .. m
    BY <1>4
  <2> QED
    BY <1>5, <2>1, Zenon
<1>7. Occurrences(s, At(s, i), i, m) = 1
  BY <1>6, FS_Singleton DEF Occurrences
<1>8. Occurrences(s, RBrace, i, m) \in Nat /\ Occurrences(s, RBrace, i, m) >= 1
  <2>1. m \in i .. m /\ i \in Int /\ m \in Int
    BY <1>4
  <2> QED
    BY <1>3, <2>1, OccSome, OccNat
<1>9. \A j \in i .. Len(s) - 1 : At(s, j) = RBrace => m <= j
  <2>1. Closings(s, i + 1) \in SUBSET Nat /\ m \in Closings(s, i + 1)
    BY <1>1, <1>3, <1>4 DEF Closings
  <2>2. \A j \in Closings(s, i + 1) : m <= j
    BY <1>3, <2>1, MinIn
  <2>3. \A j \in i .. Len(s) - 1 : At(s, j) = RBrace => j # i
    BY BracesDiffer
  <2>4. \A j \in i .. Len(s) - 1 : At(s, j) = RBrace => j \in Closings(s, i + 1)
    BY <1>4, <2>3 DEF Closings
  <2> QED
    BY <2>2, <2>4
<1>10. OpposingBraket(s, i, RBrace) = m /\ m # NPos
  <2>1. Occurrences(s, At(s, i), i, m) - Occurrences(s, RBrace, i, m) < 1
    BY <1>7, <1>8
  <2> QED
    BY <1>1, <1>3, <1>4, <1>9, <2>1, OpposingIs
<1> QED
  BY <1>3, <1>10

\* Places without elements after one.
Skipped(s, done, i, j) == \A k \in (i + 1) .. j : ElementsAt(s, done, k) = <<>>

\* Places without elements that the scan skips add nothing to a row.
LEMMA RowSkip ==
    ASSUME NEW s, NEW done, Good(s, done), NEW i \in 0 .. Len(s) - 1,
           NEW j \in i .. Len(s) - 1, Skipped(s, done, i, j)
    PROVE  Row(ElemRow(s, done), 0, j + 1)
             = Row(ElemRow(s, done), 0, i) \o ElementsAt(s, done, i)
<1>1. PICK N, e : N = Len(s) /\ e = ElemRow(s, done)
  OBVIOUS
<1>2. N \in Nat /\ e \in [0 .. (N - 1) -> Seq(Node)]
  BY <1>1, ElemRowType
<1>3. 0 \in 0 .. N /\ i + 1 \in 0 .. N /\ j + 1 \in (i + 1) .. N /\ (j + 1) - 1 = j
  BY <1>1, <1>2
<1>4. Row(e, 0, j + 1) = Row(e, 0, i + 1) \o Row(e, i + 1, j + 1)
  BY <1>2, <1>3, RowSplit
<1>5. \A k \in (i + 1) .. ((j + 1) - 1) : e[k] = <<>>
  BY <1>1, <1>2, <1>3 DEF ElemRow, Skipped
<1>6. Row(e, i + 1, j + 1) = <<>>
  BY <1>2, <1>3, <1>5, RowEmpty
<1>7. Row(e, 0, i + 1) \in Seq(Node)
  BY <1>2, <1>3, RowType
<1>8. Row(e, 0, i + 1) \o <<>> = Row(e, 0, i + 1)
  BY <1>7
<1>9. Row(e, 0, i + 1) = Row(e, 0, i) \o ElementsAt(s, done, i)
  BY <1>1, ElemRowStep
<1> QED
  BY <1>1, <1>4, <1>6, <1>8, <1>9

\* Where the loop over the characters of a token can be.
ScanStates(s, done) ==
    {at \in [i : 0 .. Len(s), trees : Seq(Seq(Node)), end : {"done", "invalid"}] :
       /\ BraceDepth(s, at.i) = 0
       /\ Good(s, done) => TreeLeaves(at.trees) = Row(ElemRow(s, done), 0, at.i)}

Moves(at, trees, j) == [i |-> j + 1, trees |-> at.trees \o trees, end |-> "done"]

\* A scan that moves past an element and its parameters has read what was there.
LEMMA MovesIn ==
    ASSUME NEW s, NEW done, Braced(s), NEW at \in ScanStates(s, done), at.i < Len(s),
           NEW j \in at.i .. Len(s) - 1, BraceDepth(s, j + 1) = 0, NEW trees, AtMostOne(trees),
           Good(s, done) => /\ TreeLeaves(trees) = ElementsAt(s, done, at.i)
                            /\ Skipped(s, done, at.i, j)
    PROVE  Moves(at, trees, j) \in ScanStates(s, done) /\ Moves(at, trees, j).i >= at.i + 1
<1>1. /\ at.i \in 0 .. Len(s) /\ at.trees \in Seq(Seq(Node)) /\ Len(s) \in Nat
      /\ Good(s, done) => TreeLeaves(at.trees) = Row(ElemRow(s, done), 0, at.i)
  BY DEF ScanStates, Braced
<1>2. PICK i : i = at.i
  OBVIOUS
<1>3. i \in 0 .. Len(s) - 1 /\ j \in i .. Len(s) - 1 /\ j + 1 \in 0 .. Len(s) /\ j + 1 >= i + 1
  BY <1>1, <1>2
<1>4. PICK x : x = at.trees
  OBVIOUS
<1>5. x \o trees \in Seq(Seq(Node)) /\ TreeLeaves(x \o trees) = TreeLeaves(x) \o TreeLeaves(trees)
  BY <1>1, <1>4, TreeLeavesConcat
<1>6. Good(s, done) => TreeLeaves(x \o trees) = Row(ElemRow(s, done), 0, j + 1)
  <2> SUFFICES ASSUME Good(s, done)
               PROVE  TreeLeaves(x \o trees) = Row(ElemRow(s, done), 0, j + 1)
    OBVIOUS
  <2>1. Row(ElemRow(s, done), 0, j + 1) = Row(ElemRow(s, done), 0, i) \o ElementsAt(s, done, i)
    BY <1>2, <1>3, RowSkip
  <2> QED
    BY <1>1, <1>2, <1>4, <1>5, <2>1
<1>7. Moves(at, trees, j) = [i |-> j + 1, trees |-> x \o trees, end |-> "done"]
  BY <1>4 DEF Moves
<1>8. [i |-> j + 1, trees |-> x \o trees, end |-> "done"] \in ScanStates(s, done)
  BY <1>3, <1>5, <1>6 DEF ScanStates
<1> QED
  BY <1>2, <1>3, <1>7, <1>8

\* A round of the loop at each kind of character.
LEMMA ScanElement ==
    ASSUME NEW s, NEW done, NEW at, At(s, at.i) \in ElementChars
    PROVE  ScanStep(s, done, at)
             = Moves(at, <<CreateNewComponant(At(s, at.i), ParamStr(s, at.i))>>,
                     ParamSkipIndex(s, at.i))
<1>1. At(s, at.i) # LBrace /\ At(s, at.i) # RBrace /\ At(s, at.i) \notin ToSet(Digits)
  BY CharsDiffer, Zenon
<1> QED
  BY <1>1, Zenon DEF ScanStep, Moves

\* At an open brace the scan moves to the one that closes it.
LEMMA ScanBrace ==
    ASSUME NEW s, NEW done, NEW at, At(s, at.i) = LBrace,
           OpposingBraket(s, at.i, RBrace) # NPos
    PROVE  ScanStep(s, done, at) = Moves(at, <<>>, OpposingBraket(s, at.i, RBrace))
<1>1. At(s, at.i) \notin ElementChars /\ At(s, at.i) # RBrace /\ At(s, at.i) \notin ToSet(Digits)
  BY BracesDiffer
<1> QED
  BY <1>1, Zenon DEF ScanStep, Moves

\* At a digit the scan takes the tree of the bracket it stands for.
LEMMA ScanDigit ==
    ASSUME NEW s, NEW done, NEW at, NEW k \in 1 .. 10, At(s, at.i) = Digits[k]
    PROVE  ScanStep(s, done, at)
             = Moves(at, IF Len(done) > k - 1 THEN <<done[k]>> ELSE <<>>, at.i)
<1>1. At(s, at.i) \in ToSet(Digits)
  BY DigitIn
<1>2. At(s, at.i) \notin ElementChars /\ At(s, at.i) # LBrace /\ At(s, at.i) # RBrace
  BY <1>1, CharsDiffer, Zenon
<1>3. (CHOOSE d \in 0 .. 9 : Digits[d + 1] = At(s, at.i)) = k - 1
  <2>1. k - 1 \in 0 .. 9 /\ (k - 1) + 1 = k
    OBVIOUS
  <2>2. \A d \in 0 .. 9 : Digits[d + 1] = Digits[k] => d = k - 1
    <3> TAKE d \in 0 .. 9
    <3>1. d + 1 \in 1 .. 10
      OBVIOUS
    <3>2. Digits[d + 1] = Digits[k] => d + 1 = k
      BY <3>1, DigitsDiffer
    <3> QED
      BY <3>2
  <2> QED
    BY <2>1, <2>2
<1>4. (k - 1) + 1 = k
  OBVIOUS
<1>5. ScanStep(s, done, at)
        = LET digit == CHOOSE d \in 0 .. 9 : Digits[d + 1] = At(s, at.i)
          IN  Moves(at, IF Len(done) > digit THEN <<done[digit + 1]>> ELSE <<>>, at.i)
  BY <1>1, <1>2, Zenon DEF ScanStep, Moves
<1> QED
  BY <1>3, <1>4, <1>5

\* At a character that is nothing the grammar knows, the scan ends as invalid.
LEMMA ScanOther ==
    ASSUME NEW s, NEW done, NEW at,
           At(s, at.i) \notin ElementChars \cup {LBrace, RBrace} \cup ToSet(Digits)
    PROVE  ScanStep(s, done, at) = [at EXCEPT !.end = "invalid"]
<1>1. At(s, at.i) \notin ElementChars /\ At(s, at.i) # LBrace /\ At(s, at.i) # RBrace
        /\ At(s, at.i) \notin ToSet(Digits)
  BY Zenon
<1> QED
  BY <1>1, Zenon DEF ScanStep

\* What the parser reads as parameters is a string.
LEMMA ParamStrType ==
    ASSUME NEW s \in Seq(Text), NEW i \in 0 .. Len(s) - 1
    PROVE  ParamStr(s, i) \in Seq(Text)
<1>1. Len(s) \in Nat
  OBVIOUS
<1>2. PICK e : e = IF OpposingBraket(s, i, RBrace) = NPos THEN Len(s)
                   ELSE OpposingBraket(s, i, RBrace)
  OBVIOUS
<1>3. e \in 0 .. Len(s)
  <2>1. OpposingBraket(s, i, RBrace) # NPos => OpposingBraket(s, i, RBrace) \in i .. Len(s) - 1
    BY <1>1, OpposingIn
  <2> QED
    BY <1>1, <1>2, <2>1
<1>4. i + 2 + 1 \in Int /\ e \in Int /\ \A k \in (i + 2 + 1) .. e : s[k] \in Text
  BY <1>1, <1>3
<1>5. SubSeq(s, i + 2 + 1, e) \in Seq(Text)
  BY <1>4, SubSeqProperties
<1>6. ParamStr(s, i) = IF Len(s) - i < 3 \/ At(s, i + 1) # LBrace THEN <<>> ELSE Substr(s, i + 2, e)
  BY <1>2 DEF ParamStr
<1>7. <<>> \in Seq(Text)
  OBVIOUS
<1> QED
  BY <1>5, <1>6, <1>7 DEF Substr

\* The parameters an element skips end inside the string, with no brace open.
LEMMA ParamSkipIn ==
    ASSUME NEW s, Braced(s), NEW i \in 0 .. Len(s) - 1, BraceDepth(s, i) = 0,
           At(s, i) \notin {LBrace, RBrace}
    PROVE  ParamSkipIndex(s, i) \in i .. Len(s) - 1 /\ BraceDepth(s, ParamSkipIndex(s, i) + 1) = 0
<1>1. Len(s) \in Nat
  BY DEF Braced
<1>2. CASE ParamSkipIndex(s, i) = i
  BY <1>1, <1>2, BraceKinds
<1>3. CASE ParamSkipIndex(s, i) # i
  <2>1. PICK e : e = OpposingBraket(s, i, RBrace)
    OBVIOUS
  <2>2. ParamSkipIndex(s, i) = e /\ e # NPos
    BY <1>3, <2>1 DEF ParamSkipIndex
  <2>3. e \in i .. Len(s) - 1 /\ At(s, e) = RBrace
    BY <1>1, <2>1, <2>2, OpposingIn
  <2>4. e \in 0 .. Len(s) - 1
    BY <1>1, <2>3
  <2>5. BraceDepth(s, e + 1) = 0
    BY <2>3, <2>4, BraceKinds
  <2> QED
    BY <2>2, <2>3, <2>5
<1> QED
  BY <1>2, <1>3

\* The parameters of an element are what is in its braces, and the loop goes on
\* after them.
LEMMA ParamSkipGood ==
    ASSUME NEW s, NEW done, Good(s, done), NEW i \in 0 .. Len(s) - 1, BraceDepth(s, i) = 0,
           At(s, i) \in ElementChars
    PROVE  ParamStr(s, i) = ParamAt(s, i) /\ Skipped(s, done, i, ParamSkipIndex(s, i))
<1>1. Len(s) \in Nat /\ i \in Nat /\ i < Len(s)
  BY DEF Good, Braced
<1>2. CASE i + 1 < Len(s) /\ At(s, i + 1) = LBrace
  <2>1. PICK m \in (i + 2) .. Len(s) - 1 :
             /\ OpposingBraket(s, i, RBrace) = m /\ m # NPos
             /\ ParamAt(s, i) = Substr(s, i + 2, m)
             /\ \A j \in (i + 2) .. m : BraceDepth(s, j) = 1
             /\ BraceDepth(s, m + 1) = 0
    BY <1>2, OpposingParam
  <2>2. ~(Len(s) - i < 3) /\ ~(i + 2 > Len(s))
    BY <1>1, <2>1
  <2>3. ParamStr(s, i) = ParamAt(s, i)
    BY <1>2, <2>1, <2>2 DEF ParamStr
  <2>4. ParamSkipIndex(s, i) = m
    BY <1>2, <2>1, <2>2 DEF ParamSkipIndex
  <2>5. ASSUME NEW k \in (i + 1) .. m
        PROVE  ElementsAt(s, done, k) = <<>>
    <3>1. CASE k = i + 1
      BY <1>2, <3>1, ElemNone
    <3>2. CASE k # i + 1
      <4>1. k \in (i + 2) .. m
        BY <1>1, <3>2
      <4>2. BraceDepth(s, k) # 0
        BY <2>1, <4>1
      <4> QED
        BY <4>2, ElemNone
    <3> QED
      BY <3>1, <3>2
  <2> QED
    BY <2>3, <2>4, <2>5 DEF Skipped
<1>3. CASE ~(i + 1 < Len(s) /\ At(s, i + 1) = LBrace)
  <2>1. Len(s) - i < 3 \/ At(s, i + 1) # LBrace
    BY <1>1, <1>3
  <2>2. i + 2 > Len(s) \/ At(s, i + 1) # LBrace
    BY <1>1, <1>3
  <2>3. ParamStr(s, i) = <<>> /\ ParamAt(s, i) = <<>>
    BY <1>3, <2>1 DEF ParamStr, ParamAt
  <2>4. ParamSkipIndex(s, i) = i
    BY <2>2 DEF ParamSkipIndex
  <2>5. \A k \in (i + 1) .. i : FALSE
    BY <1>1
  <2> QED
    BY <2>3, <2>4, <2>5 DEF Skipped
<1> QED
  BY <1>2, <1>3

\* A step of the scan keeps what it has read right, and goes forward unless it ends.
LEMMA ScanStepIn ==
    ASSUME NEW s, NEW done \in Seq(Seq(Node)), Braced(s), NEW at \in ScanStates(s, done),
           at.i < Len(s), at.end = "done"
    PROVE  /\ ScanStep(s, done, at) \in ScanStates(s, done)
           /\ ScanStep(s, done, at).end = "done" => ScanStep(s, done, at).i >= at.i + 1
<1>1. /\ s \in Seq(Text) /\ Len(s) \in Nat /\ BraceDepth(s, at.i) = 0 /\ at.i \in 0 .. Len(s) - 1
      /\ at \in [i : 0 .. Len(s), trees : Seq(Seq(Node)), end : {"done", "invalid"}]
  BY DEF ScanStates, Braced
<1>2. PICK i : i = at.i
  OBVIOUS
<1>3. i \in 0 .. Len(s) - 1 /\ BraceDepth(s, i) = 0 /\ i \in i .. Len(s) - 1 /\ i < Len(s)
  BY <1>1, <1>2
<1>4. CASE At(s, i) \in ElementChars
  <2>1. PICK j, t, new : /\ j = ParamSkipIndex(s, i) /\ t = CreateNewComponant(At(s, i), ParamStr(s, i))
                         /\ new = Moves(at, <<t>>, j)
    OBVIOUS
  <2>2. ScanStep(s, done, at) = new
    BY <1>2, <1>4, <2>1, ScanElement
  <2>3. j \in i .. Len(s) - 1 /\ BraceDepth(s, j + 1) = 0
    <3>1. At(s, i) \notin {LBrace, RBrace}
      BY <1>4, BracesDiffer
    <3> QED
      BY <1>3, <2>1, <3>1, ParamSkipIn
  <2>4. ParamStr(s, i) \in Seq(Text)
    BY <1>1, <1>3, ParamStrType
  <2>5. t \in Seq(Node) /\ Leaves(t) = t
    BY <1>4, <2>1, <2>4, ElementNode
  <2>6. AtMostOne(<<t>>) /\ TreeLeaves(<<t>>) = t
    BY <2>5, TreeLeavesOne
  <2>7. ASSUME Good(s, done)
        PROVE  TreeLeaves(<<t>>) = ElementsAt(s, done, i) /\ Skipped(s, done, i, j)
    <3>1. ParamStr(s, i) = ParamAt(s, i) /\ Skipped(s, done, i, j)
      BY <1>3, <1>4, <2>1, <2>7, ParamSkipGood
    <3>2. ElementsAt(s, done, i) = CreateNewComponant(At(s, i), ParamAt(s, i))
      BY <1>3, <1>4, ElemElement
    <3> QED
      BY <2>1, <2>6, <3>1, <3>2
  <2>8. new \in ScanStates(s, done) /\ new.i >= at.i + 1
    BY <1>2, <1>3, <2>1, <2>3, <2>6, <2>7, MovesIn
  <2> QED
    BY <2>2, <2>8
<1>5. CASE At(s, i) = LBrace
  <2>1. PICK m \in (i + 1) .. Len(s) - 1 :
             /\ OpposingBraket(s, i, RBrace) = m /\ m # NPos
             /\ \A j \in (i + 1) .. m : BraceDepth(s, j) = 1
             /\ BraceDepth(s, m + 1) = 0
    BY <1>3, <1>5, OpposingBrace
  <2>2. PICK new : new = Moves(at, <<>>, m)
    OBVIOUS
  <2>3. ScanStep(s, done, at) = new
    BY <1>2, <1>5, <2>1, <2>2, ScanBrace
  <2>4. m \in i .. Len(s) - 1
    BY <1>1, <1>3
  <2>5. ElementsAt(s, done, i) = <<>> /\ Skipped(s, done, i, m)
    <3>1. ElementsAt(s, done, i) = <<>>
      BY <1>5, ElemNone
    <3>2. \A k \in (i + 1) .. m : ElementsAt(s, done, k) = <<>>
      <4> TAKE k \in (i + 1) .. m
      <4>1. BraceDepth(s, k) # 0
        BY <2>1
      <4> QED
        BY <4>1, ElemNone
    <3> QED
      BY <3>1, <3>2 DEF Skipped
  <2>6. new \in ScanStates(s, done) /\ new.i >= at.i + 1
    BY <1>2, <1>3, <2>1, <2>2, <2>4, <2>5, TreeLeavesNone, MovesIn
  <2> QED
    BY <2>3, <2>6
<1>6. CASE At(s, i) = RBrace
  BY <1>3, <1>6, BraceKinds
<1>7. CASE At(s, i) \in ToSet(Digits)
  <2>1. PICK k \in 1 .. 10 : Digits[k] = At(s, i)
    BY <1>7, DigitNumber
  <2>2. PICK trees, new : /\ trees = IF Len(done) > k - 1 THEN <<done[k]>> ELSE <<>>
                          /\ new = Moves(at, trees, i)
    OBVIOUS
  <2>3. ScanStep(s, done, at) = new
    BY <1>2, <2>1, <2>2, ScanDigit
  <2>4. BraceDepth(s, i + 1) = 0
    <3>1. At(s, i) \notin {LBrace, RBrace}
      BY <1>7, BracesDiffer
    <3> QED
      BY <1>3, <3>1, BraceKinds
  <2>5. AtMostOne(trees) /\ (Len(done) > k - 1 => TreeLeaves(trees) = Leaves(done[k]))
    <3>1. CASE Len(done) > k - 1
      <4>1. k \in 1 .. Len(done)
        BY <3>1
      <4>2. done[k] \in Seq(Node)
        BY <4>1
      <4> QED
        BY <2>2, <3>1, <4>2, TreeLeavesOne
    <3>2. CASE ~(Len(done) > k - 1)
      BY <2>2, <3>2, TreeLeavesNone
    <3> QED
      BY <3>1, <3>2
  <2>6. ASSUME Good(s, done)
        PROVE  TreeLeaves(trees) = ElementsAt(s, done, i) /\ Skipped(s, done, i, i)
    <3>1. i \in Indices(s)
      BY <1>3 DEF Indices
    <3>2. k <= Len(done)
      BY <1>3, <2>1, <2>6, <3>1 DEF Good, DigitsRefer
    <3>3. Len(done) > k - 1
      BY <3>2
    <3>4. ElementsAt(s, done, i) = Leaves(done[k])
      BY <1>3, <2>1, ElemDigit
    <3>5. \A l \in (i + 1) .. i : FALSE
      BY <1>1, <1>3
    <3> QED
      BY <2>5, <3>3, <3>4, <3>5 DEF Skipped
  <2>7. new \in ScanStates(s, done) /\ new.i >= at.i + 1
    BY <1>2, <1>3, <2>2, <2>4, <2>5, <2>6, MovesIn
  <2> QED
    BY <2>3, <2>7
<1>8. CASE At(s, i) \notin ElementChars \cup {LBrace, RBrace} \cup ToSet(Digits)
  <2>1. ScanStep(s, done, at) = [at EXCEPT !.end = "invalid"]
    BY <1>2, <1>8, ScanOther
  <2>2. PICK new : new = [at EXCEPT !.end = "invalid"]
    OBVIOUS
  <2>3. /\ new \in [i : 0 .. Len(s), trees : Seq(Seq(Node)), end : {"done", "invalid"}]
        /\ new.i = at.i /\ new.trees = at.trees /\ new.end = "invalid"
    BY <1>1, <2>2
  <2>4. new \in ScanStates(s, done)
    BY <2>3 DEF ScanStates
  <2> QED
    BY <2>1, <2>2, <2>3, <2>4
<1> QED
  BY <1>4, <1>5, <1>6, <1>7, <1>8

\* The loop.
ScanNext(s, done, at) ==
    IF at.i < Len(s) /\ at.end = "done" THEN ScanStep(s, done, at) ELSE at

ScanWalk(s, done, w) ==
    /\ w \in [0 .. Len(s) -> ScanStates(s, done)]
    /\ \A n \in 0 .. Len(s) :
         w[n] = IF n = 0 THEN [i |-> 0, trees |-> <<>>, end |-> "done"]
                ELSE ScanNext(s, done, w[n - 1])

\* The walk of the scan over a string exists.
LEMMA ScanWalkExists ==
    ASSUME NEW s, NEW done \in Seq(Seq(Node)), Braced(s)
    PROVE  \E w : ScanWalk(s, done, w)
<1> DEFINE V == ScanStates(s, done)
           G == [vp \in V \X (1 .. Len(s)) |-> ScanNext(s, done, vp[1])]
           first == [i |-> 0, trees |-> <<>>, end |-> "done"]
<1>1. first \in V /\ Len(s) \in Nat
  <2>1. Len(s) \in Nat /\ 0 \in 0 .. Len(s) /\ <<>> \in Seq(Seq(Node)) /\ 0 \in Nat
    BY DEF Braced
  <2>2. BraceDepth(s, 0) = 0
    BY <2>1, BraceStep
  <2>3. TreeLeaves(<<>>) = Row(ElemRow(s, done), 0, 0)
    BY <2>1, TreeLeavesNone, RowNone
  <2> QED
    BY <2>1, <2>2, <2>3 DEF ScanStates
<1>2. ASSUME NEW v \in V, NEW p \in 1 .. Len(s)
      PROVE  G[<<v, p>>] = ScanNext(s, done, v) /\ G[<<v, p>>] \in V
  <2>1. G[<<v, p>>] = ScanNext(s, done, v)
    OBVIOUS
  <2>2. ScanNext(s, done, v) \in V
    <3>1. CASE v.i < Len(s) /\ v.end = "done"
      <4>1. ScanStep(s, done, v) \in ScanStates(s, done)
        BY <3>1, ScanStepIn
      <4> QED
        BY <3>1, <4>1 DEF ScanNext
    <3>2. CASE ~(v.i < Len(s) /\ v.end = "done")
      BY <3>2, Zenon DEF ScanNext
    <3> QED
      BY <3>1, <3>2
  <2> QED
    BY <2>1, <2>2
<1> HIDE DEF G, V, first
<1>3. PICK w : IsRecursion(w, V, first, Len(s), G)
  BY <1>1, <1>2, RecursionExists
<1>4. w \in [0 .. Len(s) -> V]
        /\ \A p \in 0 .. Len(s) : w[p] = IF p = 0 THEN first ELSE G[<<w[p - 1], p>>]
  BY <1>3 DEF IsRecursion
<1>5. ASSUME NEW p \in 0 .. Len(s)
      PROVE  w[p] = IF p = 0 THEN first ELSE ScanNext(s, done, w[p - 1])
  <2>1. CASE p = 0
    BY <1>4, <2>1
  <2>2. CASE p # 0
    <3>1. p \in 1 .. Len(s) /\ p - 1 \in 0 .. Len(s)
      BY <1>1, <2>2
    <3>2. w[p - 1] \in V
      BY <1>4, <3>1
    <3> QED
      BY <1>2, <1>4, <2>2, <3>1, <3>2
  <2> QED
    BY <2>1, <2>2
<1> QED
  BY <1>4, <1>5 DEF ScanWalk, V, first

\* Scan is the end of such a walk.
LEMMA ScanIsWalk ==
    ASSUME NEW s, NEW done, NEW w, Len(s) \in Nat, ScanWalk(s, done, w)
    PROVE  Scan(s, done) = w[Len(s)]
<1> DEFINE Step(f) == [n \in 0 .. Len(s) |->
                         IF n = 0 THEN [i |-> 0, trees |-> <<>>, end |-> "done"]
                         ELSE IF f[n - 1].i < Len(s) /\ f[n - 1].end = "done"
                         THEN ScanStep(s, done, f[n - 1]) ELSE f[n - 1]]
           walk == CHOOSE f : f = Step(f)
<1>1. w = Step(w)
  <2>1. \A n \in 0 .. Len(s) : w[n] = Step(w)[n]
    BY DEF ScanWalk, ScanNext
  <2>2. w = [n \in 0 .. Len(s) |-> w[n]]
    BY DEF ScanWalk
  <2> QED
    BY <2>1, <2>2
<1>2. walk = Step(walk)
  <2> HIDE DEF Step
  <2> QED
    BY <1>1
<1>3. Scan(s, done) = walk[Len(s)]
  BY DEF Scan
<1> HIDE DEF walk
<1>4. \A n \in 0 .. Len(s) :
         walk[n] = IF n = 0 THEN [i |-> 0, trees |-> <<>>, end |-> "done"]
                   ELSE ScanNext(s, done, walk[n - 1])
  BY <1>2 DEF ScanNext
<1> HIDE DEF Step
<1>5. 0 \in 0 .. Len(s) /\ Len(s) \in 0 .. Len(s)
  OBVIOUS
<1> DEFINE T == {n \in Nat : n <= Len(s) => walk[n] = w[n]}
<1>6. 0 \in T
  BY <1>4, <1>5 DEF ScanWalk
<1>7. ASSUME NEW n \in Nat, n \in T
      PROVE  n + 1 \in T
  <2> SUFFICES ASSUME n + 1 <= Len(s)
               PROVE  walk[n + 1] = w[n + 1]
    OBVIOUS
  <2>1. PICK k \in 0 .. Len(s) : k = n + 1 /\ k # 0 /\ k - 1 = n
    <3>1. n + 1 \in 0 .. Len(s) /\ n + 1 # 0 /\ (n + 1) - 1 = n
      OBVIOUS
    <3> QED
      BY <3>1
  <2>2. walk[n] = w[n]
    BY <1>7
  <2>3. walk[k] = ScanNext(s, done, walk[k - 1])
    BY <1>4, <2>1
  <2>4. w[k] = ScanNext(s, done, w[k - 1])
    BY <2>1 DEF ScanWalk
  <2> QED
    BY <2>1, <2>2, <2>3, <2>4
<1>8. \A n \in Nat : n \in T
  <2> HIDE DEF T
  <2> QED
    BY <1>6, <1>7, SetInduction
<1>9. walk[Len(s)] = w[Len(s)]
  BY <1>5, <1>8
<1> QED
  BY <1>3, <1>9

\* The walk gets to the end of the token, or to a character that is none of the
\* parser's.
LEMMA ScanArrives ==
    ASSUME NEW s, NEW done \in Seq(Seq(Node)), Braced(s), NEW w, ScanWalk(s, done, w),
           w[Len(s)].end = "done"
    PROVE  w[Len(s)].i = Len(s)
<1> DEFINE T == {n \in Nat : n <= Len(s) /\ w[n].end = "done" => w[n].i = Len(s) \/ w[n].i >= n}
<1>1. Len(s) \in Nat /\ \A n \in 0 .. Len(s) : w[n] \in ScanStates(s, done) /\ w[n].i \in 0 .. Len(s)
  <2>1. Len(s) \in Nat
    BY DEF Braced
  <2>2. ASSUME NEW n \in 0 .. Len(s)
        PROVE  w[n] \in ScanStates(s, done)
    BY DEF ScanWalk
  <2>3. \A at \in ScanStates(s, done) : at.i \in 0 .. Len(s)
    BY DEF ScanStates
  <2> QED
    BY <2>1, <2>2, <2>3
<1>2. 0 \in T
  <2>1. 0 \in 0 .. Len(s)
    BY <1>1
  <2>2. w[0].i \in 0 .. Len(s)
    BY <1>1, <2>1
  <2> QED
    BY <2>2
<1>3. ASSUME NEW n \in Nat, n \in T
      PROVE  n + 1 \in T
  <2> SUFFICES ASSUME n + 1 <= Len(s), w[n + 1].end = "done"
               PROVE  w[n + 1].i = Len(s) \/ w[n + 1].i >= n + 1
    OBVIOUS
  <2>1. n \in 0 .. Len(s) /\ n + 1 \in 0 .. Len(s) /\ n + 1 # 0 /\ (n + 1) - 1 = n /\ n <= Len(s)
    BY <1>1
  <2>2. PICK at : at = w[n]
    OBVIOUS
  <2>3. w[n + 1] = ScanNext(s, done, at)
    <3>1. w[n + 1] = ScanNext(s, done, w[(n + 1) - 1])
      BY <2>1 DEF ScanWalk
    <3> QED
      BY <2>1, <2>2, <3>1
  <2>4. at \in ScanStates(s, done) /\ at.i \in 0 .. Len(s) /\ w[n + 1].i \in 0 .. Len(s)
    BY <1>1, <2>1, <2>2
  <2>5. CASE at.i < Len(s) /\ at.end = "done"
    <3>1. w[n + 1] = ScanStep(s, done, at)
      BY <2>3, <2>5 DEF ScanNext
    <3>2. w[n + 1].i >= at.i + 1
      BY <2>4, <2>5, <3>1, ScanStepIn
    <3>3. at.i >= n
      BY <1>1, <1>3, <2>1, <2>2, <2>4, <2>5
    <3> QED
      BY <2>4, <3>2, <3>3
  <2>6. CASE ~(at.i < Len(s) /\ at.end = "done")
    <3>1. w[n + 1] = at
      BY <2>3, <2>6, Zenon DEF ScanNext
    <3>2. at.end = "done"
      BY <3>1
    <3> QED
      BY <1>1, <2>4, <2>6, <3>1, <3>2
  <2> QED
    BY <2>5, <2>6
<1>4. \A n \in Nat : n \in T
  <2> HIDE DEF T
  <2> QED
    BY <1>2, <1>3, SetInduction
<1>5. Len(s) \in T /\ Len(s) \in 0 .. Len(s)
  BY <1>1, <1>4
<1>6. w[Len(s)].i \in 0 .. Len(s)
  BY <1>1, <1>5
<1>7. w[Len(s)].i = Len(s) \/ w[Len(s)].i >= Len(s)
  BY <1>5
<1> QED
  BY <1>1, <1>6, <1>7

\* The trees of a token, and that the loop ends.
LEMMA ScanElements ==
    ASSUME NEW s, NEW done \in Seq(Seq(Node)), Braced(s)
    PROVE  /\ Scan(s, done).trees \in Seq(Seq(Node))
           /\ Scan(s, done).end \in {"done", "invalid"}
           /\ Good(s, done) /\ Scan(s, done).end = "done" =>
                TreeLeaves(Scan(s, done).trees) = Elements(s, done)
<1>1. PICK w : ScanWalk(s, done, w)
  BY ScanWalkExists
<1>2. Len(s) \in Nat /\ Len(s) \in 0 .. Len(s)
  BY DEF Braced
<1>3. PICK r : r = Scan(s, done)
  OBVIOUS
<1>4. r = w[Len(s)]
  BY <1>1, <1>2, <1>3, ScanIsWalk
<1>5. r \in ScanStates(s, done)
  BY <1>1, <1>2, <1>4 DEF ScanWalk
<1>6. /\ r.trees \in Seq(Seq(Node)) /\ r.end \in {"done", "invalid"}
      /\ Good(s, done) => TreeLeaves(r.trees) = Row(ElemRow(s, done), 0, r.i)
  BY <1>5 DEF ScanStates
<1>7. r.end = "done" => r.i = Len(s)
  BY <1>1, <1>4, ScanArrives
<1>8. ASSUME Good(s, done), r.end = "done"
      PROVE  TreeLeaves(r.trees) = Elements(s, done)
  <2>1. Elements(s, done) = Row(ElemRow(s, done), 0, Len(s))
    BY <1>8, ElementsRow
  <2> QED
    BY <1>6, <1>7, <1>8, <2>1
<1> QED
  BY <1>3, <1>6, <1>8
-----------------------------------------------------------------------------
(***************************************************************************)
(* ProcessBracket: a bracket's tree has its elements.                      *)
(***************************************************************************)
\* What a token contributes: the combination of its trees, if it has any.
TokenNode(token, done) ==
    IF Scan(token, done).trees = <<>> THEN <<>>
    ELSE <<Combine("parallel", Scan(token, done).trees)>>

TokenNodes(tokens, done) ==
    FlattenSeq([k \in 1 .. Len(tokens) |-> TokenNode(tokens[k], done)])

\* The tree of a token has the token's elements, when the scan of it is done.
LEMMA TokenNodeElements ==
    ASSUME NEW t, NEW done \in Seq(Seq(Node)), Braced(t)
    PROVE  /\ AtMostOne(TokenNode(t, done))
           /\ Good(t, done) /\ Scan(t, done).end = "done" =>
                TreeLeaves(TokenNode(t, done)) = Elements(t, done)
<1>1. PICK r : r = Scan(t, done)
  OBVIOUS
<1>2. /\ r.trees \in Seq(Seq(Node))
      /\ Good(t, done) /\ r.end = "done" => TreeLeaves(r.trees) = Elements(t, done)
  BY <1>1, ScanElements
<1>3. CASE r.trees = <<>>
  <2>1. TokenNode(t, done) = <<>>
    BY <1>1, <1>3 DEF TokenNode
  <2> QED
    BY <1>1, <1>2, <1>3, <2>1, TreeLeavesNone
<1>4. CASE r.trees # <<>>
  <2>1. PICK tree : tree = Combine("parallel", r.trees)
    OBVIOUS
  <2>2. TokenNode(t, done) = <<tree>>
    BY <1>1, <1>4, <2>1 DEF TokenNode
  <2>3. tree \in Seq(Node) /\ Leaves(tree) = TreeLeaves(r.trees)
    BY <1>2, <2>1, LeavesCombine DEF TreeLeaves
  <2>4. AtMostOne(<<tree>>) /\ TreeLeaves(<<tree>>) = Leaves(tree)
    BY <2>3, TreeLeavesOne
  <2> QED
    BY <1>1, <1>2, <2>2, <2>3, <2>4
<1> QED
  BY <1>3, <1>4

\* The same for all of them.
AllDone(tokens, done) == \A k \in 1 .. Len(tokens) : Scan(tokens[k], done).end = "done"

\* The trees of the tokens have the tokens' elements, when every scan is done.
LEMMA TokenNodesElements ==
    ASSUME NEW tokens, NEW done \in Seq(Seq(Node)), AllBraced(tokens)
    PROVE  /\ TokenNodes(tokens, done) \in Seq(Seq(Node))
           /\ AllGood(tokens, done) /\ AllDone(tokens, done) =>
                TreeLeaves(TokenNodes(tokens, done)) = AllElements(tokens, done)
<1> DEFINE x == [k \in 1 .. Len(tokens) |-> TokenNode(tokens[k], done)]
           y == [k \in 1 .. Len(tokens) |-> Elements(tokens[k], done)]
           n == Len(tokens)
<1>1. n \in Nat /\ \A k \in 1 .. n : Braced(tokens[k])
  BY DEF AllBraced
<1>2. \A k \in 1 .. n : AtMostOne(TokenNode(tokens[k], done))
  BY <1>1, TokenNodeElements
<1>3. ASSUME NEW t, AtMostOne(t)
      PROVE  t \in Seq(Seq(Node))
  <2>1. <<>> \in Seq(Seq(Node))
    OBVIOUS
  <2> QED
    BY <1>3, <2>1, TreeLeavesConcat
<1>4. x \in Seq(Seq(Seq(Node))) /\ Len(x) = n /\ \A k \in 1 .. n : x[k] = TokenNode(tokens[k], done)
  <2>1. \A k \in 1 .. n : TokenNode(tokens[k], done) \in Seq(Seq(Node))
    BY <1>2, <1>3
  <2> HIDE DEF n
  <2> QED
    BY <1>1, <2>1 DEF n
<1>5. TokenNodes(tokens, done) = FlattenSeq(x)
  BY DEF TokenNodes
<1>6. FlattenSeq(x) \in Seq(Seq(Node))
  <2> HIDE DEF x
  <2> QED
    BY <1>4, FlatSeq
<1>7. ASSUME AllGood(tokens, done), AllDone(tokens, done)
      PROVE  TreeLeaves(FlattenSeq(x)) = FlattenSeq(y)
  <2>1. y \in Seq(Seq(Node)) /\ Len(y) = n /\ \A k \in 1 .. n : y[k] = Elements(tokens[k], done)
    <3>1. y \in Seq(Seq(Node))
      BY <1>7, AllElementsType
    <3> QED
      BY <1>1, <3>1
  <2>2. \A k \in 1 .. n : TreeLeaves(TokenNode(tokens[k], done)) = Elements(tokens[k], done)
    BY <1>1, <1>7, TokenNodeElements DEF AllGood, AllDone
  <2> HIDE DEF x, y, n
  <2>3. PICK f : InARow(f, x, Seq(Node))
    BY <1>4, RowExists
  <2>4. PICK g : InARow(g, y, Node)
    BY <2>1, RowExists
  <2>5. FlattenSeq(x) = f[n] /\ FlattenSeq(y) = g[n]
    BY <1>4, <2>1, <2>3, <2>4, RowIsFlat
  <2>6. /\ f[0] = <<>> /\ \A k \in 1 .. n : f[k] = f[k - 1] \o x[k]
        /\ g[0] = <<>> /\ \A k \in 1 .. n : g[k] = g[k - 1] \o y[k]
        /\ \A k \in 0 .. n : f[k] \in Seq(Seq(Node))
    BY <1>4, <2>1, <2>3, <2>4 DEF InARow
  <2> DEFINE T == {k \in Nat : k <= n => TreeLeaves(f[k]) = g[k]}
  <2>7. 0 \in T
    BY <2>6, TreeLeavesNone
  <2>8. ASSUME NEW k \in Nat, k \in T
        PROVE  k + 1 \in T
    <3> SUFFICES ASSUME k + 1 <= n
                 PROVE  TreeLeaves(f[k + 1]) = g[k + 1]
      OBVIOUS
    <3>1. k + 1 \in 1 .. n /\ (k + 1) - 1 = k /\ k \in 0 .. n /\ k <= n
      BY <1>1
    <3>2. PICK u, a : u = f[k] /\ a = x[k + 1]
      OBVIOUS
    <3>3. u \in Seq(Seq(Node)) /\ AtMostOne(a) /\ f[k + 1] = u \o a
      <4>1. f[k + 1] = f[(k + 1) - 1] \o x[k + 1] /\ f[k] \in Seq(Seq(Node))
        BY <2>6, <3>1
      <4>2. AtMostOne(x[k + 1])
        BY <1>2, <1>4, <3>1
      <4> QED
        BY <3>1, <3>2, <4>1, <4>2
    <3>4. TreeLeaves(u \o a) = TreeLeaves(u) \o TreeLeaves(a)
      BY <3>3, TreeLeavesConcat
    <3>5. TreeLeaves(u) = g[k] /\ TreeLeaves(a) = y[k + 1]
      BY <1>4, <2>1, <2>2, <2>8, <3>1, <3>2
    <3>6. g[k + 1] = g[k] \o y[k + 1]
      <4>1. g[k + 1] = g[(k + 1) - 1] \o y[k + 1]
        BY <2>6, <3>1
      <4> QED
        BY <3>1, <4>1
    <3> QED
      BY <3>3, <3>4, <3>5, <3>6
  <2>9. \A k \in Nat : k \in T
    <3> HIDE DEF T
    <3> QED
      BY <2>7, <2>8, SetInduction
  <2> QED
    BY <1>1, <2>5, <2>9
<1> QED
  BY <1>5, <1>6, <1>7 DEF AllElements

\* A string whose braces match is processed to the end, and the tree that comes
\* of it has its elements.
LEMMA ProcessElements ==
    ASSUME NEW s, NEW done \in Seq(Seq(Node)), Braced(s)
    PROVE  /\ ProcessBracket(s, done).end \in {"done", "invalid"}
           /\ ProcessBracket(s, done).tree \in Seq(Node)
           /\ Good(s, done) /\ ProcessBracket(s, done).end = "done" =>
                Leaves(ProcessBracket(s, done).tree) = Elements(s, done)
<1>1. PICK tokens : tokens = Tokenize(s, "-", LBrace, RBrace)
  OBVIOUS
<1>2. /\ AllBraced(tokens)
      /\ Good(s, done) => AllGood(tokens, done) /\ AllElements(tokens, done) = Elements(s, done)
  BY <1>1, TokenizeElements
<1>3. DOMAIN tokens = 1 .. Len(tokens) /\ Len(tokens) \in Nat
        /\ \A k \in 1 .. Len(tokens) : Braced(tokens[k])
  BY <1>2 DEF AllBraced
<1> DEFINE scans == [k \in DOMAIN tokens |-> Scan(tokens[k], done)]
           failed == {k \in DOMAIN scans : scans[k].end # "done"}
           node(scan) == IF scan.trees = <<>> THEN <<>> ELSE <<Combine("parallel", scan.trees)>>
           nodes == FlattenSeq([k \in DOMAIN scans |-> node(scans[k])])
           result == IF failed # {} THEN [end |-> scans[Min(failed)].end, tree |-> Nothing]
                     ELSE [end |-> IF nodes = <<>> THEN "invalid" ELSE "done",
                           tree |-> Combine("serial", nodes)]
<1>4. ProcessBracket(s, done) = result
  BY <1>1 DEF ProcessBracket
<1>5. nodes = TokenNodes(tokens, done)
  <2>1. DOMAIN scans = 1 .. Len(tokens)
    BY <1>3
  <2>2. \A k \in 1 .. Len(tokens) : node(scans[k]) = TokenNode(tokens[k], done)
    BY <1>3 DEF TokenNode
  <2>3. [k \in DOMAIN scans |-> node(scans[k])]
          = [k \in 1 .. Len(tokens) |-> TokenNode(tokens[k], done)]
    BY <2>1, <2>2
  <2> QED
    BY <2>3 DEF TokenNodes
<1>6. failed \in SUBSET Nat /\ \A k \in failed : scans[k].end = "invalid"
  <2>1. \A k \in 1 .. Len(tokens) : scans[k] = Scan(tokens[k], done)
    BY <1>3
  <2>2. \A k \in 1 .. Len(tokens) : scans[k].end \in {"done", "invalid"}
    BY <1>3, <2>1, ScanElements
  <2>3. \A k \in failed : k \in 1 .. Len(tokens) /\ scans[k].end # "done"
    BY <1>3
  <2> HIDE DEF failed, scans
  <2> QED
    BY <1>3, <2>2, <2>3
<1>7. nodes \in Seq(Seq(Node))
        /\ (AllGood(tokens, done) /\ AllDone(tokens, done) =>
              TreeLeaves(nodes) = AllElements(tokens, done))
  <2> HIDE DEF nodes
  <2> QED
    BY <1>2, <1>5, TokenNodesElements
<1>8. failed = {} => AllDone(tokens, done)
  BY <1>3 DEF AllDone
<1> HIDE DEF nodes, scans, failed
<1>9. CASE failed # {}
  <2>1. Min(failed) \in failed
    BY <1>6, <1>9, MinIn
  <2>2. result.end = "invalid" /\ result.tree = <<>>
    BY <1>6, <1>9, <2>1 DEF Nothing
  <2>3. <<>> \in Seq(Node)
    OBVIOUS
  <2> HIDE DEF result
  <2> QED
    BY <1>4, <2>2, <2>3
<1>10. CASE failed = {}
  <2>1. result = [end |-> IF nodes = <<>> THEN "invalid" ELSE "done",
                  tree |-> Combine("serial", nodes)]
    BY <1>10
  <2>2. Combine("serial", nodes) \in Seq(Node)
          /\ Leaves(Combine("serial", nodes)) = TreeLeaves(nodes)
    BY <1>7, LeavesCombine DEF TreeLeaves
  <2> HIDE DEF result
  <2>3. result.end \in {"done", "invalid"} /\ result.tree = Combine("serial", nodes)
    BY <2>1
  <2> QED
    BY <1>2, <1>4, <1>7, <1>8, <1>10, <2>2, <2>3
<1> QED
  BY <1>9, <1>10
-----------------------------------------------------------------------------
(***************************************************************************)
(* A string after one of its brackets has been replaced.                   *)
(***************************************************************************)
\* As often in n characters.
AsOften(s, a, t, b, n, ch) ==
    Occurrences(s, ch, a, (a + n) - 1) = Occurrences(t, ch, b, (b + n) - 1)

\* The same text has a character as often.
LEMMA OccShift ==
    ASSUME NEW s, NEW t, NEW ch, NEW a \in Nat, NEW b \in Nat, NEW n \in Nat,
           Same(s, a, t, b, n)
    PROVE  AsOften(s, a, t, b, n, ch)
<1> DEFINE S == {i \in Nat : i <= n =>
                   Occurrences(s, ch, a, (a + i) - 1) = Occurrences(t, ch, b, (b + i) - 1)}
<1>1. 0 \in S
  <2>1. (a + 0) - 1 = a - 1 /\ (b + 0) - 1 = b - 1 /\ a \in Int /\ b \in Int
    OBVIOUS
  <2>2. Occurrences(s, ch, a, a - 1) = 0 /\ Occurrences(t, ch, b, b - 1) = 0
    BY <2>1, OccNone
  <2> QED
    BY <2>1, <2>2
<1>2. ASSUME NEW i \in Nat, i \in S
      PROVE  i + 1 \in S
  <2> SUFFICES ASSUME i + 1 <= n
               PROVE  Occurrences(s, ch, a, (a + (i + 1)) - 1)
                        = Occurrences(t, ch, b, (b + (i + 1)) - 1)
    OBVIOUS
  <2>1. PICK p, q \in Int : /\ p = a + i /\ q = b + i /\ a <= p /\ b <= q
                            /\ (a + (i + 1)) - 1 = p /\ (b + (i + 1)) - 1 = q
    <3>1. a + i \in Int /\ b + i \in Int /\ a <= a + i /\ b <= b + i
            /\ (a + (i + 1)) - 1 = a + i /\ (b + (i + 1)) - 1 = b + i
      OBVIOUS
    <3> QED
      BY <3>1
  <2>2. Occurrences(s, ch, a, p)
          = Occurrences(s, ch, a, p - 1) + (IF At(s, p) = ch THEN 1 ELSE 0)
    BY <2>1, OccStep, a \in Int
  <2>3. Occurrences(t, ch, b, q)
          = Occurrences(t, ch, b, q - 1) + (IF At(t, q) = ch THEN 1 ELSE 0)
    BY <2>1, OccStep, b \in Int
  <2>4. At(s, p) = At(t, q)
    BY <2>1 DEF Same
  <2>5. Occurrences(s, ch, a, p - 1) = Occurrences(t, ch, b, q - 1)
    BY <1>2, <2>1
  <2>6. Occurrences(s, ch, a, p) = Occurrences(t, ch, b, q)
    BY <2>2, <2>3, <2>4, <2>5
  <2> QED
    BY <2>1, <2>6
<1>3. \A i \in Nat : i \in S
  <2> HIDE DEF S
  <2> QED
    BY <1>1, <1>2, SetInduction
<1> QED
  BY <1>3 DEF AsOften

\* t is s with the character ch in place of those from a to e, n follow.
Replaces(s, t, a, e, n, ch) ==
    /\ s \in Seq(Text) /\ t \in Seq(Text)
    /\ a \in Nat /\ e \in Nat /\ n \in Nat /\ a <= e
    /\ Len(s) = (e + 1) + n /\ Len(t) = (a + 1) + n
    /\ Same(s, 0, t, 0, a) /\ At(t, a) = ch /\ Same(s, e + 1, t, a + 1, n)

\* Putting one character for a stretch keeps the string before and after it.
LEMMA ReplacedFacts ==
    ASSUME NEW s \in Seq(Text), NEW a \in 0 .. Len(s) - 1, NEW e \in a .. Len(s) - 1,
           NEW ch \in Text
    PROVE  \E n : Replaces(s, Substr(s, 0, a) \o <<ch>> \o Substr(s, e + 1, Len(s)), a, e, n, ch)
<1>1. Len(s) \in Nat /\ a \in Nat /\ e \in Nat /\ a <= e /\ e + 1 \in Nat /\ a <= Len(s)
  OBVIOUS
<1>2. PICK n \in Nat : Len(s) = (e + 1) + n
  <2>1. Len(s) - (e + 1) \in Nat /\ Len(s) = (e + 1) + (Len(s) - (e + 1))
    BY <1>1
  <2> QED
    BY <2>1
<1>3. PICK u, v : u = Substr(s, 0, 0 + a) /\ v = Substr(s, e + 1, (e + 1) + n)
  OBVIOUS
<1>4. u \in Seq(Text) /\ Len(u) = a /\ Same(u, 0, s, 0, a)
  BY <1>1, <1>3, SubstrFacts, 0 + a <= Len(s), 0 \in Nat
<1>5. v \in Seq(Text) /\ Len(v) = n /\ Same(v, 0, s, e + 1, n)
  BY <1>1, <1>2, <1>3, SubstrFacts
<1>6. PICK w : w = u \o <<ch>>
  OBVIOUS
<1>7. <<ch>> \in Seq(Text) /\ Len(<<ch>>) = 1
  OBVIOUS
<1>8. w \in Seq(Text) /\ Len(w) = a + 1 /\ (\A k \in 1 .. a : w[k] = u[k]) /\ w[a + 1] = ch
  BY <1>4, <1>6, <1>7
<1>9. PICK t : t = w \o v
  OBVIOUS
<1>10. t \in Seq(Text) /\ Len(t) = (a + 1) + n /\ (\A k \in 1 .. (a + 1) : t[k] = w[k])
         /\ \A k \in 1 .. n : t[(a + 1) + k] = v[k]
  <2>1. t \in Seq(Text) /\ Len(t) = Len(w) + Len(v) /\ (\A k \in 1 .. Len(w) : t[k] = w[k])
          /\ \A k \in 1 .. Len(v) : t[Len(w) + k] = v[k]
    <3>1. w \in Seq(Text) /\ v \in Seq(Text)
      BY <1>5, <1>8
    <3> QED
      BY <1>9, <3>1
  <2> QED
    BY <1>1, <1>5, <1>8, <2>1
<1>11. Same(s, 0, t, 0, a)
  <2> SUFFICES ASSUME NEW i \in 0 .. a - 1
               PROVE  At(s, 0 + i) = At(t, 0 + i)
    BY DEF Same
  <2>1. i + 1 \in 1 .. a /\ i + 1 \in 1 .. (a + 1) /\ 0 + i = i
    BY <1>1
  <2>2. At(u, 0 + i) = At(s, 0 + i)
    BY <1>4 DEF Same
  <2>3. t[i + 1] = u[i + 1]
    BY <1>8, <1>10, <2>1
  <2> QED
    BY <2>1, <2>2, <2>3 DEF At
<1>12. At(t, a) = ch
  <2>1. a + 1 \in 1 .. (a + 1)
    BY <1>1
  <2> QED
    BY <1>8, <1>10, <2>1 DEF At
<1>13. Same(s, e + 1, t, a + 1, n)
  <2> SUFFICES ASSUME NEW i \in 0 .. n - 1
               PROVE  At(s, (e + 1) + i) = At(t, (a + 1) + i)
    BY DEF Same
  <2>1. i + 1 \in 1 .. n /\ 0 + i = i /\ ((a + 1) + i) + 1 = (a + 1) + (i + 1)
    BY <1>1
  <2>2. At(v, 0 + i) = At(s, (e + 1) + i)
    BY <1>5 DEF Same
  <2>3. t[(a + 1) + (i + 1)] = v[i + 1]
    BY <1>10, <2>1
  <2> QED
    BY <2>1, <2>2, <2>3 DEF At
<1>14. Replaces(s, t, a, e, n, ch)
  BY <1>1, <1>2, <1>10, <1>11, <1>12, <1>13 DEF Replaces
<1>15. t = Substr(s, 0, a) \o <<ch>> \o Substr(s, e + 1, Len(s))
  <2>1. 0 + a = a
    BY <1>1
  <2> QED
    BY <1>2, <1>3, <1>6, <1>9, <2>1
<1> QED
  BY <1>14, <1>15

\* A bracket less.
LEMMA ReplacedBrackets ==
    ASSUME NEW s, NEW t, NEW a, NEW e, NEW n, NEW ch, Replaces(s, t, a, e, n, ch),
           At(s, a) = "(", ch # "("
    PROVE  NumBrackets(s) \in Nat /\ NumBrackets(t) \in Nat /\ NumBrackets(t) < NumBrackets(s)
<1>1. /\ a \in Nat /\ e \in Nat /\ n \in Nat /\ a <= e /\ Len(s) = (e + 1) + n /\ Len(t) = (a + 1) + n
      /\ Same(s, 0, t, 0, a) /\ At(t, a) = ch /\ Same(s, e + 1, t, a + 1, n)
  BY DEF Replaces
<1>2. PICK x, y, z, x2, y2, z2, all, all2, half, half2 :
        /\ x = Occurrences(s, "(", 0, a - 1) /\ x2 = Occurrences(t, "(", 0, a - 1)
        /\ y = Occurrences(s, "(", a, e) /\ y2 = Occurrences(t, "(", a, a)
        /\ z = Occurrences(s, "(", e + 1, ((e + 1) + n) - 1)
        /\ z2 = Occurrences(t, "(", a + 1, ((a + 1) + n) - 1)
        /\ half = Occurrences(s, "(", 0, e) /\ half2 = Occurrences(t, "(", 0, a)
        /\ all = Occurrences(s, "(", 0, ((e + 1) + n) - 1)
        /\ all2 = Occurrences(t, "(", 0, ((a + 1) + n) - 1)
  OBVIOUS
<1>3. a \in Int /\ e \in Int /\ a - 1 \in Int /\ 0 \in Int /\ e + 1 \in Int /\ a + 1 \in Int
        /\ ((e + 1) + n) - 1 \in Int /\ ((a + 1) + n) - 1 \in Int
  BY <1>1
<1>4. x \in Nat /\ x2 \in Nat /\ y \in Nat /\ y2 \in Nat /\ z \in Nat /\ z2 \in Nat
  BY <1>2, <1>3, OccNat
<1>5. x = x2
  <2>1. Occurrences(s, "(", 0, (0 + a) - 1) = Occurrences(t, "(", 0, (0 + a) - 1)
    BY <1>1, OccShift, 0 \in Nat DEF AsOften
  <2>2. (0 + a) - 1 = a - 1
    BY <1>1
  <2> QED
    BY <1>2, <2>1, <2>2
<1>6. z = z2
  <2>1. PICK p, q \in Nat : p = e + 1 /\ q = a + 1
    <3>1. e + 1 \in Nat /\ a + 1 \in Nat
      BY <1>1
    <3> QED
      BY <3>1
  <2>2. Same(s, p, t, q, n)
    BY <1>1, <2>1
  <2>3. AsOften(s, p, t, q, n, "(")
    BY <1>1, <2>2, OccShift
  <2> QED
    BY <1>2, <2>1, <2>3 DEF AsOften
<1>7. y >= 1
  <2>1. a \in a .. e
    BY <1>1
  <2> QED
    BY <1>2, <1>3, <2>1, OccSome
<1>8. y2 = 0
  <2>1. Occurrences(t, "(", a, a) = Occurrences(t, "(", a, a - 1) + 0
    BY <1>1, <1>3, OccStep
  <2>2. Occurrences(t, "(", a, a - 1) = 0
    BY <1>3, OccNone
  <2> QED
    BY <1>2, <2>1, <2>2
<1>9. half = x + y /\ half2 = x2 + y2
  <2>1. a <= e + 1 /\ a <= a + 1
    BY <1>1
  <2> QED
    BY <1>1, <1>2, <1>3, <2>1, OccSplit
<1>10. all = half + z
  <2>1. e + 1 \in Nat /\ e + 1 <= (((e + 1) + n) - 1) + 1 /\ (e + 1) - 1 = e
    BY <1>1
  <2>2. Occurrences(s, "(", 0, ((e + 1) + n) - 1)
          = Occurrences(s, "(", 0, (e + 1) - 1) + Occurrences(s, "(", e + 1, ((e + 1) + n) - 1)
    BY <1>3, <2>1, OccSplit
  <2> QED
    BY <1>2, <2>1, <2>2
<1>11. all2 = half2 + z2
  <2>1. a + 1 \in Nat /\ a + 1 <= (((a + 1) + n) - 1) + 1 /\ (a + 1) - 1 = a
    BY <1>1
  <2>2. Occurrences(t, "(", 0, ((a + 1) + n) - 1)
          = Occurrences(t, "(", 0, (a + 1) - 1) + Occurrences(t, "(", a + 1, ((a + 1) + n) - 1)
    BY <1>3, <2>1, OccSplit
  <2> QED
    BY <1>2, <2>1, <2>2
<1>12. NumBrackets(s) = all /\ NumBrackets(t) = all2
  BY <1>1, <1>2 DEF NumBrackets
<1> QED
  BY <1>4, <1>5, <1>6, <1>7, <1>8, <1>9, <1>10, <1>11, <1>12

\* Outside of it as many are open as before.
NestsAsBefore(s, t, a, e, n, open, close) ==
    /\ \A i \in 0 .. a : Depth(t, open, close, i) = Depth(s, open, close, i)
    /\ \A i \in 0 .. n : Depth(t, open, close, (a + 1) + i) = Depth(s, open, close, (e + 1) + i)

\* A balanced stretch can be replaced without a change of depth around it.
LEMMA ReplacedDepth ==
    ASSUME NEW s, NEW t, NEW a, NEW e, NEW n, NEW ch, Replaces(s, t, a, e, n, ch),
           NEW open, NEW close, open # close, ch # open, ch # close,
           Depth(s, open, close, e + 1) = Depth(s, open, close, a)
    PROVE  NestsAsBefore(s, t, a, e, n, open, close)
<1>1. /\ a \in Nat /\ e \in Nat /\ n \in Nat /\ e + 1 \in Nat /\ a + 1 \in Nat /\ 0 \in Nat
      /\ Same(s, 0, t, 0, a) /\ At(t, a) = ch /\ Same(s, e + 1, t, a + 1, n)
  BY DEF Replaces
<1> DEFINE d(u, i) == Depth(u, open, close, i)
<1>2. \A i \in 0 .. a : d(t, i) = d(s, i)
  <2>1. Nests(s, 0, t, 0, a, open, close)
    BY <1>1, DepthShift, Zenon
  <2>2. d(s, 0) = 0 /\ d(t, 0) = 0
    BY DepthFirst
  <2> TAKE i \in 0 .. a
  <2>3. d(s, 0 + i) - d(s, 0) = d(t, 0 + i) - d(t, 0)
    BY <2>1 DEF Nests
  <2>4. 0 + i = i /\ i \in Nat
    BY <1>1
  <2>5. d(s, i) \in Int /\ d(t, i) \in Int
    BY <2>4, DepthInt
  <2> HIDE DEF d
  <2> QED
    BY <2>2, <2>3, <2>4, <2>5
<1>3. d(t, a + 1) = d(s, e + 1)
  <2>1. d(t, a) = d(s, a)
    BY <1>1, <1>2
  <2>2. d(t, a + 1) = d(t, a) + Kind(At(t, a), open, close) /\ d(t, a) \in Int
    BY <1>1, DepthStep
  <2>3. Kind(At(t, a), open, close) = 0
    BY <1>1 DEF Kind
  <2> QED
    BY <2>1, <2>2, <2>3
<1>4. \A i \in 0 .. n : d(t, (a + 1) + i) = d(s, (e + 1) + i)
  <2>1. Nests(s, e + 1, t, a + 1, n, open, close)
    BY <1>1, DepthShift, Zenon
  <2> TAKE i \in 0 .. n
  <2>2. d(s, (e + 1) + i) - d(s, e + 1) = d(t, (a + 1) + i) - d(t, a + 1)
    BY <2>1 DEF Nests
  <2>3. (e + 1) + i \in Nat /\ (a + 1) + i \in Nat
    BY <1>1
  <2>4. d(s, (e + 1) + i) \in Int /\ d(s, e + 1) \in Int /\ d(t, (a + 1) + i) \in Int
          /\ d(t, a + 1) \in Int
    BY <1>1, <2>3, DepthInt
  <2> HIDE DEF d
  <2> QED
    BY <1>3, <2>2, <2>4
<1> QED
  BY <1>2, <1>4 DEF NestsAsBefore

\* A bracket outside of braces: it may be replaced.
Bracket(s, a, e) == At(s, a) = "(" /\ At(s, e) = ")"

\* Braces are well formed when they balance and no bracket stands inside any.
LEMMA BracesBraced ==
    ASSUME NEW s \in Seq(Text)
    PROVE  /\ BracesOK(s) => Braced(s)
           /\ BracesOK(s) => \A i \in 0 .. Len(s) - 1 :
                               At(s, i) \in {"(", ")"} => BraceDepth(s, i) = 0 /\ BraceDepth(s, i + 1) = 0
           /\ Braced(s) /\ (\A i \in 0 .. Len(s) - 1 : At(s, i) \in {"(", ")"} => BraceDepth(s, i) = 0)
                => BracesOK(s)
<1>1. Len(s) \in Nat
  OBVIOUS
<1>2. BracesOK(s) => Braced(s)
  <2> SUFFICES ASSUME BracesOK(s), NEW i \in 0 .. Len(s)
               PROVE  BraceDepth(s, i) \in {0, 1}
    BY DEF Braced, BracesOK
  <2>1. i \in Indices(s) \/ i = Len(s)
    BY <1>1 DEF Indices
  <2> QED
    BY <2>1 DEF BracesOK
<1>3. ASSUME BracesOK(s), NEW i \in 0 .. Len(s) - 1, At(s, i) \in {"(", ")"}
      PROVE  BraceDepth(s, i) = 0 /\ BraceDepth(s, i + 1) = 0
  <2>1. i \in Indices(s)
    BY DEF Indices
  <2>2. BraceDepth(s, i) = 0
    BY <1>3, <2>1 DEF BracesOK
  <2>3. At(s, i) \notin {LBrace, RBrace}
    BY <1>3, BracesDiffer
  <2> QED
    BY <1>2, <1>3, <2>2, <2>3, BraceKinds
<1>4. ASSUME Braced(s), \A i \in 0 .. Len(s) - 1 : At(s, i) \in {"(", ")"} => BraceDepth(s, i) = 0
      PROVE  BracesOK(s)
  <2>1. \A i \in 0 .. Len(s) - 1 : i \in 0 .. Len(s)
    BY <1>1
  <2>2. \A i \in 0 .. Len(s) - 1 : BraceDepth(s, i) \in {0, 1}
    BY <1>4, <2>1 DEF Braced
  <2>3. BraceDepth(s, Len(s)) = 0
    BY <1>4 DEF Braced
  <2>4. \A i \in 0 .. Len(s) - 1 : BraceDepth(s, i) = 1 => At(s, i) \notin {"(", ")"}
    BY <1>4
  <2> QED
    BY <2>2, <2>3, <2>4 DEF BracesOK, Indices
<1> QED
  BY <1>2, <1>3, <1>4

\* The pieces of the string before and after.
LEMMA ReplacedPieces ==
    ASSUME NEW s, NEW t, NEW a, NEW e, NEW n, NEW ch, Replaces(s, t, a, e, n, ch),
           ch \notin {LBrace, RBrace, "(", ")"}, Bracket(s, a, e), BracesOK(s)
    PROVE  /\ a + 1 <= e
           /\ BracesOK(t) /\ BraceDepth(t, a) = 0
           /\ NestsAsBefore(s, t, a, e, n, LBrace, RBrace)
           /\ Piece(s, 0, a) /\ Piece(s, e + 1, n) /\ Piece(t, 0, a) /\ Piece(t, a + 1, n)
           /\ \A m \in Nat : e = (a + 1) + m => Piece(s, a + 1, m)
<1>1. /\ s \in Seq(Text) /\ t \in Seq(Text)
      /\ a \in Nat /\ e \in Nat /\ n \in Nat /\ a <= e /\ Len(s) = (e + 1) + n /\ Len(t) = (a + 1) + n
      /\ Same(s, 0, t, 0, a) /\ At(t, a) = ch /\ Same(s, e + 1, t, a + 1, n)
      /\ At(s, a) = "(" /\ At(s, e) = ")" /\ Len(s) \in Nat /\ Len(t) \in Nat
  BY DEF Replaces, Bracket
<1>2. a + 1 <= e
  <2>1. a # e
    BY <1>1
  <2> QED
    BY <1>1, <2>1
<1>3. Braced(s) /\ BraceDepth(s, Len(s)) = 0
  BY <1>1, BracesBraced DEF Braced
<1>4. BraceDepth(s, a) = 0 /\ BraceDepth(s, a + 1) = 0 /\ BraceDepth(s, e) = 0
        /\ BraceDepth(s, e + 1) = 0
  <2>1. a \in 0 .. Len(s) - 1 /\ e \in 0 .. Len(s) - 1
    BY <1>1
  <2> QED
    BY <1>1, <2>1, BracesBraced
<1>5. NestsAsBefore(s, t, a, e, n, LBrace, RBrace)
  <2>1. LBrace # RBrace /\ ch # LBrace /\ ch # RBrace
    BY BracesDiffer
  <2>2. Depth(s, LBrace, RBrace, e + 1) = Depth(s, LBrace, RBrace, a)
    BY <1>4 DEF BraceDepth
  <2> QED
    BY <2>1, <2>2, ReplacedDepth
<1>6. /\ \A i \in 0 .. a : BraceDepth(t, i) = BraceDepth(s, i)
      /\ \A i \in 0 .. n : BraceDepth(t, (a + 1) + i) = BraceDepth(s, (e + 1) + i)
  BY <1>5 DEF NestsAsBefore, BraceDepth
<1>7. BraceDepth(t, a) = 0 /\ BraceDepth(t, 0) = 0 /\ BraceDepth(s, 0) = 0
        /\ BraceDepth(t, a + 1) = 0 /\ BraceDepth(t, Len(t)) = 0
  <2>1. a \in 0 .. a /\ 0 \in 0 .. n /\ n \in 0 .. n /\ (a + 1) + 0 = a + 1 /\ (e + 1) + 0 = e + 1
          /\ 0 \in Nat
    BY <1>1
  <2>2. BraceDepth(t, a) = BraceDepth(s, a) /\ BraceDepth(t, (a + 1) + 0) = BraceDepth(s, (e + 1) + 0)
          /\ BraceDepth(t, (a + 1) + n) = BraceDepth(s, (e + 1) + n)
    BY <1>6, <2>1
  <2>3. BraceDepth(t, 0) = 0 /\ BraceDepth(s, 0) = 0
    BY <2>1, BraceStep
  <2> QED
    BY <1>1, <1>3, <1>4, <2>1, <2>2, <2>3
<1>8. ASSUME NEW i \in 0 .. Len(t)
      PROVE  \/ i \in 0 .. a
             \/ \E j \in 0 .. n : i = (a + 1) + j
  <2>1. CASE ~(i <= a)
    <3>1. i - (a + 1) \in 0 .. n /\ i = (a + 1) + (i - (a + 1))
      BY <1>1, <2>1
    <3> QED
      BY <3>1
  <2> QED
    BY <1>1, <2>1
<1>9. Braced(t)
  <2> SUFFICES ASSUME NEW i \in 0 .. Len(t)
               PROVE  BraceDepth(t, i) \in {0, 1}
    BY <1>1, <1>7 DEF Braced
  <2>1. CASE i \in 0 .. a
    <3>1. i \in 0 .. Len(s)
      BY <1>1, <2>1
    <3> QED
      BY <1>3, <1>6, <2>1, <3>1 DEF Braced
  <2>2. CASE \E j \in 0 .. n : i = (a + 1) + j
    <3>1. PICK j \in 0 .. n : i = (a + 1) + j
      BY <2>2
    <3>2. (e + 1) + j \in 0 .. Len(s)
      BY <1>1
    <3>3. BraceDepth(t, i) = BraceDepth(s, (e + 1) + j)
      BY <1>6, <3>1
    <3> QED
      BY <1>3, <3>2, <3>3 DEF Braced
  <2> QED
    BY <1>8, <2>1, <2>2
<1>10. \A i \in 0 .. Len(t) - 1 : At(t, i) \in {"(", ")"} => BraceDepth(t, i) = 0
  <2> SUFFICES ASSUME NEW i \in 0 .. Len(t) - 1, At(t, i) \in {"(", ")"}
               PROVE  BraceDepth(t, i) = 0
    OBVIOUS
  <2>0. i \in 0 .. Len(t)
    BY <1>1
  <2>1. CASE i \in 0 .. a
    <3>1. CASE i = a
      BY <1>7, <3>1
    <3>2. CASE i # a
      <4>1. i \in 0 .. a - 1 /\ i \in 0 .. Len(s) - 1 /\ 0 + i = i
        BY <1>1, <2>1, <3>2
      <4>2. At(s, i) = At(t, i)
        BY <1>1, <4>1 DEF Same
      <4>3. BraceDepth(s, i) = 0
        BY <1>1, <4>1, <4>2, BracesBraced
      <4> QED
        BY <1>6, <2>1, <4>3
    <3> QED
      BY <3>1, <3>2
  <2>2. CASE \E j \in 0 .. n : i = (a + 1) + j
    <3>1. PICK j \in 0 .. n : i = (a + 1) + j
      BY <2>2
    <3>2. j \in 0 .. n - 1 /\ (e + 1) + j \in 0 .. Len(s) - 1
      BY <1>1, <3>1
    <3>3. At(s, (e + 1) + j) = At(t, i)
      BY <1>1, <3>1, <3>2 DEF Same
    <3>4. BraceDepth(s, (e + 1) + j) = 0
      BY <1>1, <3>2, <3>3, BracesBraced
    <3> QED
      BY <1>6, <3>1, <3>4
  <2> QED
    BY <1>8, <2>0, <2>1, <2>2
<1>11. BracesOK(t)
  BY <1>1, <1>9, <1>10, BracesBraced
<1>12. Piece(s, 0, a) /\ Piece(t, 0, a)
  <2>1. 0 + a = a /\ a <= Len(s) /\ a <= Len(t) /\ 0 \in Nat
    BY <1>1
  <2> QED
    BY <1>1, <1>3, <1>4, <1>7, <1>9, <2>1 DEF Piece
<1>13. Piece(s, e + 1, n) /\ Piece(t, a + 1, n)
  <2>1. e + 1 \in Nat /\ a + 1 \in Nat
    BY <1>1
  <2> QED
    BY <1>1, <1>3, <1>4, <1>7, <1>9, <2>1 DEF Piece
<1>14. ASSUME NEW m \in Nat, e = (a + 1) + m
       PROVE  Piece(s, a + 1, m)
  <2>1. a + 1 \in Nat /\ (a + 1) + m <= Len(s)
    BY <1>1, <1>14
  <2> QED
    BY <1>3, <1>4, <1>14, <2>1 DEF Piece
<1> QED
  BY <1>2, <1>5, <1>7, <1>11, <1>12, <1>13, <1>14

\* More brackets are finished: the elements of those before are still theirs.
LEMMA ElemAppend ==
    ASSUME NEW s, NEW done, Good(s, done), NEW tree, NEW i \in 0 .. Len(s) - 1
    PROVE  ElementsAt(s, Append(done, tree), i) = ElementsAt(s, done, i)
<1>1. done \in Seq(Seq(Node)) /\ DigitsRefer(s, done) /\ i \in Indices(s)
  BY DEF Good, Indices
<1>2. CASE BraceDepth(s, i) = 0 /\ At(s, i) \in ToSet(Digits)
  <2>1. PICK k \in 1 .. 10 : Digits[k] = At(s, i)
    BY <1>2, DigitNumber
  <2>2. k \in 1 .. Len(done)
    BY <1>1, <1>2, <2>1 DEF DigitsRefer
  <2>3. Append(done, tree)[k] = done[k]
    BY <1>1, <2>2
  <2>4. ElementsAt(s, done, i) = Leaves(done[k])
    BY <1>2, <2>1, ElemDigit
  <2>5. ElementsAt(s, Append(done, tree), i) = Leaves(Append(done, tree)[k])
    BY <1>2, <2>1, ElemDigit
  <2> QED
    BY <2>3, <2>4, <2>5
<1>3. CASE ~(BraceDepth(s, i) = 0 /\ At(s, i) \in ToSet(Digits))
  BY <1>3, Zenon DEF ElementsAt
<1> QED
  BY <1>2, <1>3

\* A bracket is replaced by its number: the string has the elements it had.
LEMMA ReplacedElements ==
    ASSUME NEW s, NEW t, NEW a, NEW e, NEW n, NEW ch, Replaces(s, t, a, e, n, ch),
           Bracket(s, a, e), BracesOK(s), NEW done, Good(s, done), Len(done) < 10,
           ch = Digits[Len(done) + 1], NEW tree \in Seq(Node),
           Leaves(tree) = Elements(Substr(s, a + 1, e), done)
    PROVE  /\ Good(t, Append(done, tree))
           /\ Elements(t, Append(done, tree)) = Elements(s, done)
<1>1. /\ s \in Seq(Text) /\ t \in Seq(Text)
      /\ a \in Nat /\ e \in Nat /\ n \in Nat /\ a <= e /\ Len(s) = (e + 1) + n /\ Len(t) = (a + 1) + n
      /\ Same(s, 0, t, 0, a) /\ At(t, a) = ch /\ Same(s, e + 1, t, a + 1, n)
      /\ At(s, a) = "(" /\ At(s, e) = ")" /\ Len(s) \in Nat /\ Len(t) \in Nat
      /\ done \in Seq(Seq(Node)) /\ Len(done) \in Nat /\ DigitsRefer(s, done)
  BY DEF Replaces, Bracket, Good
<1>2. Len(done) + 1 \in 1 .. 10 /\ ch \in ToSet(Digits)
  <2>1. PICK k : k = Len(done) + 1
    OBVIOUS
  <2>2. k \in 1 .. 10
    <3>1. PICK m : m = Len(done)
      OBVIOUS
    <3>2. m \in Nat /\ m < 10 /\ k = m + 1
      BY <1>1, <2>1, <3>1
    <3> QED
      BY <3>2
  <2>3. Digits[k] \in ToSet(Digits)
    BY <2>2, DigitIn
  <2> QED
    BY <2>1, <2>2, <2>3
<1>3. ch \notin {LBrace, RBrace, "(", ")"}
  BY <1>2, CharsDiffer, Zenon
<1>4. /\ a + 1 <= e /\ BracesOK(t) /\ BraceDepth(t, a) = 0
      /\ Piece(s, 0, a) /\ Piece(s, e + 1, n) /\ Piece(t, 0, a) /\ Piece(t, a + 1, n)
  BY <1>3, ReplacedPieces
<1>5. NestsAsBefore(s, t, a, e, n, LBrace, RBrace)
  BY <1>3, ReplacedPieces
<1>6. PICK done2 : done2 = Append(done, tree)
  OBVIOUS
<1>7. done2 \in Seq(Seq(Node)) /\ Len(done2) = Len(done) + 1 /\ done2[Len(done) + 1] = tree
  BY <1>1, <1>6
<1>8. ASSUME NEW i \in 0 .. Len(s) - 1
      PROVE  ElementsAt(s, done2, i) = ElementsAt(s, done, i)
  BY <1>6, ElemAppend
<1>9. DigitsRefer(t, done2)
  <2> DEFINE OK(u, i, m) == IF BraceDepth(u, i) = 0
                            THEN \A d \in 1 .. 10 : At(u, i) = Digits[d] => d <= m
                            ELSE At(u, i) \notin ElementChars
  <2>1. \A i \in 0 .. Len(s) - 1 : OK(s, i, Len(done))
    BY <1>1 DEF DigitsRefer, Indices
  <2>2. ASSUME NEW i \in 0 .. Len(s) - 1, NEW j \in Nat, At(t, j) = At(s, i),
               BraceDepth(t, j) = BraceDepth(s, i)
        PROVE  OK(t, j, Len(done2))
    <3>1. OK(s, i, Len(done))
      BY <2>1
    <3>2. \A d \in 1 .. 10 : d <= Len(done) => d <= Len(done2)
      BY <1>1, <1>7
    <3>3. CASE BraceDepth(s, i) = 0
      <4>1. \A d \in 1 .. 10 : At(s, i) = Digits[d] => d <= Len(done)
        BY <3>1, <3>3
      <4>2. \A d \in 1 .. 10 : At(t, j) = Digits[d] => d <= Len(done2)
        BY <2>2, <3>2, <4>1, Zenon
      <4> QED
        BY <2>2, <3>3, <4>2
    <3>4. CASE BraceDepth(s, i) # 0
      BY <2>2, <3>1, <3>4
    <3> QED
      BY <3>3, <3>4
  <2>3. ASSUME NEW j \in 0 .. Len(t) - 1
        PROVE  OK(t, j, Len(done2))
    <3>1. CASE j < a
      <4>1. j \in 0 .. a - 1 /\ j \in 0 .. a /\ j \in 0 .. Len(s) - 1 /\ 0 + j = j /\ j \in Nat
        BY <1>1, <3>1
      <4>2. At(t, j) = At(s, j)
        BY <1>1, <4>1 DEF Same
      <4>3. BraceDepth(t, j) = BraceDepth(s, j)
        BY <1>5, <4>1 DEF NestsAsBefore, BraceDepth
      <4> HIDE DEF OK
      <4> QED
        BY <2>2, <4>1, <4>2, <4>3
    <3>2. CASE j = a
      <4>1. \A d \in 1 .. 10 : At(t, a) = Digits[d] => d <= Len(done2)
        <5> TAKE d \in 1 .. 10
        <5> HAVE At(t, a) = Digits[d]
        <5>1. d = Len(done) + 1
          BY <1>1, <1>2, DigitsDiffer
        <5> QED
          BY <1>1, <1>7, <5>1
      <4> QED
        BY <1>4, <3>2, <4>1
    <3>3. CASE j > a
      <4>1. PICK k \in Nat : j = (a + 1) + k
        <5>1. j - (a + 1) \in Nat /\ j = (a + 1) + (j - (a + 1))
          BY <1>1, <3>3
        <5> QED
          BY <5>1
      <4>2. k \in 0 .. n - 1 /\ k \in 0 .. n /\ (e + 1) + k \in 0 .. Len(s) - 1 /\ j \in Nat
        BY <1>1, <4>1
      <4>3. At(t, j) = At(s, (e + 1) + k)
        BY <1>1, <4>1, <4>2 DEF Same
      <4>4. BraceDepth(t, j) = BraceDepth(s, (e + 1) + k)
        BY <1>5, <4>1, <4>2 DEF NestsAsBefore, BraceDepth
      <4> HIDE DEF OK
      <4> QED
        BY <2>2, <4>2, <4>3, <4>4
    <3> HIDE DEF OK
    <3> QED
      BY <1>1, <3>1, <3>2, <3>3
  <2> QED
    BY <2>3 DEF DigitsRefer, Indices
<1>10. Good(t, done2)
  BY <1>1, <1>4, <1>7, <1>9, BracesBraced DEF Good
<1>11. PICK es, et : es = ElemRow(s, done) /\ et = ElemRow(t, done2)
  OBVIOUS
<1>12. es \in [0 .. (Len(s) - 1) -> Seq(Node)] /\ et \in [0 .. (Len(t) - 1) -> Seq(Node)]
  BY <1>10, <1>11, ElemRowType
<1>13. CleanEnd(s, a) /\ CleanEnd(t, a) /\ CleanEnd(s, (e + 1) + n) /\ CleanEnd(t, (a + 1) + n)
         /\ CleanEnd(s, e)
  <2>1. At(s, a) # LBrace /\ At(s, e) # LBrace /\ At(t, a) # LBrace
    BY <1>1, <1>3, BracesDiffer
  <2> QED
    BY <1>1, <2>1 DEF CleanEnd
<1>14. Row(et, 0, a) = Row(es, 0, a)
  <2>1. Alike(et, 0, a, es, 0, a)
    <3> SUFFICES ASSUME NEW i \in 0 .. (a - 1)
                 PROVE  et[0 + i] = es[0 + i]
      <4>1. a = 0 + a /\ 0 \in Int
        BY <1>1
      <4> QED
        BY <1>1, <4>1 DEF Alike
    <3>1. 0 + i \in 0 .. (Len(t) - 1) /\ 0 + i \in 0 .. (Len(s) - 1) /\ 0 + a = a
      BY <1>1
    <3>2. ElementsAt(s, done2, 0 + i) = ElementsAt(t, done2, 0 + i)
      <4>1. PICK z : z = 0
        OBVIOUS
      <4>2. z + a = a
        BY <1>1, <4>1
      <4>3. Piece(s, z, a) /\ Piece(t, z, a) /\ Same(s, z, t, z, a)
              /\ CleanEnd(s, z + a) /\ CleanEnd(t, z + a)
        BY <1>1, <1>4, <1>13, <4>1, <4>2
      <4>4. ElementsAlike(s, z, t, z, a, done2)
        BY <4>3, ElemsSame
      <4> QED
        BY <4>1, <4>4 DEF ElementsAlike
    <3>3. ElementsAt(s, done2, 0 + i) = ElementsAt(s, done, 0 + i)
      BY <1>8, <3>1
    <3> QED
      BY <1>11, <3>1, <3>2, <3>3 DEF ElemRow
  <2> QED
    BY <2>1, RowSame
<1>15. Row(et, a + 1, (a + 1) + n) = Row(es, e + 1, (e + 1) + n)
  <2>1. Alike(et, a + 1, (a + 1) + n, es, e + 1, (e + 1) + n)
    <3> SUFFICES ASSUME NEW i \in 0 .. (n - 1)
                 PROVE  et[(a + 1) + i] = es[(e + 1) + i]
      <4>1. a + 1 \in Int /\ e + 1 \in Int
        BY <1>1
      <4> QED
        BY <1>1, <4>1 DEF Alike
    <3>1. (a + 1) + i \in 0 .. (Len(t) - 1) /\ (e + 1) + i \in 0 .. (Len(s) - 1)
      BY <1>1
    <3>2. ElementsAt(s, done2, (e + 1) + i) = ElementsAt(t, done2, (a + 1) + i)
      <4>1. PICK p : p = e + 1
        OBVIOUS
      <4>2. PICK q : q = a + 1
        OBVIOUS
      <4>3. Piece(s, p, n) /\ Piece(t, q, n) /\ Same(s, p, t, q, n)
              /\ CleanEnd(s, p + n) /\ CleanEnd(t, q + n)
        BY <1>1, <1>4, <1>13, <4>1, <4>2
      <4>4. ElementsAlike(s, p, t, q, n, done2)
        BY <4>3, ElemsSame
      <4> QED
        BY <4>1, <4>2, <4>4 DEF ElementsAlike
    <3>3. ElementsAt(s, done2, (e + 1) + i) = ElementsAt(s, done, (e + 1) + i)
      BY <1>8, <3>1
    <3> QED
      BY <1>11, <3>1, <3>2, <3>3 DEF ElemRow
  <2> QED
    BY <2>1, RowSame
<1>16. Row(et, 0, a + 1) = Row(et, 0, a) \o Leaves(tree)
  <2>1. a \in 0 .. Len(t) - 1
    BY <1>1
  <2>2. Row(et, 0, a + 1) = Row(et, 0, a) \o ElementsAt(t, done2, a)
    BY <1>10, <1>11, <2>1, ElemRowStep
  <2>3. ElementsAt(t, done2, a) = Leaves(done2[Len(done) + 1])
    BY <1>1, <1>2, <1>4, ElemDigit
  <2> QED
    BY <1>7, <2>2, <2>3
<1>17. Row(es, 0, e + 1) = Row(es, 0, a) \o Leaves(tree)
  <2>1. a \in 0 .. Len(s) - 1 /\ e \in 0 .. Len(s) - 1
    BY <1>1
  <2>2. /\ Row(es, 0, a) \in Seq(Node) /\ Row(es, 0, a + 1) = Row(es, 0, a) \o ElementsAt(s, done, a)
        /\ Row(es, 0, e) \in Seq(Node) /\ Row(es, 0, e + 1) = Row(es, 0, e) \o ElementsAt(s, done, e)
    BY <1>11, <2>1, ElemRowStep
  <2>3. ElementsAt(s, done, a) = <<>> /\ ElementsAt(s, done, e) = <<>>
    BY <1>1, ElemNone
  <2>4. Row(es, 0, a + 1) = Row(es, 0, a) /\ Row(es, 0, e + 1) = Row(es, 0, e)
    BY <2>2, <2>3
  <2>5. Row(es, 0, e) = Row(es, 0, a + 1) \o Row(es, a + 1, e)
    <3>1. 0 \in 0 .. Len(s) /\ a + 1 \in 0 .. Len(s) /\ e \in (a + 1) .. Len(s)
      BY <1>1, <1>4
    <3> QED
      BY <1>1, <1>12, <3>1, RowSplit
  <2>6. Leaves(tree) = Row(es, a + 1, e)
    <3>1. PICK m \in Nat : e = (a + 1) + m
      <4>1. e - (a + 1) \in Nat /\ e = (a + 1) + (e - (a + 1))
        BY <1>1, <1>4
      <4> QED
        BY <4>1
    <3>2. Piece(s, a + 1, m)
      BY <1>3, <3>1, ReplacedPieces
    <3>3. PICK p : p = a + 1
      OBVIOUS
    <3>4. Piece(s, p, m) /\ CleanEnd(s, p + m)
      BY <1>13, <3>1, <3>2, <3>3
    <3>5. Elements(Substr(s, p, p + m), done) = Row(ElemRow(s, done), p, p + m)
      BY <3>4, PieceElements
    <3> QED
      BY <1>11, <3>1, <3>3, <3>5
  <2> QED
    BY <2>4, <2>5, <2>6
<1>18. Row(es, 0, Len(s)) = Row(es, 0, e + 1) \o Row(es, e + 1, Len(s))
  <2>1. 0 \in 0 .. Len(s) /\ e + 1 \in 0 .. Len(s) /\ Len(s) \in (e + 1) .. Len(s)
    BY <1>1
  <2> QED
    BY <1>1, <1>12, <2>1, RowSplit
<1>19. Row(et, 0, Len(t)) = Row(et, 0, a + 1) \o Row(et, a + 1, Len(t))
  <2>1. 0 \in 0 .. Len(t) /\ a + 1 \in 0 .. Len(t) /\ Len(t) \in (a + 1) .. Len(t)
    BY <1>1
  <2> QED
    BY <1>1, <1>12, <2>1, RowSplit
<1>20. Row(et, 0, Len(t)) = Row(es, 0, Len(s))
  BY <1>1, <1>14, <1>15, <1>16, <1>17, <1>18, <1>19
<1>21. Elements(s, done) = Row(es, 0, Len(s)) /\ Elements(t, done2) = Row(et, 0, Len(t))
  BY <1>10, <1>11, ElementsRow
<1> QED
  BY <1>6, <1>10, <1>20, <1>21
-----------------------------------------------------------------------------
(***************************************************************************)
(* The bracket that is replaced.                                           *)
(***************************************************************************)
\* A bracket begins where the deepest one is found.
LEMMA StartBracket ==
    ASSUME NEW s \in Seq(Text), DeepestBraket(s) # NPos
    PROVE  DeepestBraket(s) \in 0 .. Len(s) - 1 /\ At(s, DeepestBraket(s)) = "("
<1> DEFINE level(i) == Wrapped(Occurrences(s, "(", 0, i) - Occurrences(s, ")", 0, i))
           found == {i \in Indices(s) : At(s, i) = "(" /\ level(i) > 0}
           deepest == {i \in found : \A j \in found : level(j) <= level(i)}
<1>1. DeepestBraket(s) = IF deepest = {} THEN NPos ELSE Min(deepest)
  BY DEF DeepestBraket
<1>2. \A i \in deepest : i \in Indices(s) /\ At(s, i) = "("
  OBVIOUS
<1>3. Indices(s) = 0 .. Len(s) - 1 /\ Indices(s) \in SUBSET Nat
  BY DEF Indices
<1> HIDE DEF deepest
<1>4. deepest # {} /\ DeepestBraket(s) = Min(deepest)
  BY <1>1
<1>5. deepest \in SUBSET Nat
  BY <1>2, <1>3
<1>6. Min(deepest) \in deepest
  BY <1>4, <1>5, MinIn
<1> QED
  BY <1>2, <1>3, <1>4, <1>6

\* The character that takes its place is no bracket and no brace.
LEMMA ReferenceFacts ==
    ASSUME NEW k \in Nat
    PROVE  /\ ReferenceChar(k) \in Text
           /\ ReferenceChar(k) \notin {LBrace, RBrace, "(", ")"}
           /\ k < 10 => ReferenceChar(k) = Digits[k + 1]
<1>1. CASE k < 10
  <2>1. PICK j : j = k + 1
    OBVIOUS
  <2>2. j \in 1 .. 10
    BY <1>1, <2>1
  <2>3. ReferenceChar(k) = Digits[j]
    BY <1>1, <2>1 DEF ReferenceChar
  <2>4. Digits[j] \in ToSet(Digits)
    BY <2>2, DigitIn
  <2>5. Digits[j] \notin {LBrace, RBrace, "(", ")"}
    BY <2>4, CharsDiffer, Zenon
  <2>6. Digits[j] \in Text
    <3>1. ToSet(Digits) \subseteq Text
      BY DigitsSet DEF Text
    <3> QED
      BY <2>4, <3>1
  <2> QED
    BY <2>1, <2>3, <2>5, <2>6
<1>2. CASE ~(k < 10)
  <2>1. ReferenceChar(k) = ":"
    BY <1>2 DEF ReferenceChar
  <2>2. ":" \in Text /\ ":" \notin {"(", ")"}
    BY DEF Text
  <2>3. ":" # LBrace /\ ":" # RBrace
    BY BracesDiffer
  <2> QED
    BY <1>2, <2>1, <2>2, <2>3
<1> QED
  BY <1>1, <1>2

\* How many brackets are open before a place.
BracketDepth(s, i) == Depth(s, "(", ")", i)

Matched(s) ==
    /\ BracketDepth(s, Len(s)) = 0
    /\ \A i \in 0 .. Len(s) : BracketDepth(s, i) >= 0

\* The brackets are matched when none closes before it opens and all are closed.
LEMMA MatchedDepths ==
    ASSUME NEW s, Len(s) \in Nat
    PROVE  BracketsOK(s) <=> Matched(s)
<1> DEFINE before(i) == Occurrences(s, "(", 0, i)
           after(i) == Occurrences(s, ")", 0, i)
<1>1. \A i \in Int : before(i) \in Nat /\ after(i) \in Nat
  BY OccNat
<1>2. \A i \in Int : BracketDepth(s, i) = before(i - 1) - after(i - 1)
  BY DEF BracketDepth, Depth
<1>3. BracketDepth(s, 0) = 0
  BY DepthFirst DEF BracketDepth
<1>4. BracketsOK(s) <=> /\ \A i \in 0 .. Len(s) - 1 : after(i) <= before(i)
                        /\ after(Len(s) - 1) = before(Len(s) - 1)
  BY DEF BracketsOK, Indices, NumBrackets
<1> HIDE DEF before, after
<1>5. ASSUME \A i \in 0 .. Len(s) - 1 : after(i) <= before(i)
      PROVE  \A i \in 0 .. Len(s) : BracketDepth(s, i) >= 0
  <2> TAKE i \in 0 .. Len(s)
  <2>1. CASE i = 0
    BY <1>3, <2>1
  <2>2. CASE i # 0
    <3>1. i \in Int /\ i - 1 \in 0 .. Len(s) - 1 /\ i - 1 \in Int
      BY <2>2
    <3>2. after(i - 1) <= before(i - 1) /\ before(i - 1) \in Nat /\ after(i - 1) \in Nat
      BY <1>1, <1>5, <3>1
    <3> QED
      BY <1>2, <3>1, <3>2
  <2> QED
    BY <2>1, <2>2
<1>6. ASSUME \A i \in 0 .. Len(s) : BracketDepth(s, i) >= 0
      PROVE  \A i \in 0 .. Len(s) - 1 : after(i) <= before(i)
  <2> TAKE i \in 0 .. Len(s) - 1
  <2>1. PICK j : j = i + 1
    OBVIOUS
  <2>2. j \in 0 .. Len(s) /\ j \in Int /\ j - 1 = i /\ i \in Int
    BY <2>1
  <2>3. before(i) \in Nat /\ after(i) \in Nat
    BY <1>1, <2>2
  <2>4. BracketDepth(s, j) = before(j - 1) - after(j - 1)
    BY <1>2, <2>2
  <2>5. BracketDepth(s, j) = before(i) - after(i) /\ BracketDepth(s, j) >= 0
    BY <1>6, <2>2, <2>4
  <2> QED
    BY <2>3, <2>5
<1>7. BracketDepth(s, Len(s)) = 0 <=> after(Len(s) - 1) = before(Len(s) - 1)
  <2>1. PICK n : n = Len(s)
    OBVIOUS
  <2>2. n \in Int /\ n - 1 \in Int
    BY <2>1
  <2>3. BracketDepth(s, n) = before(n - 1) - after(n - 1)
    BY <1>2, <2>2
  <2>4. before(n - 1) \in Nat /\ after(n - 1) \in Nat
    BY <1>1, <2>2
  <2>5. BracketDepth(s, n) = 0 <=> after(n - 1) = before(n - 1)
    BY <2>3, <2>4
  <2> QED
    BY <2>1, <2>5
<1> QED
  BY <1>4, <1>5, <1>6, <1>7 DEF Matched

\* A bracket of a string whose brackets match is closed, and as many are open
\* behind it as before it.
LEMMA ClosedBracket ==
    ASSUME NEW s, Len(s) \in Nat, Matched(s), NEW a \in 0 .. Len(s) - 1, At(s, a) = "("
    PROVE  \E e \in (a + 1) .. Len(s) - 1 :
             /\ OpposingBraket(s, a, ")") = e /\ e # NPos /\ At(s, e) = ")"
             /\ BracketDepth(s, e + 1) = BracketDepth(s, a)
<1>1. a \in Nat /\ a + 1 \in Nat /\ a + 1 <= Len(s) /\ "(" # ")" /\ a \in 0 .. Len(s)
  OBVIOUS
<1>2. PICK base : base = BracketDepth(s, a)
  OBVIOUS
<1>3. base \in Int /\ base >= 0
  <2>1. base \in Int
    BY <1>1, <1>2, DepthInt DEF BracketDepth
  <2>2. base >= 0
    BY <1>1, <1>2 DEF Matched
  <2> QED
    BY <2>1, <2>2
<1> DEFINE S == {k \in (a + 1) .. Len(s) : BracketDepth(s, k) <= base}
<1>4. S \in SUBSET Nat /\ Len(s) \in S
  <2>1. Len(s) \in (a + 1) .. Len(s)
    BY <1>1
  <2>2. BracketDepth(s, Len(s)) <= base
    BY <1>3 DEF Matched
  <2> QED
    BY <1>1, <2>1, <2>2
<1>5. PICK m \in S : \A k \in S : m <= k
  BY <1>4, LeastExists, Zenon
<1>6. m \in (a + 1) .. Len(s) /\ BracketDepth(s, m) <= base /\ m \in Nat
  BY <1>1, <1>5
<1>7. \A k \in Nat : BracketDepth(s, k) \in Int
                     /\ BracketDepth(s, k + 1) = BracketDepth(s, k) + Kind(At(s, k), "(", ")")
  BY <1>1, DepthStep DEF BracketDepth
<1>8. BracketDepth(s, a + 1) = base + 1
  BY <1>1, <1>2, <1>7 DEF Kind
<1>9. PICK e : e = m - 1
  OBVIOUS
<1>10. e \in (a + 1) .. Len(s) - 1 /\ e \in Nat /\ e + 1 = m /\ e \in (a + 1) .. Len(s)
  <2>1. m # a + 1
    BY <1>3, <1>6, <1>8
  <2> QED
    BY <1>1, <1>6, <1>9, <2>1
<1>11. BracketDepth(s, e) > base
  <2>1. e \notin S
    <3>1. ~(m <= e)
      BY <1>6, <1>10
    <3> HIDE DEF S
    <3> QED
      BY <1>5, <3>1
  <2>2. ~(BracketDepth(s, e) <= base) /\ BracketDepth(s, e) \in Int
    BY <1>7, <1>10, <2>1
  <2> QED
    BY <1>3, <2>2
<1>12. At(s, e) = ")" /\ BracketDepth(s, e + 1) = base
  <2>1. PICK d, k : d = BracketDepth(s, e) /\ k = Kind(At(s, e), "(", ")")
    OBVIOUS
  <2>2. d \in Int /\ d > base /\ BracketDepth(s, e + 1) = d + k /\ d + k <= base
    BY <1>6, <1>7, <1>10, <1>11, <2>1
  <2>3. k \in {1, 0, -1} /\ (k = -1 => At(s, e) = ")")
    BY <1>1, <2>1 DEF Kind
  <2>4. k = -1
    BY <1>3, <2>2, <2>3
  <2> QED
    BY <1>3, <2>2, <2>3, <2>4
<1> HIDE DEF S
<1> DEFINE C == {j \in a .. Len(s) - 1 :
                   /\ At(s, j) = ")"
                   /\ Occurrences(s, At(s, a), a, j) - Occurrences(s, ")", a, j) < 1}
<1>13. OpposingBraket(s, a, ")") = IF C = {} THEN NPos ELSE Min(C)
  BY DEF OpposingBraket
<1>14. \A j \in a .. Len(s) - 1 : Occurrences(s, At(s, a), a, j) - Occurrences(s, ")", a, j)
                                    = BracketDepth(s, j + 1) - base
  <2> TAKE j \in a .. Len(s) - 1
  <2>1. j \in Nat /\ a <= j + 1
    BY <1>1
  <2> QED
    BY <1>1, <1>2, <2>1, DepthBetween DEF BracketDepth
<1>15. e \in C
  <2>1. e \in a .. Len(s) - 1
    BY <1>1, <1>10
  <2>2. base - base < 1
    BY <1>3
  <2> QED
    BY <1>12, <1>14, <2>1, <2>2
<1>16. \A j \in C : e <= j
  <2> SUFFICES ASSUME NEW j \in C
               PROVE  e <= j
    OBVIOUS
  <2>1. j \in a .. Len(s) - 1 /\ At(s, j) = ")" /\ BracketDepth(s, j + 1) - base < 1
    BY <1>14
  <2>2. j # a
    BY <1>1, <2>1
  <2>3. PICK k : k = j + 1
    OBVIOUS
  <2>4. k \in (a + 1) .. Len(s) /\ k \in Nat
    BY <1>1, <2>1, <2>2, <2>3
  <2>5. BracketDepth(s, k) \in Int
    BY <1>7, <2>4
  <2>6. BracketDepth(s, k) <= base
    BY <1>3, <2>1, <2>3, <2>5
  <2>7. k \in S
    BY <2>4, <2>6 DEF S
  <2>8. m <= k
    BY <1>5, <2>7
  <2> QED
    BY <1>6, <1>9, <2>1, <2>3, <2>8
<1>17. C \in SUBSET Nat /\ C # {}
  BY <1>1, <1>15
<1> HIDE DEF C
<1>18. Min(C) = e
  BY <1>15, <1>16, <1>17, MinIs
<1>19. e # NPos
  BY <1>10 DEF NPos
<1> QED
  BY <1>2, <1>10, <1>12, <1>13, <1>17, <1>18, <1>19

\* A matched bracket is replaced: the others match as before.
LEMMA ReplacedMatched ==
    ASSUME NEW s, NEW t, NEW a, NEW e, NEW n, NEW ch, Replaces(s, t, a, e, n, ch),
           ch \notin {"(", ")"}, Matched(s), BracketDepth(s, e + 1) = BracketDepth(s, a)
    PROVE  Matched(t)
<1>1. /\ a \in Nat /\ e \in Nat /\ n \in Nat /\ a <= e
      /\ Len(s) = (e + 1) + n /\ Len(t) = (a + 1) + n
  BY DEF Replaces
<1>2. NestsAsBefore(s, t, a, e, n, "(", ")")
  BY ReplacedDepth, "(" # ")" DEF BracketDepth
<1>3. \A i \in 0 .. a : BracketDepth(t, i) = BracketDepth(s, i)
  BY <1>2 DEF NestsAsBefore, BracketDepth
<1>4. \A i \in 0 .. n : BracketDepth(t, (a + 1) + i) = BracketDepth(s, (e + 1) + i)
  BY <1>2 DEF NestsAsBefore, BracketDepth
<1>5. BracketDepth(t, Len(t)) = 0
  <2>1. n \in 0 .. n
    BY <1>1
  <2> QED
    BY <1>1, <1>4, <2>1 DEF Matched
<1>6. ASSUME NEW i \in 0 .. Len(t)
      PROVE  BracketDepth(t, i) >= 0
  <2>1. CASE i <= a
    <3>1. i \in 0 .. a /\ i \in 0 .. Len(s)
      BY <1>1, <2>1
    <3> QED
      BY <1>3, <3>1 DEF Matched
  <2>2. CASE ~(i <= a)
    <3>1. PICK k : k = i - (a + 1)
      OBVIOUS
    <3>2. k \in 0 .. n /\ (a + 1) + k = i /\ (e + 1) + k \in 0 .. Len(s)
      BY <1>1, <2>2, <3>1
    <3>3. BracketDepth(t, (a + 1) + k) = BracketDepth(s, (e + 1) + k)
      BY <1>4, <3>2
    <3>4. BracketDepth(s, (e + 1) + k) >= 0
      BY <3>2 DEF Matched
    <3> QED
      BY <3>2, <3>3, <3>4
  <2> QED
    BY <2>1, <2>2
<1> QED
  BY <1>5, <1>6 DEF Matched

\* The text of a bracket is one the parser can be at, with the elements it has
\* where it is.
LEMMA BracketInside ==
    ASSUME NEW s \in Seq(Text), BracesOK(s), NEW a \in 0 .. Len(s) - 1,
           NEW e \in a .. Len(s) - 1, Bracket(s, a, e), NEW done \in Seq(Seq(Node))
    PROVE  /\ Braced(Substr(s, a + 1, e))
           /\ Good(s, done) => Good(Substr(s, a + 1, e), done)
<1>1. Len(s) \in Nat /\ a \in Nat /\ e \in Nat /\ a <= e /\ At(s, e) = ")"
  BY DEF Bracket
<1>2. PICK ch : ch = ReferenceChar(0)
  OBVIOUS
<1>3. ch \in Text /\ ch \notin {LBrace, RBrace, "(", ")"}
  BY <1>2, ReferenceFacts, 0 \in Nat
<1>4. PICK n : Replaces(s, Substr(s, 0, a) \o <<ch>> \o Substr(s, e + 1, Len(s)), a, e, n, ch)
  BY <1>3, ReplacedFacts
<1>5. PICK t : t = Substr(s, 0, a) \o <<ch>> \o Substr(s, e + 1, Len(s))
  OBVIOUS
<1>6. Replaces(s, t, a, e, n, ch)
  BY <1>4, <1>5
<1>7. a + 1 <= e /\ \A m \in Nat : e = (a + 1) + m => Piece(s, a + 1, m)
  BY <1>3, <1>6, ReplacedPieces
<1>8. PICK p, m : p = a + 1 /\ m = e - p
  OBVIOUS
<1>9. m \in Nat /\ e = (a + 1) + m /\ p + m = e
  BY <1>1, <1>7, <1>8
<1>10. Piece(s, p, m)
  BY <1>7, <1>8, <1>9
<1>11. CleanEnd(s, p + m)
  <2>1. ")" # LBrace
    BY BracesDiffer
  <2> QED
    BY <1>1, <1>9, <2>1 DEF CleanEnd
<1>12. Braced(Substr(s, p, p + m))
  BY <1>10, PieceBraced
<1>13. Good(s, done) => Good(Substr(s, p, p + m), done)
  BY <1>10, <1>11, PieceElements
<1> QED
  BY <1>8, <1>9, <1>12, <1>13

\* What the parser makes of a bracket.
LEMMA InsideElements ==
    ASSUME NEW s \in Seq(Text), BracesOK(s), NEW a \in 0 .. Len(s) - 1,
           NEW e \in a .. Len(s) - 1, Bracket(s, a, e), NEW done \in Seq(Seq(Node)),
           NEW made, made = ProcessBracket(Substr(s, a + 1, e), done)
    PROVE  /\ made.end \in {"done", "invalid"}
           /\ made.tree \in Seq(Node)
           /\ Good(s, done) /\ made.end = "done" =>
                Leaves(made.tree) = Elements(Substr(s, a + 1, e), done)
<1>1. PICK u : u = Substr(s, a + 1, e)
  OBVIOUS
<1>2. Braced(u) /\ (Good(s, done) => Good(u, done))
  BY <1>1, BracketInside
<1>3. made = ProcessBracket(u, done)
  BY <1>1
<1> QED
  BY <1>1, <1>2, <1>3, ProcessElements
-----------------------------------------------------------------------------
(***************************************************************************)
(* The invariant.  What is left of the string is as well formed as the     *)
(* input was, its digits are the numbers of finished brackets, and every   *)
(* finished bracket is one less in it.                                     *)
(***************************************************************************)
BracesKept ==
    BracesOK(input) =>
      /\ str \in Seq(Text) /\ BracesOK(str)
      /\ brackets \in Seq(Seq(Node))
      /\ Len(brackets) + NumBrackets(str) <= NumBrackets(input)

ElementsKept ==
    Plain(input) => DigitsRefer(str, brackets)

MatchedKept ==
    BracketsOK(input) /\ BracesOK(input) => BracketsOK(str)

ParserInv ==
    /\ input \in Seq(Text)
    /\ BracesKept
    /\ ElementsKept
    /\ MatchedKept
    /\ EveryElementOnce
    /\ MatchedEndsWell

\* It holds at first.
LEMMA ParserInit ==
    Init => ParserInv
<1> SUFFICES ASSUME Init
             PROVE  ParserInv
  OBVIOUS
<1>1. /\ str = input /\ brackets = <<>> /\ outcome = "parsing"
      /\ input \in Seq(STRING)
  BY InputsAssumption DEF Init
<1>2. input \in Seq(Text) /\ Len(input) \in Nat /\ brackets \in Seq(Seq(Node)) /\ Len(brackets) = 0
  <2>1. STRING \subseteq Text
    BY DEF Text
  <2>2. Seq(STRING) \subseteq Seq(Text)
    <3> SUFFICES ASSUME NEW s \in Seq(STRING)
                 PROVE  s \in Seq(Text)
      OBVIOUS
    <3>1. Len(s) \in Nat /\ s \in [1 .. Len(s) -> STRING]
      OBVIOUS
    <3>2. s \in [1 .. Len(s) -> Text]
      BY <2>1, <3>1
    <3> QED
      BY <3>1, <3>2, SeqDef
  <2>3. input \in Seq(Text)
    BY <1>1, <2>2
  <2>4. Len(input) \in Nat
    BY <2>3
  <2>5. <<>> \in Seq(Seq(Node)) /\ Len(<<>>) = 0
    OBVIOUS
  <2> QED
    BY <1>1, <2>3, <2>4, <2>5
<1>3. BracesKept
  <2>1. NumBrackets(input) \in Nat
    BY <1>2, OccNat, 0 \in Int, Len(input) - 1 \in Int DEF NumBrackets
  <2>2. Len(brackets) + NumBrackets(input) <= NumBrackets(input)
    BY <1>2, <2>1
  <2> QED
    BY <1>1, <1>2, <2>2 DEF BracesKept
<1>4. ElementsKept
  <2> SUFFICES ASSUME Plain(input)
               PROVE  DigitsRefer(input, brackets)
    BY <1>1 DEF ElementsKept
  <2>1. DigitsRefer(input, brackets)
    <3> SUFFICES ASSUME NEW i \in Indices(input)
                 PROVE  IF BraceDepth(input, i) = 0
                        THEN \A d \in 1 .. 10 : At(input, i) = Digits[d] => d <= Len(brackets)
                        ELSE At(input, i) \notin ElementChars
      BY DEF DigitsRefer
    <3>1. At(input, i) \notin (IF BraceDepth(input, i) = 0 THEN ToSet(Digits) ELSE ElementChars)
      BY DEF Plain
    <3>2. CASE BraceDepth(input, i) = 0
      <4>1. At(input, i) \notin ToSet(Digits)
        BY <3>1, <3>2
      <4>2. \A d \in 1 .. 10 : At(input, i) # Digits[d]
        BY <4>1, DigitIn, Zenon
      <4> QED
        BY <3>2, <4>2, Zenon
    <3>3. CASE BraceDepth(input, i) # 0
      BY <3>1, <3>3
    <3> QED
      BY <3>2, <3>3
  <2> QED
    BY <2>1
<1>5. MatchedKept
  BY <1>1 DEF MatchedKept
<1>6. EveryElementOnce
  BY <1>1 DEF EveryElementOnce
<1>7. MatchedEndsWell
  BY <1>1 DEF MatchedEndsWell
<1> QED
  BY <1>2, <1>3, <1>4, <1>5, <1>6, <1>7 DEF ParserInv

\* A bracket is replaced.
LEMMA ReplaceBracketStep ==
    ParserInv /\ ReplaceBracket => ParserInv'
<1> SUFFICES ASSUME ParserInv, ReplaceBracket
             PROVE  ParserInv'
  OBVIOUS
<1>1. PICK a : a = Start
  OBVIOUS
<1>2. PICK e : e = End
  OBVIOUS
<1>3. PICK made : made = Inside
  OBVIOUS
<1>4. PICK ch : ch = ReferenceChar(Len(brackets))
  OBVIOUS
<1>5. PICK t : t = Substr(str, 0, a) \o <<ch>> \o Substr(str, e + 1, Len(str))
  OBVIOUS
<1>6. /\ a = DeepestBraket(str) /\ a # NPos /\ e = OpposingBraket(str, a, ")") /\ e # NPos
      /\ made = ProcessBracket(Substr(str, a + 1, e), brackets) /\ made.end = "done"
      /\ outcome = "parsing"
  BY <1>1, <1>2, <1>3 DEF ReplaceBracket, Start, End, Inside
<1>7. /\ str' = t /\ brackets' = Append(brackets, made.tree)
      /\ input' = input /\ outcome' = "parsing" /\ model' = model
  BY <1>1, <1>2, <1>3, <1>4, <1>5, <1>6 DEF ReplaceBracket
<1>8. /\ input \in Seq(Text)
      /\ BracesOK(input) => str \in Seq(Text) /\ BracesOK(str) /\ brackets \in Seq(Seq(Node))
      /\ BracesOK(input) => Len(brackets) + NumBrackets(str) <= NumBrackets(input)
      /\ Plain(input) => DigitsRefer(str, brackets)
      /\ Plain(input) => Elements(str, brackets) = Elements(input, <<>>)
      /\ BracketsOK(input) /\ BracesOK(input) => BracketsOK(str)
  BY DEF ParserInv, BracesKept, ElementsKept, MatchedKept, EveryElementOnce
<1>9. Plain(input) => BracesOK(input) /\ NumBrackets(input) <= 10
  <2>1. Len(Digits) = 10
    BY DEF Digits
  <2> QED
    BY <2>1 DEF Plain
<1>10. ASSUME BracesOK(input)
       PROVE  /\ t \in Seq(Text) /\ BracesOK(t) /\ brackets' \in Seq(Seq(Node))
              /\ Len(brackets') + NumBrackets(t) <= NumBrackets(input)
              /\ Plain(input) =>
                   /\ DigitsRefer(t, brackets')
                   /\ Elements(t, brackets') = Elements(input, <<>>)
              /\ BracketsOK(input) => BracketsOK(t)
  <2>1. str \in Seq(Text) /\ Len(str) \in Nat /\ BracesOK(str) /\ brackets \in Seq(Seq(Node))
          /\ Len(brackets) \in Nat
    BY <1>8, <1>10
  <2>2. a \in 0 .. Len(str) - 1 /\ At(str, a) = "("
    BY <1>6, <2>1, StartBracket
  <2>3. e \in a .. Len(str) - 1 /\ At(str, e) = ")"
    BY <1>6, <2>1, <2>2, OpposingIn
  <2>4. Bracket(str, a, e)
    BY <2>2, <2>3 DEF Bracket
  <2>5. ch \in Text /\ ch \notin {LBrace, RBrace, "(", ")"}
          /\ (Len(brackets) < 10 => ch = Digits[Len(brackets) + 1])
    BY <1>4, <2>1, ReferenceFacts
  <2>6. PICK n : Replaces(str, t, a, e, n, ch)
    <3>1. \E n : Replaces(str, Substr(str, 0, a) \o <<ch>> \o Substr(str, e + 1, Len(str)),
                          a, e, n, ch)
      BY <2>1, <2>2, <2>3, <2>5, ReplacedFacts
    <3> QED
      BY <1>5, <3>1
  <2>7. t \in Seq(Text) /\ Len(t) \in Nat
    <3>1. t \in Seq(Text)
      BY <2>6 DEF Replaces
    <3> QED
      BY <3>1
  <2>8. BracesOK(t)
    BY <2>1, <2>4, <2>5, <2>6, ReplacedPieces
  <2>9. /\ made.tree \in Seq(Node)
        /\ Good(str, brackets) => Leaves(made.tree) = Elements(Substr(str, a + 1, e), brackets)
    BY <1>6, <2>1, <2>2, <2>3, <2>4, InsideElements
  <2>10. brackets' \in Seq(Seq(Node)) /\ Len(brackets') = Len(brackets) + 1
    BY <1>7, <2>1, <2>9
  <2>11. NumBrackets(str) \in Nat /\ NumBrackets(t) \in Nat /\ NumBrackets(t) < NumBrackets(str)
    <3>1. ch # "("
      BY <2>5
    <3> QED
      BY <2>2, <2>6, <3>1, ReplacedBrackets
  <2>12. NumBrackets(input) \in Nat
    <3>1. Len(input) \in Nat
      BY <1>8
    <3> QED
      BY <3>1, OccNat, 0 \in Int, Len(input) - 1 \in Int DEF NumBrackets
  <2>13. Len(brackets') + NumBrackets(t) <= NumBrackets(input) /\ Len(brackets) < NumBrackets(input)
    <3>1. Len(brackets) + NumBrackets(str) <= NumBrackets(input)
      BY <1>8, <1>10
    <3> QED
      BY <2>1, <2>10, <2>11, <2>12, <3>1
  <2>14. ASSUME Plain(input)
         PROVE  /\ DigitsRefer(t, brackets')
                /\ Elements(t, brackets') = Elements(input, <<>>)
    <3>1. DigitsRefer(str, brackets) /\ Elements(str, brackets) = Elements(input, <<>>)
      BY <1>8, <2>14
    <3>2. Good(str, brackets)
      <4>1. Braced(str)
        BY <2>1, BracesBraced
      <4> QED
        BY <2>1, <3>1, <4>1 DEF Good
    <3>3. NumBrackets(input) <= 10
      BY <1>9, <2>14
    <3>4. Len(brackets) < 10
      BY <2>1, <2>12, <2>13, <3>3
    <3>5. /\ Good(t, Append(brackets, made.tree))
          /\ Elements(t, Append(brackets, made.tree)) = Elements(str, brackets)
      <4>1. ch = Digits[Len(brackets) + 1]
        BY <2>5, <3>4
      <4>2. Leaves(made.tree) = Elements(Substr(str, a + 1, e), brackets)
        BY <2>9, <3>2
      <4>3. made.tree \in Seq(Node)
        BY <2>9
      <4> QED
        BY <2>1, <2>4, <2>6, <3>2, <3>4, <4>1, <4>2, <4>3, ReplacedElements
    <3>6. DigitsRefer(t, Append(brackets, made.tree))
      BY <3>5 DEF Good
    <3> QED
      BY <1>7, <3>1, <3>5, <3>6
  <2>15. ASSUME BracketsOK(input)
         PROVE  BracketsOK(t)
    <3>1. Matched(str)
      BY <1>8, <1>10, <2>1, <2>15, MatchedDepths
    <3>2. BracketDepth(str, e + 1) = BracketDepth(str, a)
      BY <1>6, <2>1, <2>2, <3>1, ClosedBracket
    <3>3. ch \notin {"(", ")"}
      BY <2>5
    <3>4. Matched(t)
      BY <2>6, <3>1, <3>2, <3>3, ReplacedMatched
    <3> QED
      BY <2>7, <3>4, MatchedDepths
  <2> QED
    BY <2>7, <2>8, <2>10, <2>13, <2>14, <2>15
<1>11. input' \in Seq(Text)
  BY <1>7, <1>8
<1>12. BracesKept'
  BY <1>7, <1>10 DEF BracesKept
<1>13. ElementsKept'
  BY <1>7, <1>9, <1>10 DEF ElementsKept
<1>14. MatchedKept'
  BY <1>7, <1>10 DEF MatchedKept
<1>15. EveryElementOnce'
  BY <1>7, <1>9, <1>10 DEF EveryElementOnce
<1>16. MatchedEndsWell'
  BY <1>7 DEF MatchedEndsWell
<1> QED
  BY <1>11, <1>12, <1>13, <1>14, <1>15, <1>16 DEF ParserInv

\* The constructor ends without a model: the string stays.
LEMMA EndsStep ==
    ASSUME NEW how, ParserInv, Ends(how), how # "model",
           BracketsOK(input) /\ BracesOK(input) => how = "threw"
    PROVE  ParserInv'
<1>1. /\ str' = str /\ brackets' = brackets /\ input' = input /\ outcome' = how
  BY DEF Ends
<1>2. (input \in Seq(Text))' /\ BracesKept' /\ ElementsKept' /\ MatchedKept'
  BY <1>1 DEF ParserInv, BracesKept, ElementsKept, MatchedKept
<1>3. EveryElementOnce'
  BY <1>1 DEF ParserInv, EveryElementOnce
<1>4. MatchedEndsWell'
  BY <1>1 DEF MatchedEndsWell
<1> QED
  BY <1>2, <1>3, <1>4 DEF ParserInv

\* A bracket without an end is in no string whose brackets match.
LEMMA NotClosedStep ==
    ParserInv /\ NotClosed => ParserInv'
<1> SUFFICES ASSUME ParserInv, NotClosed
             PROVE  ParserInv'
  OBVIOUS
<1>1. Ends("null") /\ Start # NPos /\ End = NPos
  BY DEF NotClosed
<1>2. ~(BracketsOK(input) /\ BracesOK(input))
  <2> SUFFICES ASSUME BracketsOK(input), BracesOK(input)
               PROVE  FALSE
    OBVIOUS
  <2>1. str \in Seq(Text) /\ Len(str) \in Nat /\ BracketsOK(str)
    <3>1. str \in Seq(Text) /\ BracketsOK(str)
      BY DEF ParserInv, BracesKept, MatchedKept
    <3> QED
      BY <3>1
  <2>2. Matched(str)
    BY <2>1, MatchedDepths
  <2>3. PICK a : a = DeepestBraket(str)
    OBVIOUS
  <2>4. a # NPos /\ OpposingBraket(str, a, ")") = NPos
    BY <1>1, <2>3 DEF Start, End
  <2>5. a \in 0 .. Len(str) - 1 /\ At(str, a) = "("
    BY <2>1, <2>3, <2>4, StartBracket
  <2>6. OpposingBraket(str, a, ")") # NPos
    BY <2>1, <2>2, <2>5, ClosedBracket
  <2> QED
    BY <2>4, <2>6
<1> QED
  BY <1>1, <1>2, EndsStep

\* A bracket without an element in it.
LEMMA BracketInvalidStep ==
    ParserInv /\ BracketInvalid => ParserInv'
BY EndsStep DEF BracketInvalid

\* The loop over the characters of a bracket ends if the braces match.
LEMMA BracketHangsStep ==
    ParserInv /\ BracketHangs => ParserInv'
<1> SUFFICES ASSUME ParserInv, BracketHangs
             PROVE  ParserInv'
  OBVIOUS
<1>1. Ends("hangs") /\ Start # NPos /\ End # NPos /\ Inside.end = "hangs"
  BY DEF BracketHangs
<1>2. ~BracesOK(input)
  <2> SUFFICES ASSUME BracesOK(input)
               PROVE  FALSE
    OBVIOUS
  <2>1. str \in Seq(Text) /\ Len(str) \in Nat /\ BracesOK(str) /\ brackets \in Seq(Seq(Node))
    <3>1. str \in Seq(Text) /\ BracesOK(str) /\ brackets \in Seq(Seq(Node))
      BY DEF ParserInv, BracesKept
    <3> QED
      BY <3>1
  <2>2. PICK a : a = DeepestBraket(str)
    OBVIOUS
  <2>3. PICK e : e = OpposingBraket(str, a, ")")
    OBVIOUS
  <2>4. PICK made : made = ProcessBracket(Substr(str, a + 1, e), brackets)
    OBVIOUS
  <2>5. a # NPos /\ e # NPos /\ made.end = "hangs"
    BY <1>1, <2>2, <2>3, <2>4 DEF Start, End, Inside
  <2>6. a \in 0 .. Len(str) - 1 /\ At(str, a) = "("
    BY <2>1, <2>2, <2>5, StartBracket
  <2>7. e \in a .. Len(str) - 1 /\ At(str, e) = ")"
    BY <2>1, <2>3, <2>5, <2>6, OpposingIn
  <2>8. Bracket(str, a, e)
    BY <2>6, <2>7 DEF Bracket
  <2>9. made.end \in {"done", "invalid"}
    BY <2>1, <2>4, <2>6, <2>7, <2>8, InsideElements
  <2> QED
    BY <2>5, <2>9
<1> QED
  BY <1>1, <1>2, EndsStep

\* What is left of the string, once it has no bracket, is the model.
LEMMA LastElements ==
    ASSUME ParserInv, BracesOK(input)
    PROVE  /\ ProcessBracket(str, brackets).end \in {"done", "invalid"}
           /\ ProcessBracket(str, brackets).end = "done" /\ Plain(input) =>
                Leaves(ProcessBracket(str, brackets).tree) = Elements(input, <<>>)
<1>1. str \in Seq(Text) /\ BracesOK(str) /\ brackets \in Seq(Seq(Node))
  BY DEF ParserInv, BracesKept
<1>2. Braced(str)
  BY <1>1, BracesBraced
<1>3. Plain(input) => Good(str, brackets) /\ Elements(str, brackets) = Elements(input, <<>>)
  BY <1>1, <1>2 DEF ParserInv, ElementsKept, EveryElementOnce, Good
<1> QED
  BY <1>1, <1>2, <1>3, ProcessElements

\* The invariant is kept when the parser returns a model.
LEMMA FinishStep ==
    ParserInv /\ Finish => ParserInv'
<1> SUFFICES ASSUME ParserInv, Finish
             PROVE  ParserInv'
  OBVIOUS
<1>1. /\ str' = str /\ brackets' = brackets /\ input' = input /\ outcome' = "model"
      /\ model' = ProcessBracket(str, brackets).tree
      /\ ProcessBracket(str, brackets).end = "done"
  BY DEF Finish
<1>2. (input \in Seq(Text))' /\ BracesKept' /\ ElementsKept' /\ MatchedKept'
  BY <1>1 DEF ParserInv, BracesKept, ElementsKept, MatchedKept
<1>3. EveryElementOnce'
  <2>1. Plain(input) => BracesOK(input)
    BY DEF Plain
  <2>2. Plain(input) => Elements(str, brackets) = Elements(input, <<>>)
    BY DEF ParserInv, EveryElementOnce
  <2>3. Plain(input) => Leaves(model') = Elements(input, <<>>)
    BY <1>1, <2>1, LastElements
  <2> QED
    BY <1>1, <2>2, <2>3 DEF EveryElementOnce
<1>4. MatchedEndsWell'
  BY <1>1 DEF MatchedEndsWell
<1> QED
  BY <1>2, <1>3, <1>4 DEF ParserInv

\* The invariant is kept when the parser refuses the rest of the string.
LEMMA FinishInvalidStep ==
    ParserInv /\ FinishInvalid => ParserInv'
BY EndsStep DEF FinishInvalid

\* The invariant is kept when the parser never returns.
LEMMA FinishHangsStep ==
    ParserInv /\ FinishHangs => ParserInv'
<1> SUFFICES ASSUME ParserInv, FinishHangs
             PROVE  ParserInv'
  OBVIOUS
<1>1. Ends("hangs") /\ ProcessBracket(str, brackets).end = "hangs"
  BY DEF FinishHangs
<1>2. ~BracesOK(input)
  BY <1>1, LastElements
<1> QED
  BY <1>1, <1>2, EndsStep
-----------------------------------------------------------------------------
(***************************************************************************)
(* Theorems.                                                               *)
(***************************************************************************)
\* The invariant of the constructor: whatever the string, as long as its braces
\* match, the parser only has strings and finished brackets from which the rest
\* can be parsed (processBrackets, src/model.cpp).
THEOREM ParserInvariant ==
    Spec => []ParserInv
<1>1. ParserInv /\ [Next]_vars => ParserInv'
  <2> SUFFICES ASSUME ParserInv, [Next]_vars
               PROVE  ParserInv'
    OBVIOUS
  <2>1. CASE ReplaceBracket
    BY <2>1, ReplaceBracketStep
  <2>2. CASE NotClosed
    BY <2>2, NotClosedStep
  <2>3. CASE BracketInvalid
    BY <2>3, BracketInvalidStep
  <2>4. CASE BracketHangs
    BY <2>4, BracketHangsStep
  <2>5. CASE Finish
    BY <2>5, FinishStep
  <2>6. CASE FinishInvalid
    BY <2>6, FinishInvalidStep
  <2>7. CASE FinishHangs
    BY <2>7, FinishHangsStep
  <2>8. CASE UNCHANGED vars
    BY <2>8 DEF vars, ParserInv, BracesKept, ElementsKept, MatchedKept, EveryElementOnce,
                MatchedEndsWell
  <2> QED
    BY <2>1, <2>2, <2>3, <2>4, <2>5, <2>6, <2>7, <2>8 DEF Next
<1> QED
  BY <1>1, ParserInit, PTL DEF Spec

\* However far the brackets have been replaced, the rest of the string and the
\* finished brackets have the elements of the input, each once, in its place and
\* with its parameters, and so has the model in the end (processBracket).
THEOREM EveryElementIsInTheModel ==
    Spec => []EveryElementOnce
<1>1. ParserInv => EveryElementOnce
  BY DEF ParserInv
<1> QED
  BY <1>1, ParserInvariant, PTL

\* A string whose brackets and braces match gives a model or an exception: no
\* null pointer, and no loop without an end (processBrackets, processBracket).
THEOREM MatchedStringsEndWell ==
    Spec => []MatchedEndsWell
<1>1. ParserInv => MatchedEndsWell
  BY DEF ParserInv
<1> QED
  BY <1>1, ParserInvariant, PTL

\* The parser finishes no bracket twice and makes up none: it is back at the
\* deepest bracket no more often than the input has brackets, each time with a
\* bracket less, and so comes to an end (processBrackets).
THEOREM NoMoreBracketsThanTyped ==
    Spec => [](BracesOK(input) => Len(brackets) + NumBrackets(str) <= NumBrackets(input))
<1>1. ParserInv => (BracesOK(input) => Len(brackets) + NumBrackets(str) <= NumBrackets(input))
  BY DEF ParserInv, BracesKept
<1> QED
  BY <1>1, ParserInvariant, PTL
=============================================================================
