-------------------------- MODULE CommandLine_proofs --------------------------
(***************************************************************************)
(* Proofs about the command line tool, for every vector of arguments,      *)
(* every circuit and every setting.                                        *)
(***************************************************************************)
EXTENDS CommandLineProps, Induction, FiniteSetTheorems, SequenceTheorems, TLAPS

-------------------------------------------------------------------------------
(***************************************************************************)
(* exchange                                                                *)
(***************************************************************************)
\* The segments from bottom to middle and from middle to top, the other way round.
Rotated(args, bottom, middle, top) ==
    [k \in DOMAIN args |->
       IF k \in bottom..(bottom + (top - middle) - 1) THEN args[k + (middle - bottom)]
       ELSE IF k \in (bottom + (top - middle))..(top - 1) THEN args[k - (top - middle)]
       ELSE args[k]]

\* Two segments of one length without common places, and two that meet in middle.
Apart(n, V, args, from, to, len) ==
    /\ n \in Nat /\ args \in [1..n -> V]
    /\ from \in Nat /\ to \in Nat /\ len \in Nat
    /\ 1 <= from /\ from + len <= to /\ to + len <= n + 1

Adjacent(n, V, args, bottom, middle, top) ==
    /\ n \in Nat /\ args \in [1..n -> V]
    /\ bottom \in Nat /\ middle \in Nat /\ top \in Nat
    /\ 1 <= bottom /\ bottom <= middle /\ middle <= top /\ top <= n + 1

\* Two segments without common places are swapped within the vector.
LEMMA SwapTyped ==
    ASSUME NEW n, NEW V, NEW args, NEW from, NEW to, NEW len,
           Apart(n, V, args, from, to, len)
    PROVE  /\ SwapSegments(args, from, to, len) \in [1..n -> V]
           /\ \A k \in 1..n : SwapSegments(args, from, to, len)[k] =
                IF k \in from..(from + len - 1) THEN args[k - from + to]
                ELSE IF k \in to..(to + len - 1) THEN args[k - to + from]
                ELSE args[k]
<1> DEFINE e(k) == IF k \in from..(from + len - 1) THEN args[k - from + to]
                   ELSE IF k \in to..(to + len - 1) THEN args[k - to + from]
                   ELSE args[k]
<1>0. /\ n \in Nat /\ args \in [1..n -> V]
      /\ from \in Nat /\ to \in Nat /\ len \in Nat
      /\ 1 <= from /\ from + len <= to /\ to + len <= n + 1
  BY DEF Apart
<1>1. \A k \in 1..n : e(k) \in V
  <2> SUFFICES ASSUME NEW k \in 1..n
               PROVE  e(k) \in V
    OBVIOUS
  <2>1. CASE k \in from..(from + len - 1)
    <3>1. k - from + to \in 1..n
      BY <1>0, <2>1
    <3> QED
      BY <1>0, <2>1, <3>1
  <2>2. CASE k \notin from..(from + len - 1) /\ k \in to..(to + len - 1)
    <3>1. k - to + from \in 1..n
      BY <1>0, <2>2
    <3> QED
      BY <1>0, <2>2, <3>1
  <2>3. CASE k \notin from..(from + len - 1) /\ k \notin to..(to + len - 1)
    BY <1>0, <2>3
  <2> QED
    BY <2>1, <2>2, <2>3
<1>2. SwapSegments(args, from, to, len) = [k \in 1..n |-> e(k)]
  BY <1>0 DEF SwapSegments
<1> HIDE DEF e
<1>3. \A k \in 1..n : SwapSegments(args, from, to, len)[k] = e(k)
  BY <1>2
<1>4. SwapSegments(args, from, to, len) \in [1..n -> V]
  BY <1>1, <1>2
<1> QED
  BY <1>3, <1>4 DEF e

\* Of a vector of the same length: what stands at each place of the rotated one.
LEMMA RotatedAt ==
    ASSUME NEW n, NEW V, NEW args, NEW bottom, NEW middle, NEW top,
           Adjacent(n, V, args, bottom, middle, top)
    PROVE  /\ Rotated(args, bottom, middle, top) \in [1..n -> V]
           /\ \A k \in 1..n : Rotated(args, bottom, middle, top)[k] =
                IF bottom <= k /\ k < bottom + (top - middle) THEN args[k + (middle - bottom)]
                ELSE IF bottom + (top - middle) <= k /\ k < top THEN args[k - (top - middle)]
                ELSE args[k]
<1> DEFINE e(k) == IF k \in bottom..(bottom + (top - middle) - 1) THEN args[k + (middle - bottom)]
                   ELSE IF k \in (bottom + (top - middle))..(top - 1) THEN args[k - (top - middle)]
                   ELSE args[k]
<1>0. /\ n \in Nat /\ args \in [1..n -> V]
      /\ bottom \in Nat /\ middle \in Nat /\ top \in Nat
      /\ 1 <= bottom /\ bottom <= middle /\ middle <= top /\ top <= n + 1
  BY DEF Adjacent
<1>1. \A k \in 1..n : e(k) \in V
  BY <1>0
<1>2. Rotated(args, bottom, middle, top) = [k \in 1..n |-> e(k)]
  BY <1>0 DEF Rotated
<1>3. \A k \in 1..n :
        e(k) = IF bottom <= k /\ k < bottom + (top - middle) THEN args[k + (middle - bottom)]
               ELSE IF bottom + (top - middle) <= k /\ k < top THEN args[k - (top - middle)]
               ELSE args[k]
  BY <1>0
<1> HIDE DEF e
<1> QED
  BY <1>1, <1>2, <1>3

\* Two segments that meet, with their lengths; neither is empty.
Segments(n, V, a, b, m, t, lower, upper) ==
    /\ Adjacent(n, V, a, b, m, t)
    /\ lower \in Nat /\ upper \in Nat /\ 0 < lower /\ 0 < upper
    /\ m = b + lower /\ t = m + upper

\* A round in which the lower segment is the shorter one.
LEMMA RoundUp ==
    ASSUME NEW n, NEW V, NEW a, NEW b, NEW m, NEW t, NEW lower, NEW upper,
           Segments(n, V, a, b, m, t, lower, upper), lower < upper
    PROVE  /\ SwapSegments(a, b, t - lower, lower) \in [1..n -> V]
           /\ Rotated(SwapSegments(a, b, t - lower, lower), b, m, t - lower)
                = Rotated(a, b, m, t)
<1> DEFINE c == SwapSegments(a, b, t - lower, lower)
<1>0. /\ n \in Nat /\ a \in [1..n -> V] /\ b \in Nat /\ m \in Nat /\ t \in Nat
      /\ 1 <= b /\ b <= m /\ m <= t /\ t <= n + 1
      /\ lower \in Nat /\ upper \in Nat /\ 0 < lower /\ 0 < upper
      /\ m = b + lower /\ t = m + upper
  BY DEF Adjacent, Segments
<1>1. Apart(n, V, a, b, t - lower, lower)
  BY <1>0 DEF Apart
<1>2. /\ c \in [1..n -> V]
      /\ \A j \in 1..n : c[j] = IF j \in b..(b + lower - 1) THEN a[j - b + (t - lower)]
                                ELSE IF j \in (t - lower)..(t - lower + lower - 1)
                                     THEN a[j - (t - lower) + b]
                                ELSE a[j]
  BY <1>1, SwapTyped
<1> HIDE DEF c
<1>3. /\ Rotated(a, b, m, t) \in [1..n -> V]
      /\ \A j \in 1..n : Rotated(a, b, m, t)[j] =
           IF b <= j /\ j < b + (t - m) THEN a[j + (m - b)]
           ELSE IF b + (t - m) <= j /\ j < t THEN a[j - (t - m)]
           ELSE a[j]
  BY RotatedAt DEF Segments
<1>4. /\ Rotated(c, b, m, t - lower) \in [1..n -> V]
      /\ \A j \in 1..n : Rotated(c, b, m, t - lower)[j] =
           IF b <= j /\ j < b + (t - lower - m) THEN c[j + (m - b)]
           ELSE IF b + (t - lower - m) <= j /\ j < t - lower THEN c[j - (t - lower - m)]
           ELSE c[j]
  <2>1. Adjacent(n, V, c, b, m, t - lower)
    BY <1>0, <1>2 DEF Adjacent
  <2> QED
    BY <2>1, RotatedAt
<1>5. ASSUME NEW j \in 1..n
      PROVE  Rotated(c, b, m, t - lower)[j] = Rotated(a, b, m, t)[j]
  <2>1. CASE b <= j /\ j < b + (upper - lower)
    <3>1. j + lower \in 1..n /\ c[j + lower] = a[j + lower]
      BY <1>0, <1>2, <2>1
    <3> QED
      BY <1>0, <1>3, <1>4, <2>1, <3>1
  <2>2. CASE b + (upper - lower) <= j /\ j < t - lower
    <3>1. j - (upper - lower) \in 1..n /\ c[j - (upper - lower)] = a[j + lower]
      BY <1>0, <1>2, <2>2
    <3> QED
      BY <1>0, <1>3, <1>4, <2>2, <3>1
  <2>3. CASE t - lower <= j /\ j < t
    <3>1. c[j] = a[j - upper]
      BY <1>0, <1>2, <2>3
    <3> QED
      BY <1>0, <1>3, <1>4, <2>3, <3>1
  <2>4. CASE j < b \/ t <= j
    <3>1. c[j] = a[j]
      BY <1>0, <1>2, <2>4
    <3> QED
      BY <1>0, <1>3, <1>4, <2>4, <3>1
  <2> QED
    BY <1>0, <2>1, <2>2, <2>3, <2>4
<1> HIDE DEF c
<1>6. Rotated(c, b, m, t - lower) = Rotated(a, b, m, t)
  BY <1>0, <1>3, <1>4, <1>5
<1> QED
  BY <1>0, <1>2, <1>6 DEF c

\* A round in which the upper segment is the shorter one, or as long.
LEMMA RoundDown ==
    ASSUME NEW n, NEW V, NEW a, NEW b, NEW m, NEW t, NEW lower, NEW upper,
           Segments(n, V, a, b, m, t, lower, upper), upper <= lower
    PROVE  /\ SwapSegments(a, b, m, upper) \in [1..n -> V]
           /\ Rotated(SwapSegments(a, b, m, upper), b + upper, m, t) = Rotated(a, b, m, t)
<1> DEFINE c == SwapSegments(a, b, m, upper)
<1>0. /\ n \in Nat /\ a \in [1..n -> V] /\ b \in Nat /\ m \in Nat /\ t \in Nat
      /\ 1 <= b /\ b <= m /\ m <= t /\ t <= n + 1
      /\ lower \in Nat /\ upper \in Nat /\ 0 < lower /\ 0 < upper
      /\ m = b + lower /\ t = m + upper
  BY DEF Adjacent, Segments
<1>1. Apart(n, V, a, b, m, upper)
  BY <1>0 DEF Apart
<1>2. /\ c \in [1..n -> V]
      /\ \A j \in 1..n : c[j] = IF j \in b..(b + upper - 1) THEN a[j - b + m]
                                ELSE IF j \in m..(m + upper - 1) THEN a[j - m + b]
                                ELSE a[j]
  BY <1>1, SwapTyped
<1> HIDE DEF c
<1>3. /\ Rotated(a, b, m, t) \in [1..n -> V]
      /\ \A j \in 1..n : Rotated(a, b, m, t)[j] =
           IF b <= j /\ j < b + (t - m) THEN a[j + (m - b)]
           ELSE IF b + (t - m) <= j /\ j < t THEN a[j - (t - m)]
           ELSE a[j]
  BY RotatedAt DEF Segments
<1>4. /\ Rotated(c, b + upper, m, t) \in [1..n -> V]
      /\ \A j \in 1..n : Rotated(c, b + upper, m, t)[j] =
           IF b + upper <= j /\ j < b + upper + (t - m) THEN c[j + (m - (b + upper))]
           ELSE IF b + upper + (t - m) <= j /\ j < t THEN c[j - (t - m)]
           ELSE c[j]
  <2>1. Adjacent(n, V, c, b + upper, m, t)
    BY <1>0, <1>2 DEF Adjacent
  <2> QED
    BY <2>1, RotatedAt
<1>5. ASSUME NEW j \in 1..n
      PROVE  Rotated(c, b + upper, m, t)[j] = Rotated(a, b, m, t)[j]
  <2>1. CASE b <= j /\ j < b + upper
    <3>1. c[j] = a[j + lower]
      BY <1>0, <1>2, <2>1
    <3> QED
      BY <1>0, <1>3, <1>4, <2>1, <3>1
  <2>2. CASE b + upper <= j /\ j < b + upper + upper
    <3>1. j + (lower - upper) \in 1..n /\ c[j + (lower - upper)] = a[j - upper]
      BY <1>0, <1>2, <2>2
    <3> QED
      BY <1>0, <1>3, <1>4, <2>2, <3>1
  <2>3. CASE b + upper + upper <= j /\ j < t
    <3>1. j - upper \in 1..n /\ c[j - upper] = a[j - upper]
      BY <1>0, <1>2, <2>3
    <3> QED
      BY <1>0, <1>3, <1>4, <2>3, <3>1
  <2>4. CASE j < b \/ t <= j
    <3>1. c[j] = a[j]
      BY <1>0, <1>2, <2>4
    <3> QED
      BY <1>0, <1>3, <1>4, <2>4, <3>1
  <2> QED
    BY <1>0, <2>1, <2>2, <2>3, <2>4
<1> HIDE DEF c
<1>6. Rotated(c, b + upper, m, t) = Rotated(a, b, m, t)
  BY <1>0, <1>3, <1>4, <1>5
<1> QED
  BY <1>0, <1>2, <1>6 DEF c

\* What holds of the loop after k rounds: what is left to be done makes of the
\* vector what was to be made of it, and gets smaller.
RoundInv(s, k, n, V, args, bottom, middle, top) ==
    /\ s = [args |-> s.args, bottom |-> s.bottom, top |-> s.top]
    /\ s.args \in [1..n -> V]
    /\ s.bottom \in bottom..middle
    /\ s.top \in middle..top
    /\ s.top = middle \/ s.bottom = middle \/ s.top - s.bottom <= top - bottom - k
    /\ Rotated(s.args, s.bottom, middle, s.top) = Rotated(args, bottom, middle, top)

\* Each round of the loop keeps it, and there is less to move.
LEMMA RoundKeeps ==
    ASSUME NEW n \in Nat, NEW V, NEW args \in [1..n -> V], NEW k \in Nat,
           NEW bottom \in 1..(n + 1), NEW middle \in bottom..(n + 1),
           NEW top \in middle..(n + 1),
           NEW s, RoundInv(s, k, n, V, args, bottom, middle, top)
    PROVE  RoundInv(ExchangeRound(s, middle), k + 1, n, V, args, bottom, middle, top)
<1>0. PICK a, b, t : a = s.args /\ b = s.bottom /\ t = s.top
  OBVIOUS
<1>1. /\ a \in [1..n -> V] /\ b \in Nat /\ t \in Nat
      /\ 1 <= b /\ b <= middle /\ middle <= t /\ t <= n + 1 /\ bottom <= b /\ t <= top
      /\ s = [args |-> a, bottom |-> b, top |-> t]
      /\ t = middle \/ b = middle \/ t - b <= top - bottom - k
      /\ Rotated(a, b, middle, t) = Rotated(args, bottom, middle, top)
  BY <1>0 DEF RoundInv
<1>2. PICK lower \in Nat, upper \in Nat : lower = middle - b /\ upper = t - middle
  BY <1>1
<1>6. ExchangeRound(s, middle) =
        IF ~(upper > 0 /\ lower > 0) THEN s
        ELSE IF upper > lower
        THEN [s EXCEPT !.args = SwapSegments(a, b, t - lower, lower), !.top = t - lower]
        ELSE [s EXCEPT !.args = SwapSegments(a, b, middle, upper), !.bottom = b + upper]
  BY <1>0, <1>2, Zenon DEF ExchangeRound
<1>3. CASE ~(upper > 0 /\ lower > 0)
  <2>1. ExchangeRound(s, middle) = s
    BY <1>0, <1>2, <1>3 DEF ExchangeRound
  <2>2. t = middle \/ b = middle
    BY <1>1, <1>2, <1>3
  <2> QED
    BY <1>0, <1>1, <2>1, <2>2 DEF RoundInv
<1>4. CASE upper > lower /\ lower > 0
  <2>1. PICK c : c = SwapSegments(a, b, t - lower, lower)
    OBVIOUS
  <2>2. ExchangeRound(s, middle) = [args |-> c, bottom |-> b, top |-> t - lower]
    <3>1. ExchangeRound(s, middle) = [s EXCEPT !.args = c, !.top = t - lower]
      BY <1>4, <1>6, <2>1
    <3> QED
      BY <1>1, <3>1
  <2>3. c \in [1..n -> V] /\ Rotated(c, b, middle, t - lower) = Rotated(a, b, middle, t)
    <3>1. Segments(n, V, a, b, middle, t, lower, upper) /\ lower < upper
      BY <1>1, <1>2, <1>4 DEF Adjacent, Segments
    <3> QED
      BY <2>1, <3>1, RoundUp
  <2>4. /\ b \in bottom..middle
        /\ t - lower \in middle..top
        /\ t - lower - b <= top - bottom - (k + 1)
    BY <1>1, <1>2, <1>4
  <2> QED
    BY <1>1, <2>2, <2>3, <2>4 DEF RoundInv
<1>5. CASE ~(upper > lower) /\ upper > 0 /\ lower > 0
  <2>1. PICK c : c = SwapSegments(a, b, middle, upper)
    OBVIOUS
  <2>2. ExchangeRound(s, middle) = [args |-> c, bottom |-> b + upper, top |-> t]
    <3>1. ExchangeRound(s, middle) = [s EXCEPT !.args = c, !.bottom = b + upper]
      BY <1>5, <1>6, <2>1
    <3> QED
      BY <1>1, <3>1
  <2>3. c \in [1..n -> V] /\ Rotated(c, b + upper, middle, t) = Rotated(a, b, middle, t)
    <3>1. Segments(n, V, a, b, middle, t, lower, upper) /\ upper <= lower
      BY <1>1, <1>2, <1>5 DEF Adjacent, Segments
    <3> QED
      BY <2>1, <3>1, RoundDown
  <2>4. /\ b + upper \in bottom..middle
        /\ t \in middle..top
        /\ t - (b + upper) <= top - bottom - (k + 1)
    BY <1>1, <1>2, <1>5
  <2> QED
    BY <1>1, <2>2, <2>3, <2>4 DEF RoundInv
<1> QED
  BY <1>2, <1>3, <1>4, <1>5

\* Nothing is left to be done when one of the segments is empty.
LEMMA RotatedEmpty ==
    ASSUME NEW n, NEW V, NEW a, NEW b, NEW m, NEW t, Adjacent(n, V, a, b, m, t),
           t = m \/ b = m
    PROVE  Rotated(a, b, m, t) = a
<1>1. /\ n \in Nat /\ a \in [1..n -> V] /\ b \in Nat /\ m \in Nat /\ t \in Nat
      /\ 1 <= b /\ b <= m /\ m <= t /\ t <= n + 1
  BY DEF Adjacent
<1>2. /\ Rotated(a, b, m, t) \in [1..n -> V]
      /\ \A j \in 1..n : Rotated(a, b, m, t)[j] =
           IF b <= j /\ j < b + (t - m) THEN a[j + (m - b)]
           ELSE IF b + (t - m) <= j /\ j < t THEN a[j - (t - m)]
           ELSE a[j]
  BY RotatedAt
<1>3. ASSUME NEW j \in 1..n
      PROVE  Rotated(a, b, m, t)[j] = a[j]
  <2>1. b <= j /\ j < b + (t - m) => j + (m - b) = j
    BY <1>1
  <2>2. b + (t - m) <= j /\ j < t => j - (t - m) = j
    BY <1>1
  <2> QED
    BY <1>2, <2>1, <2>2
<1> QED
  BY <1>1, <1>2, <1>3

\* exchange puts the words that were skipped behind the options that were met
\* after them, and keeps the order of both.
THEOREM ExchangeRotates ==
    ASSUME NEW n, NEW V, NEW args, NEW bottom, NEW middle, NEW top,
           Adjacent(n, V, args, bottom, middle, top)
    PROVE  /\ Exchange(args, bottom, middle, top) = Rotated(args, bottom, middle, top)
           /\ Exchange(args, bottom, middle, top) \in [1..n -> V]
<1> DEFINE whole == Rotated(args, bottom, middle, top)
           d == top - bottom
           a == [args |-> args, bottom |-> bottom, top |-> top]
           Good(s, k) == RoundInv(s, k, n, V, args, bottom, middle, top)
           W == {s \in [args : [1..n -> V], bottom : bottom..middle, top : middle..top] :
                   Good(s, 0)}
           G == [x \in W \X (1..d) |-> ExchangeRound(x[1], middle)]
           Body(r) == [k \in 0..d |-> IF k = 0 THEN a ELSE ExchangeRound(r[k - 1], middle)]
           r == CHOOSE f : f = Body(f)
<1>0. /\ n \in Nat /\ args \in [1..n -> V] /\ bottom \in 1..(n + 1)
      /\ middle \in bottom..(n + 1) /\ top \in middle..(n + 1)
  BY DEF Adjacent
<1>1. d \in Nat /\ Good(a, 0) /\ a \in W
  BY <1>0 DEF RoundInv
<1>2. ASSUME NEW s, NEW k \in Nat, Good(s, k)
      PROVE  Good(ExchangeRound(s, middle), k + 1)
  BY <1>0, <1>2, RoundKeeps
<1>3. ASSUME NEW s \in W
      PROVE  ExchangeRound(s, middle) \in W
  <2>1. PICK u : u = ExchangeRound(s, middle)
    OBVIOUS
  <2>2. Good(u, 0 + 1)
    BY <1>2, <2>1
  <2>3. u \in [args : [1..n -> V], bottom : bottom..middle, top : middle..top]
    BY <2>2 DEF RoundInv
  <2>4. Good(u, 0)
    BY <1>0, <2>2, <2>3 DEF RoundInv
  <2> QED
    BY <2>1, <2>3, <2>4
<1> HIDE DEF W
<1>4. PICK f \in [0..d -> W] :
         \A k \in 0..d : f[k] = IF k = 0 THEN a ELSE ExchangeRound(f[k - 1], middle)
  <2>1. \A v \in W, k \in 1..d : G[<<v, k>>] = ExchangeRound(v, middle)
    OBVIOUS
  <2>2. \A v \in W, k \in 1..d : G[<<v, k>>] \in W
    BY <1>3, <2>1
  <2> HIDE DEF G, d, a
  <2>3. PICK g : IsRecursion(g, W, a, d, G)
    BY <1>1, <2>2, RecursionExists
  <2>4. /\ g \in [0..d -> W]
        /\ \A k \in 0..d : g[k] = IF k = 0 THEN a ELSE G[<<g[k - 1], k>>]
    BY <2>3 DEF IsRecursion
  <2>5. \A k \in 0..d : k # 0 => g[k - 1] \in W /\ k \in 1..d
    BY <1>1, <2>4
  <2> QED
    BY <2>1, <2>4, <2>5
<1>5. f = Body(f)
  <2>1. f = [k \in 0..d |-> f[k]]
    BY <1>4
  <2> HIDE DEF a, d
  <2> QED
    BY <1>4, <2>1
<1>6. r = Body(r)
  <2> HIDE DEF Body
  <2> QED
    BY <1>5, Zenon
<1>7. Exchange(args, bottom, middle, top) = r[d].args
  BY Zenon DEF Exchange
<1> HIDE DEF r, d, a, Good
<1>8. \A k \in 0..d : r[k] = IF k = 0 THEN a ELSE ExchangeRound(r[k - 1], middle)
  BY <1>6
<1> DEFINE S == {k \in Nat : k <= d => Good(r[k], k)}
<1>9. 0 \in S
  BY <1>1, <1>8
<1>10. ASSUME NEW k \in Nat, k \in S
       PROVE  k + 1 \in S
  <2> SUFFICES ASSUME k + 1 <= d
               PROVE  Good(r[k + 1], k + 1)
    OBVIOUS
  <2>1. Good(r[k], k) /\ r[k + 1] = ExchangeRound(r[k], middle)
    BY <1>1, <1>8, <1>10
  <2> QED
    BY <1>2, <2>1
<1>11. Good(r[d], d)
  <2> HIDE DEF S
  <2>1. d \in S
    BY <1>1, <1>9, <1>10, SetInduction
  <2> QED
    BY <1>1, <2>1 DEF S
<1>12. PICK b, t, c : b = r[d].bottom /\ t = r[d].top /\ c = r[d].args
  OBVIOUS
<1>13. /\ Adjacent(n, V, c, b, middle, t)
       /\ t = middle \/ b = middle
       /\ Rotated(c, b, middle, t) = whole
  BY <1>0, <1>11, <1>12 DEF Good, RoundInv, Adjacent, d
<1>14. Rotated(c, b, middle, t) = c
  BY <1>13, RotatedEmpty
<1> QED
  BY <1>7, <1>12, <1>13, <1>14 DEF Adjacent

-------------------------------------------------------------------------------
(***************************************************************************)
(* The scan: what the vector looks like in the middle of it, and how far   *)
(* the reference has read.                                                 *)
(***************************************************************************)
\* Of the elements of all before place o, the strays stand in args[first] to
\* args[last - 1] and the others around them, each kind in its order; nothing behind
\* has moved.
Laid(args, all, strays, first, last, o) ==
    LET place(i) == 1 + Before(DOMAIN all \ strays, i)
    IN  /\ args \in [DOMAIN all -> {all[k] : k \in DOMAIN all}]
        /\ first \in Nat /\ last \in Nat /\ o \in Nat
        /\ 1 <= first /\ first <= last /\ last <= o /\ o <= Len(all) + 1
        /\ last - first = Before(strays, o)
        /\ \A k \in o..Len(all) : args[k] = all[k]
        /\ \A i \in 1..(o - 1) :
             IF i \in strays THEN args[first + Before(strays, i)] = all[i]
             ELSE args[IF place(i) < first THEN place(i) ELSE place(i) + (last - first)] = all[i]

\* The reference has read the elements up to k, and the options in them have
\* taken effect.
Settled(k) ==
    LET result == Reading(given, posixly)[k]
    IN  result.config = config /\ result.exit = NoExit

\* j letters of the cluster have taken effect, and the others are left.
InCluster(j) ==
    LET element == given[optind]
        before == Reading(given, posixly)[optind - 1]
        read == ReadLetters(given, optind, before.config)
    IN  /\ nextchar = [letters |-> SubSeq(element.letters, j + 1, Len(element.letters)),
                       text |-> element.text]
        /\ \A i \in 1..j : ~RequiresArgument(element.letters[i])
        /\ before.exit = NoExit
        /\ read[j].config = config /\ read[j].exit = NoExit

ScanInv ==
    pc \in {"scan", "long", "short"} =>
      /\ exit = NoExit
      /\ Laid(argv, given, Strays(given), firstNonopt, lastNonopt, optind)
      /\ optind <= Len(given) => ~IsArgument(given)[optind]
      /\ optind <= Stop(given, posixly)
      /\ posixly => firstNonopt = lastNonopt
      /\ nextchar = NothingLeft => Settled(optind - 1)
      /\ pc = "long" => /\ nextchar = NothingLeft
                        /\ optind <= Len(given) /\ given[optind].kind = "long"
      /\ pc = "short" => nextchar # NothingLeft
      /\ nextchar # NothingLeft =>
           /\ optind <= Len(given) /\ given[optind].kind = "short"
           /\ \E j \in 0..Len(given[optind].letters) : InCluster(j)

ArgumentsInv ==
    pc = "arguments" =>
      /\ exit = NoExit
      /\ optind \in 1..(Len(given) + 1)
      /\ Len(argv) = Len(given)
      /\ Settled(Len(given))
      /\ optind <= Len(given) <=> Strays(given) # {}
      /\ PermutedStably

\* The modes of main come after arguments that the reference takes too.
MainInv ==
    /\ pc \in {"parsed", "construct", "run", "find", "recommend", "start", "sweeps", "sweep"} =>
         Expected.exit = NoExit
    /\ pc = "parsed" => Expected.config = config
    /\ pc = "ended" /\ Expected.exit # NoExit => exit = Expected.exit

PhaseInv ==
    pc \in {"scan", "long", "short", "arguments", "parsed", "construct", "run", "find",
            "recommend", "start", "sweeps", "sweep", "ended"}

ParseInv == PhaseInv /\ given \in CommandLines /\ posixly \in BOOLEAN
            /\ ScanInv /\ ArgumentsInv /\ MainInv

-------------------------------------------------------------------------------
(***************************************************************************)
(* The elements of the vector, and what the reference makes of them.       *)
(***************************************************************************)
\* A vector of arguments is a sequence of elements that can be told apart.
LEMMA ArgsTyped ==
    ASSUME NEW args \in CommandLines
    PROVE  /\ Len(args) \in Nat /\ DOMAIN args = 1..Len(args)
           /\ \A k \in 1..Len(args) : IsElement(args[k])
<1> DEFINE X == {element \in {args[k] : k \in DOMAIN args} : IsElement(element)}
<1>1. args \in Seq(X)
  BY ElementsAssumption
<1> HIDE DEF X
<1>2. Len(args) \in Nat /\ DOMAIN args = 1..Len(args) /\ \A k \in 1..Len(args) : args[k] \in X
  BY <1>1
<1> QED
  BY <1>2 DEF X

\* An element is of one of four kinds.
LEMMA ElementKinds ==
    ASSUME NEW e, IsElement(e)
    PROVE  /\ e.kind \in {"word", "long", "short", "quote"}
           /\ e.kind = "quote" <=> e = Quote
           /\ e.kind = "short" => /\ e.letters \in Seq(STRING)
                                  /\ e.letters # <<>> \/ e.text # NoText
  BY DEF IsElement, Quote, Word, Long, Short

\* Whether an element is an argument depends on the one before it.
LEMMA IsArgumentAt ==
    ASSUME NEW args \in CommandLines
    PROVE  \A k \in 0..Len(args) :
              /\ IsArgument(args)[k] \in BOOLEAN
              /\ IsArgument(args)[k]
                   <=> k > 1 /\ ~IsArgument(args)[k - 1] /\ TakesNext(args[k - 1])
<1> DEFINE n == Len(args)
           G == [x \in BOOLEAN \X (1..n) |-> x[2] > 1 /\ ~x[1] /\ TakesNext(args[x[2] - 1])]
           Body(r) == [k \in 0..n |-> k > 1 /\ ~r[k - 1] /\ TakesNext(args[k - 1])]
           is == CHOOSE g : g = Body(g)
<1>1. n \in Nat
  BY ArgsTyped
<1>2. \A v \in BOOLEAN, k \in 1..n :
         /\ G[<<v, k>>] = (k > 1 /\ ~v /\ TakesNext(args[k - 1]))
         /\ G[<<v, k>>] \in BOOLEAN
  OBVIOUS
<1>3. PICK f \in [0..n -> BOOLEAN] :
         \A k \in 0..n : f[k] = IF k = 0 THEN FALSE ELSE G[<<f[k - 1], k>>]
  <2> HIDE DEF G, n
  <2>1. \A v \in BOOLEAN, k \in 1..n : G[<<v, k>>] \in BOOLEAN
    BY <1>2, Zenon
  <2>2. PICK f : IsRecursion(f, BOOLEAN, FALSE, n, G)
    BY <1>1, <2>1, RecursionExists
  <2> QED
    BY <2>2 DEF IsRecursion
<1>4. ASSUME NEW k \in 0..n
      PROVE  f[k] = (k > 1 /\ ~f[k - 1] /\ TakesNext(args[k - 1]))
  <2> HIDE DEF G, n
  <2>1. CASE k = 0
    <3>1. ~(k > 1)
      BY <2>1
    <3>2. f[k] = FALSE
      BY <1>3, <2>1, Zenon
    <3> QED
      BY <3>1, <3>2, Zenon
  <2>2. CASE k # 0
    <3>1. k - 1 \in 0..n /\ k \in 1..n
      BY <1>1, <2>2
    <3>2. f[k - 1] \in BOOLEAN /\ f[k] = G[<<f[k - 1], k>>]
      BY <1>3, <2>2, <3>1, Zenon
    <3> QED
      BY <1>2, <3>1, <3>2, Zenon
  <2> QED
    BY <2>1, <2>2
<1>5. f = Body(f)
  <2>1. f = [k \in 0..n |-> f[k]]
    BY <1>3
  <2> HIDE DEF n
  <2> QED
    BY <1>4, <2>1, Zenon
<1>6. is = Body(is)
  <2> HIDE DEF Body
  <2> QED
    BY <1>5, Zenon
<1>7. IsArgument(args) = is
  BY Zenon DEF IsArgument
<1> HIDE DEF is
<1>8. \A k \in 0..n : is[k] = (k > 1 /\ ~is[k - 1] /\ TakesNext(args[k - 1]))
  <2> HIDE DEF n
  <2> QED
    BY <1>6, Zenon
<1> QED
  BY <1>7, <1>8, Zenon

\* What Stop looks for.
Stops(args, k, stopAtWord) ==
    ~IsArgument(args)[k] /\ (args[k] = Quote \/ (stopAtWord /\ args[k].kind = "word"))

\* Stop is the first place where options end, or the place after the last.
LEMMA StopIsFirst ==
    ASSUME NEW args \in CommandLines, NEW stopAtWord \in BOOLEAN
    PROVE  /\ Stop(args, stopAtWord) \in 1..(Len(args) + 1)
           /\ Stop(args, stopAtWord) <= Len(args)
                => Stops(args, Stop(args, stopAtWord), stopAtWord)
           /\ \A k \in 1..Len(args) :
                 Stops(args, k, stopAtWord) => Stop(args, stopAtWord) <= k
<1> DEFINE n == Len(args)
           stops == {k \in DOMAIN args : Stops(args, k, stopAtWord)}
           stop == CHOOSE k \in stops \cup {n + 1} : \A j \in stops : k <= j
<1>1. n \in Nat /\ DOMAIN args = 1..n
  BY ArgsTyped
<1>2. Stop(args, stopAtWord) = stop
  BY Zenon DEF Stop, Stops
<1>3. \E k \in stops \cup {n + 1} : \A j \in stops : k <= j
  <2>1. stops \cup {n + 1} \in SUBSET Nat /\ stops \cup {n + 1} # {}
    BY <1>1
  <2>2. PICK k \in stops \cup {n + 1} : \A j \in stops \cup {n + 1} : k <= j
    BY <2>1, LeastExists
  <2> QED
    BY <2>2
<1>4. stop \in stops \cup {n + 1} /\ \A j \in stops : stop <= j
  <2> HIDE DEF stops, n
  <2> QED
    BY <1>3, Zenon
<1> HIDE DEF stop
<1>5. stop \in 1..(n + 1) /\ (stop <= n => stop \in stops)
  BY <1>1, <1>4
<1> QED
  BY <1>1, <1>2, <1>4, <1>5

\* A word may come before "--", never behind it when words stop the reading.
LEMMA StopAtWordFirst ==
    ASSUME NEW args \in CommandLines
    PROVE  Stop(args, TRUE) <= Stop(args, FALSE)
<1>1. Len(args) \in Nat
  BY ArgsTyped
<1>2. PICK word, quote : word = Stop(args, TRUE) /\ quote = Stop(args, FALSE)
  OBVIOUS
<1>3. /\ word \in 1..(Len(args) + 1) /\ quote \in 1..(Len(args) + 1)
      /\ \A k \in 1..Len(args) : Stops(args, k, TRUE) => word <= k
      /\ quote <= Len(args) => Stops(args, quote, FALSE)
  BY <1>2, StopIsFirst, Zenon
<1>4. Stops(args, quote, FALSE) => Stops(args, quote, TRUE)
  BY Zenon DEF Stops
<1>5. CASE quote <= Len(args)
  <2>1. quote \in 1..Len(args)
    BY <1>1, <1>3, <1>5
  <2> QED
    BY <1>2, <1>3, <1>4, <1>5, <2>1, Zenon
<1>6. CASE ~(quote <= Len(args))
  <2>1. word <= quote
    BY <1>1, <1>3, <1>6
  <2> QED
    BY <1>2, <2>1, Zenon
<1> QED
  BY <1>5, <1>6

-------------------------------------------------------------------------------
\* strays are places of the vector all, which is n long.
Places(n, all, strays) ==
    /\ n \in Nat /\ DOMAIN all = 1..n /\ Len(all) = n
    /\ strays \in SUBSET (1..n)

\* What follows from Laid for the counts.
Tallies(n, strays, first, last, o) ==
    /\ first \in Nat /\ last \in Nat /\ o \in Nat
    /\ 1 <= first /\ first <= last /\ last <= o /\ o <= n + 1
    /\ Before(strays, o) = last - first
    /\ Before((1..n) \ strays, o) = o - 1 - (last - first)
    /\ \A i \in 1..(o - 1) :
         /\ Before(strays, i) \in Nat /\ Before((1..n) \ strays, i) \in Nat
         /\ i \in strays => Before(strays, i) < last - first
         /\ i \notin strays => Before((1..n) \ strays, i) < o - 1 - (last - first)

\* How many words and how many others there are before an element, from where
\* the words stand.
LEMMA LaidCounts ==
    ASSUME NEW n, NEW all, NEW strays, Places(n, all, strays), NEW args, NEW first, NEW last, NEW o,
           Laid(args, all, strays, first, last, o)
    PROVE  Tallies(n, strays, first, last, o)
<1>0. n \in Nat /\ DOMAIN all = 1..n /\ Len(all) = n /\ strays \in SUBSET (1..n)
  BY DEF Places
<1> USE <1>0
<1> DEFINE others == (1..n) \ strays
<1>1. /\ first \in Nat /\ last \in Nat /\ o \in Nat
      /\ 1 <= first /\ first <= last /\ last <= o /\ o <= n + 1
      /\ Before(strays, o) = last - first
  BY DEF Laid
<1>2. others \in SUBSET (1..n)
  OBVIOUS
<1>3. o \in 1..(n + 1)
  BY <1>1
<1>4. Before(strays, o) + Before(others, o) = o - 1
  BY <1>3, BeforeSplit
<1>5. Before(others, o) \in Nat
  BY <1>2, BeforeNat
<1>6. Before(others, o) = o - 1 - (last - first)
  <2> HIDE DEF others
  <2> QED
    BY <1>1, <1>4, <1>5
<1>7. ASSUME NEW i \in 1..(o - 1)
      PROVE  /\ Before(strays, i) \in Nat /\ Before(others, i) \in Nat
             /\ i \in strays => Before(strays, i) < last - first
             /\ i \notin strays => Before(others, i) < o - 1 - (last - first)
  <2>1. i \in Int /\ o \in Int /\ i < o /\ i \in 1..n
    BY <1>1
  <2>2. Before(strays, i) \in Nat /\ Before(others, i) \in Nat
    BY <1>2, BeforeNat
  <2>3. i \in strays => Before(strays, i) < Before(strays, o)
    BY <2>1, BeforeGrows
  <2>4. i \in others => Before(others, i) < Before(others, o)
    BY <1>2, <2>1, BeforeGrows
  <2>5. i \notin strays => i \in others
    BY <2>1
  <2> HIDE DEF others
  <2> QED
    BY <1>1, <1>6, <2>2, <2>3, <2>4, <2>5
<1> QED
  BY <1>1, <1>6, <1>7 DEF Tallies

\* The exchange puts the strays right before place o.
LEMMA LaidRotated ==
    ASSUME NEW n, NEW all, NEW strays, Places(n, all, strays), NEW args, NEW first, NEW last, NEW o,
           Laid(args, all, strays, first, last, o)
    PROVE  Laid(Rotated(args, first, last, o), all, strays, first + (o - last), o, o)
<1>0. n \in Nat /\ DOMAIN all = 1..n /\ Len(all) = n /\ strays \in SUBSET (1..n)
  BY DEF Places
<1> USE <1>0
<1> DEFINE V == {all[k] : k \in DOMAIN all}
<1>1. PICK b, c : /\ b = [i \in 1..n |-> Before(strays, i)]
                  /\ c = [i \in 1..n |-> Before((1..n) \ strays, i)]
  OBVIOUS
<1>2. /\ first \in Nat /\ last \in Nat /\ o \in Nat
      /\ 1 <= first /\ first <= last /\ last <= o /\ o <= n + 1
      /\ Before(strays, o) = last - first
      /\ \A i \in 1..(o - 1) :
           /\ b[i] \in Nat /\ c[i] \in Nat
           /\ i \in strays => b[i] < last - first
           /\ i \notin strays => c[i] < o - 1 - (last - first)
  <2>1. /\ first \in Nat /\ last \in Nat /\ o \in Nat
        /\ 1 <= first /\ first <= last /\ last <= o /\ o <= n + 1
        /\ Before(strays, o) = last - first
        /\ Before((1..n) \ strays, o) = o - 1 - (last - first)
        /\ \A i \in 1..(o - 1) :
             /\ Before(strays, i) \in Nat /\ Before((1..n) \ strays, i) \in Nat
             /\ i \in strays => Before(strays, i) < last - first
             /\ i \notin strays => Before((1..n) \ strays, i) < o - 1 - (last - first)
    <3>1. Tallies(n, strays, first, last, o)
      BY LaidCounts
    <3> QED
      BY <3>1 DEF Tallies
  <2>2. \A i \in 1..(o - 1) : i \in 1..n
    BY <2>1
  <2> QED
    BY <1>1, <2>1, <2>2
<1>3. /\ args \in [1..n -> V]
      /\ \A k \in o..n : args[k] = all[k]
      /\ \A i \in 1..(o - 1) :
           /\ i \in strays => args[first + b[i]] = all[i]
           /\ i \notin strays => args[IF 1 + c[i] < first THEN 1 + c[i]
                                      ELSE 1 + c[i] + (last - first)] = all[i]
  <2>1. \A i \in 1..(o - 1) : i \in 1..n
    BY <1>2
  <2> QED
    BY <1>1, <2>1 DEF Laid
<1> HIDE DEF V
<1>4. Adjacent(n, V, args, first, last, o)
  BY <1>2, <1>3 DEF Adjacent
<1>5. PICK r : r = Rotated(args, first, last, o)
  OBVIOUS
<1>6. /\ r \in [1..n -> V]
      /\ \A k \in 1..n : r[k] =
           IF first <= k /\ k < first + (o - last) THEN args[k + (last - first)]
           ELSE IF first + (o - last) <= k /\ k < o THEN args[k - (o - last)]
           ELSE args[k]
  BY <1>4, <1>5, RotatedAt
<1>7. \A k \in o..n : r[k] = all[k]
  BY <1>2, <1>3, <1>6
<1>8. ASSUME NEW i \in 1..(o - 1), i \in strays
      PROVE  r[first + (o - last) + b[i]] = all[i]
  <2>1. PICK k : k = first + (o - last) + b[i]
    OBVIOUS
  <2>2. /\ k \in 1..n /\ first + (o - last) <= k /\ k < o
        /\ k - (o - last) = first + b[i]
    BY <1>2, <1>8, <2>1
  <2>3. r[k] = args[first + b[i]]
    BY <1>2, <1>6, <2>2
  <2> QED
    BY <1>3, <1>8, <2>1, <2>3
<1>9. ASSUME NEW i \in 1..(o - 1), i \notin strays
      PROVE  1 + c[i] < first + (o - last) /\ r[1 + c[i]] = all[i]
  <2>1. PICK k : k = 1 + c[i]
    OBVIOUS
  <2>2. k \in 1..n /\ k < first + (o - last)
    BY <1>2, <1>9, <2>1
  <2>3. r[k] = args[IF k < first THEN k ELSE k + (last - first)]
    BY <1>2, <1>6, <2>2
  <2> QED
    BY <1>3, <1>9, <2>1, <2>2, <2>3
<1>10. \A i \in 1..(o - 1) : i \in 1..n
  BY <1>2
<1>11. \A i \in 1..(o - 1) :
          IF i \in strays THEN r[first + (o - last) + Before(strays, i)] = all[i]
          ELSE r[IF 1 + Before(DOMAIN all \ strays, i) < first + (o - last)
                 THEN 1 + Before(DOMAIN all \ strays, i)
                 ELSE 1 + Before(DOMAIN all \ strays, i) + (o - (first + (o - last)))] = all[i]
  BY <1>1, <1>8, <1>9, <1>10
<1>12. /\ first + (o - last) \in Nat /\ 1 <= first + (o - last) /\ first + (o - last) <= o
       /\ o <= o /\ o - (first + (o - last)) = Before(strays, o)
  BY <1>2
<1> QED
  BY <1>2, <1>5, <1>6, <1>7, <1>11, <1>12, Zenon DEF Laid, V

\* Strays that follow at once are taken along.
LEMMA LaidPassed ==
    ASSUME NEW n, NEW all, NEW strays, Places(n, all, strays), NEW args, NEW first, NEW o,
           Laid(args, all, strays, first, o, o),
           NEW p \in Nat, o <= p, p <= n + 1, \A k \in o..(p - 1) : k \in strays
    PROVE  Laid(args, all, strays, first, p, p)
<1>0. n \in Nat /\ DOMAIN all = 1..n /\ Len(all) = n /\ strays \in SUBSET (1..n)
  BY DEF Places
<1> USE <1>0
<1>1. /\ first \in Nat /\ o \in Nat /\ o \in Nat
      /\ 1 <= first /\ first <= o /\ o <= o /\ o <= n + 1
      /\ Before(strays, o) = o - first
      /\ Before((1..n) \ strays, o) = o - 1 - (o - first)
      /\ \A i \in 1..(o - 1) :
           /\ Before(strays, i) \in Nat /\ Before((1..n) \ strays, i) \in Nat
           /\ i \in strays => Before(strays, i) < o - first
           /\ i \notin strays => Before((1..n) \ strays, i) < o - 1 - (o - first)
  <2>1. Tallies(n, strays, first, o, o)
    BY LaidCounts
  <2> QED
    BY <2>1 DEF Tallies
<1>2. /\ args \in [1..n -> {all[k] : k \in DOMAIN all}]
      /\ \A k \in o..n : args[k] = all[k]
      /\ \A i \in 1..(o - 1) :
           /\ i \in strays => args[first + Before(strays, i)] = all[i]
           /\ i \notin strays => args[IF 1 + Before((1..n) \ strays, i) < first
                                      THEN 1 + Before((1..n) \ strays, i)
                                      ELSE 1 + Before((1..n) \ strays, i) + (o - first)] = all[i]
  BY DEF Laid
<1>3. ASSUME NEW d \in Nat, o + d <= p
      PROVE  Before(strays, o + d) = Before(strays, o) + d
  <2>1. \A k \in o..(o + d - 1) : k \in strays
    BY <1>1, <1>3
  <2> QED
    BY <1>1, <2>1, BeforeRun
<1>4. ASSUME NEW i \in o..p
      PROVE  Before(strays, i) = i - first
  <2>1. i - o \in Nat /\ o + (i - o) = i
    BY <1>1
  <2>2. Before(strays, o + (i - o)) = Before(strays, o) + (i - o)
    <3>1. PICK d \in Nat : d = i - o
      BY <2>1
    <3>2. o + d <= p
      BY <1>1, <2>1, <3>1
    <3> QED
      BY <1>3, <3>1, <3>2
  <2> QED
    BY <1>1, <2>1, <2>2
<1>5. p - first = Before(strays, p)
  BY <1>1, <1>4
<1>6. \A k \in p..n : args[k] = all[k]
  BY <1>1, <1>2
<1>7. ASSUME NEW i \in 1..(p - 1), i \in strays
      PROVE  args[first + Before(strays, i)] = all[i]
  <2>1. CASE i < o
    BY <1>1, <1>2, <1>7, <2>1
  <2>2. CASE o <= i
    <3>1. first + Before(strays, i) = i /\ i \in o..n
      BY <1>1, <1>4, <2>2
    <3> QED
      BY <1>2, <3>1
  <2> QED
    BY <1>1, <2>1, <2>2
<1>8. ASSUME NEW i \in 1..(p - 1), i \notin strays
      PROVE  /\ 1 + Before((1..n) \ strays, i) < first
             /\ args[1 + Before((1..n) \ strays, i)] = all[i]
  <2>1. i \in 1..(o - 1)
    BY <1>1, <1>8
  <2>2. 1 + Before((1..n) \ strays, i) < first
    <3>1. PICK c : c = Before((1..n) \ strays, i)
      OBVIOUS
    <3>2. c \in Nat /\ c < o - 1 - (o - first)
      BY <1>1, <1>8, <2>1, <3>1
    <3>3. 1 + c < first
      BY <1>1, <3>2
    <3> QED
      BY <3>1, <3>3
  <2> QED
    BY <1>2, <1>8, <2>1, <2>2
<1>9. \A i \in 1..(p - 1) :
        IF i \in strays THEN args[first + Before(strays, i)] = all[i]
        ELSE args[IF 1 + Before(DOMAIN all \ strays, i) < first
                  THEN 1 + Before(DOMAIN all \ strays, i)
                  ELSE 1 + Before(DOMAIN all \ strays, i) + (p - first)] = all[i]
  BY <1>7, <1>8
<1>10. first <= p /\ p <= p
  BY <1>1
<1> QED
  BY <1>1, <1>2, <1>5, <1>6, <1>9, <1>10, Zenon DEF Laid

\* An option, or its argument, is passed where it stands.
LEMMA LaidOption ==
    ASSUME NEW n, NEW all, NEW strays, Places(n, all, strays), NEW args, NEW first, NEW last, NEW o,
           Laid(args, all, strays, first, last, o), o <= n, o \notin strays
    PROVE  Laid(args, all, strays, first, last, o + 1)
<1>0. n \in Nat /\ DOMAIN all = 1..n /\ Len(all) = n /\ strays \in SUBSET (1..n)
  BY DEF Places
<1> USE <1>0
<1>1. /\ first \in Nat /\ last \in Nat /\ o \in Nat
      /\ 1 <= first /\ first <= last /\ last <= o /\ o <= n + 1
      /\ Before(strays, o) = last - first
      /\ Before((1..n) \ strays, o) = o - 1 - (last - first)
      /\ \A i \in 1..(o - 1) :
           /\ Before(strays, i) \in Nat /\ Before((1..n) \ strays, i) \in Nat
           /\ i \in strays => Before(strays, i) < last - first
           /\ i \notin strays => Before((1..n) \ strays, i) < o - 1 - (last - first)
  <2>1. Tallies(n, strays, first, last, o)
    BY LaidCounts
  <2> QED
    BY <2>1 DEF Tallies
<1>2. /\ args \in [1..n -> {all[k] : k \in DOMAIN all}]
      /\ \A k \in o..n : args[k] = all[k]
      /\ \A i \in 1..(o - 1) :
           /\ i \in strays => args[first + Before(strays, i)] = all[i]
           /\ i \notin strays => args[IF 1 + Before((1..n) \ strays, i) < first
                                      THEN 1 + Before((1..n) \ strays, i)
                                      ELSE 1 + Before((1..n) \ strays, i) + (last - first)] = all[i]
  BY DEF Laid
<1>3. last - first = Before(strays, o + 1)
  BY <1>1, BeforeStep
<1>4. ASSUME NEW i \in 1..((o + 1) - 1), i \in strays
      PROVE  args[first + Before(strays, i)] = all[i]
  <2>1. i \in 1..(o - 1)
    BY <1>1, <1>4
  <2> QED
    BY <1>2, <1>4, <2>1
<1>5. ASSUME NEW i \in 1..((o + 1) - 1), i \notin strays
      PROVE  args[IF 1 + Before((1..n) \ strays, i) < first
                  THEN 1 + Before((1..n) \ strays, i)
                  ELSE 1 + Before((1..n) \ strays, i) + (last - first)] = all[i]
  <2>1. CASE i = o
    <3>1. /\ ~(1 + Before((1..n) \ strays, i) < first)
          /\ 1 + Before((1..n) \ strays, i) + (last - first) = o
      BY <1>1, <2>1
    <3>2. args[o] = all[o]
      BY <1>1, <1>2
    <3> QED
      BY <2>1, <3>1, <3>2
  <2>2. CASE i # o
    <3>1. i \in 1..(o - 1)
      BY <1>1, <2>2
    <3> QED
      BY <1>2, <1>5, <3>1
  <2> QED
    BY <2>1, <2>2
<1>6. \A i \in 1..((o + 1) - 1) :
        IF i \in strays THEN args[first + Before(strays, i)] = all[i]
        ELSE args[IF 1 + Before(DOMAIN all \ strays, i) < first
                  THEN 1 + Before(DOMAIN all \ strays, i)
                  ELSE 1 + Before(DOMAIN all \ strays, i) + (last - first)] = all[i]
  BY <1>4, <1>5
<1>7. /\ o + 1 \in Nat /\ last <= o + 1 /\ o + 1 <= n + 1
      /\ \A k \in (o + 1)..n : args[k] = all[k]
  BY <1>1, <1>2
<1> QED
  BY <1>1, <1>2, <1>3, <1>6, <1>7, Zenon DEF Laid

-------------------------------------------------------------------------------
(***************************************************************************)
(* The reference, element by element and letter by letter.                 *)
(***************************************************************************)
\* What the reference has read with each element.
LEMMA ReadingAt ==
    ASSUME NEW args \in CommandLines, NEW stopAtWord \in BOOLEAN
    PROVE  \A k \in 0..Len(args) :
              Reading(args, stopAtWord)[k] =
                LET read == Reading(args, stopAtWord) IN
                IF k = 0 THEN Goes(DefaultConfig)
                ELSE IF \/ read[k - 1].exit # NoExit \/ k >= Stop(args, stopAtWord)
                        \/ IsArgument(args)[k] \/ args[k].kind = "word"
                THEN read[k - 1]
                ELSE IF args[k].kind = "long" THEN ReadLong(args, k, read[k - 1].config)
                ELSE ReadShort(args, k, read[k - 1].config)
<1> DEFINE n == Len(args)
           Step(v, k) ==
             IF \/ v.exit # NoExit \/ k >= Stop(args, stopAtWord)
                \/ IsArgument(args)[k] \/ args[k].kind = "word"
             THEN v
             ELSE IF args[k].kind = "long" THEN ReadLong(args, k, v.config)
             ELSE ReadShort(args, k, v.config)
           Body(r, m) == [k \in 0..m |-> IF k = 0 THEN Goes(DefaultConfig) ELSE Step(r[k - 1], k)]
           S == {m \in Nat : \E r : r = Body(r, m)}
           read == CHOOSE r : r = Body(r, n)
<1>1. n \in Nat
  BY ArgsTyped
<1> HIDE DEF Step
<1>2. 0 \in S
  <2> DEFINE r == [k \in 0..0 |-> Goes(DefaultConfig)]
  <2>1. r = Body(r, 0)
    OBVIOUS
  <2> QED
    BY <2>1
<1>3. ASSUME NEW m \in Nat, m \in S
      PROVE  m + 1 \in S
  <2>1. PICK f : f = Body(f, m)
    BY <1>3
  <2> DEFINE g == [k \in 0..(m + 1) |-> IF k = m + 1 THEN Step(f[m], m + 1) ELSE f[k]]
  <2>2. ASSUME NEW k \in 0..(m + 1)
        PROVE  g[k] = IF k = 0 THEN Goes(DefaultConfig) ELSE Step(g[k - 1], k)
    <3>1. CASE k = m + 1
      <4>1. g[k] = Step(f[m], m + 1) /\ g[k - 1] = f[m] /\ k # 0
        BY <3>1
      <4> QED
        BY <3>1, <4>1
    <3>2. CASE k \in 0..m
      <4>1. g[k] = f[k] /\ (k # 0 => g[k - 1] = f[k - 1])
        BY <3>2
      <4>2. f[k] = IF k = 0 THEN Goes(DefaultConfig) ELSE Step(f[k - 1], k)
        BY <2>1, <3>2
      <4> QED
        BY <4>1, <4>2
    <3> QED
      BY <3>1, <3>2
  <2>3. g = Body(g, m + 1)
    <3>1. g = [k \in 0..(m + 1) |-> g[k]]
      OBVIOUS
    <3> HIDE DEF g
    <3> QED
      BY <2>2, <3>1
  <2> HIDE DEF g
  <2> QED
    BY <2>3
<1>4. n \in S
  <2> HIDE DEF S, n
  <2> QED
    BY <1>1, <1>2, <1>3, SetInduction
<1>5. read = Body(read, n)
  <2>1. \E r : r = Body(r, n)
    BY <1>4
  <2> HIDE DEF Body
  <2> QED
    BY <2>1, Zenon
<1>6. Reading(args, stopAtWord) = read
  BY Zenon DEF Reading, Step
<1> HIDE DEF read
<1>7. \A k \in 0..n : read[k] = IF k = 0 THEN Goes(DefaultConfig) ELSE Step(read[k - 1], k)
  BY <1>5
<1> QED
  BY <1>6, <1>7, Zenon DEF Step

\* What it has read with each letter of a cluster.
LEMMA ReadLettersAt ==
    ASSUME NEW args, NEW k, NEW settings, Len(args[k].letters) \in Nat
    PROVE  \A j \in 0..(Len(args[k].letters) + 1) :
              ReadLetters(args, k, settings)[j] =
                LET read == ReadLetters(args, k, settings)
                    letters == args[k].letters
                IN
                IF j = 0 THEN Goes(settings)
                ELSE IF \/ read[j - 1].exit # NoExit
                        \/ \E i \in 1..(j - 1) : RequiresArgument(letters[i])
                THEN read[j - 1]
                ELSE IF j <= Len(letters) THEN ReadLetter(args, k, j, read[j - 1].config)
                ELSE IF args[k].text = NoText THEN read[j - 1] ELSE Wrong(read[j - 1].config)
<1> DEFINE letters == args[k].letters
           n == Len(letters) + 1
           Step(v, j) ==
             IF v.exit # NoExit \/ \E i \in 1..(j - 1) : RequiresArgument(letters[i])
             THEN v
             ELSE IF j <= Len(letters) THEN ReadLetter(args, k, j, v.config)
             ELSE IF args[k].text = NoText THEN v ELSE Wrong(v.config)
           Body(r, m) == [j \in 0..m |-> IF j = 0 THEN Goes(settings) ELSE Step(r[j - 1], j)]
           S == {m \in Nat : \E r : r = Body(r, m)}
           read == CHOOSE r : r = Body(r, n)
<1>1. n \in Nat
  OBVIOUS
<1> HIDE DEF Step
<1>2. 0 \in S
  <2> DEFINE r == [j \in 0..0 |-> Goes(settings)]
  <2>1. r = Body(r, 0)
    OBVIOUS
  <2> QED
    BY <2>1
<1>3. ASSUME NEW m \in Nat, m \in S
      PROVE  m + 1 \in S
  <2>1. PICK f : f = Body(f, m)
    BY <1>3
  <2> DEFINE g == [j \in 0..(m + 1) |-> IF j = m + 1 THEN Step(f[m], m + 1) ELSE f[j]]
  <2>2. ASSUME NEW j \in 0..(m + 1)
        PROVE  g[j] = IF j = 0 THEN Goes(settings) ELSE Step(g[j - 1], j)
    <3>1. CASE j = m + 1
      <4>1. g[j] = Step(f[m], m + 1) /\ g[j - 1] = f[m] /\ j # 0
        BY <3>1
      <4> QED
        BY <3>1, <4>1
    <3>2. CASE j \in 0..m
      <4>1. g[j] = f[j] /\ (j # 0 => g[j - 1] = f[j - 1])
        BY <3>2
      <4>2. f[j] = IF j = 0 THEN Goes(settings) ELSE Step(f[j - 1], j)
        BY <2>1, <3>2
      <4> QED
        BY <4>1, <4>2
    <3> QED
      BY <3>1, <3>2
  <2>3. g = Body(g, m + 1)
    <3>1. g = [j \in 0..(m + 1) |-> g[j]]
      OBVIOUS
    <3> HIDE DEF g
    <3> QED
      BY <2>2, <3>1
  <2> HIDE DEF g
  <2> QED
    BY <2>3
<1>4. n \in S
  <2> HIDE DEF S, n
  <2> QED
    BY <1>1, <1>2, <1>3, SetInduction
<1>5. read = Body(read, n)
  <2>1. \E r : r = Body(r, n)
    BY <1>4
  <2> HIDE DEF Body
  <2> QED
    BY <2>1, Zenon
<1>6. ReadLetters(args, k, settings) = read
  BY Zenon DEF ReadLetters, Step
<1> HIDE DEF read
<1>7. \A j \in 0..n : read[j] = IF j = 0 THEN Goes(settings) ELSE Step(read[j - 1], j)
  BY <1>5
<1> QED
  BY <1>6, <1>7, Zenon DEF Step

\* Before its first letter a cluster has changed nothing.
LEMMA ReadNoLetter ==
    ASSUME NEW args, NEW k, NEW settings, Len(args[k].letters) \in Nat
    PROVE  ReadLetters(args, k, settings)[0] = Goes(settings)
<1>1. 0 \in 0..(Len(args[k].letters) + 1)
  OBVIOUS
<1>2. \A j \in 0..(Len(args[k].letters) + 1) :
        j = 0 => ReadLetters(args, k, settings)[j] = Goes(settings)
  BY ReadLettersAt, Zenon
<1> QED
  BY <1>1, <1>2

\* What is left for the caller: the words, and all behind --.
LEMMA StraysAt ==
    ASSUME NEW args \in CommandLines
    PROVE  /\ Strays(args) \in SUBSET (1..Len(args))
           /\ \A k \in 1..Len(args) :
                k \in Strays(args) <=> \/ k > Stop(args, FALSE)
                                       \/ ~IsArgument(args)[k] /\ args[k].kind = "word"
<1>1. DOMAIN args = 1..Len(args)
  BY ArgsTyped
<1>2. Strays(args) = {k \in DOMAIN args :
           k > Stop(args, FALSE) \/ (~IsArgument(args)[k] /\ args[k].kind = "word")}
  BY Zenon DEF Strays
<1> QED
  BY <1>1, <1>2, Zenon

\* Nothing is read from words, arguments of options, and what follows the end.
LEMMA ReadSame ==
    ASSUME NEW args \in CommandLines, NEW stopAtWord \in BOOLEAN,
           NEW p \in 0..Len(args), NEW q \in p..Len(args),
           \A k \in (p + 1)..q : \/ Reading(args, stopAtWord)[p].exit # NoExit
                                 \/ k >= Stop(args, stopAtWord)
                                 \/ IsArgument(args)[k] \/ args[k].kind = "word"
    PROVE  Reading(args, stopAtWord)[q] = Reading(args, stopAtWord)[p]
<1> DEFINE S == {d \in Nat : p + d <= q =>
                    Reading(args, stopAtWord)[p + d] = Reading(args, stopAtWord)[p]}
<1>1. Len(args) \in Nat /\ p \in Nat /\ q \in Nat /\ q - p \in Nat /\ p + 0 = p
  BY ArgsTyped
<1>2. 0 \in S
  BY <1>1
<1>3. ASSUME NEW d \in Nat, d \in S
      PROVE  d + 1 \in S
  <2> SUFFICES ASSUME p + (d + 1) <= q
               PROVE  Reading(args, stopAtWord)[p + (d + 1)] = Reading(args, stopAtWord)[p]
    OBVIOUS
  <2>1. PICK k : k = p + (d + 1)
    OBVIOUS
  <2>2. k \in 0..Len(args) /\ k \in (p + 1)..q /\ k # 0 /\ k - 1 = p + d
    BY <1>1, <2>1
  <2>3. Reading(args, stopAtWord)[k - 1] = Reading(args, stopAtWord)[p]
    BY <1>1, <1>3, <2>2
  <2>4. Reading(args, stopAtWord)[k] = Reading(args, stopAtWord)[k - 1]
    BY <2>2, <2>3, ReadingAt, Zenon
  <2> QED
    BY <2>1, <2>3, <2>4
<1>4. q - p \in S
  <2> HIDE DEF S
  <2> QED
    BY <1>1, <1>2, <1>3, SetInduction
<1>5. p + (q - p) = q
  BY <1>1
<1> QED
  BY <1>1, <1>4, <1>5

\* Behind a word there is no argument of an option.
LEMMA WordsTakeNothing ==
    ASSUME NEW args \in CommandLines,
           NEW o \in 1..(Len(args) + 1), NEW p \in o..(Len(args) + 1),
           o <= Len(args) => ~IsArgument(args)[o],
           \A k \in o..(p - 1) : args[k].kind = "word"
    PROVE  \A k \in o..p : k <= Len(args) => ~IsArgument(args)[k]
<1>1. Len(args) \in Nat
  BY ArgsTyped
<1>2. ASSUME NEW k \in o..p, k <= Len(args), k # o
      PROVE  ~IsArgument(args)[k]
  <2>1. k - 1 \in o..(p - 1) /\ k \in 0..Len(args)
    BY <1>1, <1>2
  <2>2. args[k - 1].kind = "word"
    BY <2>1
  <2>3. ~TakesNext(args[k - 1])
    BY <2>2 DEF TakesNext
  <2> QED
    BY <2>1, <2>3, IsArgumentAt, Zenon
<1> QED
  BY <1>2

-------------------------------------------------------------------------------
(***************************************************************************)
(* The steps of _getopt_internal_r that move elements.                     *)
(***************************************************************************)
\* The vector keeps its elements, and those not scanned yet stay in place.
LEMMA LaidLen ==
    ASSUME NEW all \in CommandLines, NEW strays, NEW args, NEW first, NEW last, NEW o,
           Laid(args, all, strays, first, last, o)
    PROVE  /\ Len(args) = Len(all) /\ DOMAIN args = 1..Len(all)
           /\ args \in [1..Len(all) -> {all[k] : k \in DOMAIN all}]
           /\ first \in Nat /\ last \in Nat /\ o \in Nat
           /\ 1 <= first /\ first <= last /\ last <= o /\ o <= Len(all) + 1
           /\ \A k \in o..Len(all) : args[k] = all[k]
<1>1. Len(all) \in Nat /\ DOMAIN all = 1..Len(all)
  BY ArgsTyped
<1>2. args \in [1..Len(all) -> {all[k] : k \in DOMAIN all}]
  BY <1>1 DEF Laid
<1>3. Len(args) = Len(all) /\ DOMAIN args = 1..Len(all)
  <2> DEFINE V == {all[k] : k \in DOMAIN all}
  <2> HIDE DEF V
  <2>1. ASSUME NEW n \in Nat, NEW a \in [1..n -> V]
        PROVE  Len(a) = n /\ DOMAIN a = 1..n
    OBVIOUS
  <2>2. args \in [1..Len(all) -> V]
    BY <1>2 DEF V
  <2> QED
    BY <1>1, <2>1, <2>2
<1> QED
  BY <1>1, <1>2, <1>3 DEF Laid

\* What OptionsFirst makes of the vector.
OptionsFirstGives(all, args, first, last, o, a, f, l) ==
    /\ OptionsFirst([argv |-> args, optind |-> o, first |-> first, last |-> last])
         = [argv |-> a, optind |-> o, first |-> f, last |-> l]
    /\ Laid(a, all, Strays(all), f, o, o)

\* Options that were found behind words are exchanged with them.
LEMMA OptionsFirstLays ==
    ASSUME NEW all \in CommandLines, NEW args, NEW first, NEW last, NEW o,
           Laid(args, all, Strays(all), first, last, o)
    PROVE  \E a, f, l : OptionsFirstGives(all, args, first, last, o, a, f, l)
<1> DEFINE s == [argv |-> args, optind |-> o, first |-> first, last |-> last]
           n == Len(all)
           V == {all[k] : k \in DOMAIN all}
<1>1. n \in Nat /\ DOMAIN all = 1..n /\ Strays(all) \in SUBSET (1..n)
  BY ArgsTyped, StraysAt
<1>2. /\ args \in [1..n -> V]
      /\ first \in Nat /\ last \in Nat /\ o \in Nat
      /\ 1 <= first /\ first <= last /\ last <= o /\ o <= n + 1
  BY LaidLen
<1> HIDE DEF V
<1>3. Laid(Rotated(args, first, last, o), all, Strays(all), first + (o - last), o, o)
  <2>1. Places(n, all, Strays(all))
    BY <1>1 DEF Places
  <2> QED
    BY <2>1, LaidRotated
<1>4. CASE first # last /\ last # o
  <2>1. Adjacent(n, V, args, first, last, o)
    BY <1>1, <1>2 DEF Adjacent
  <2>2. Exchange(args, first, last, o) = Rotated(args, first, last, o)
    BY <2>1, ExchangeRotates
  <2>3. OptionsFirst(s) = [argv |-> Rotated(args, first, last, o), optind |-> o,
                           first |-> first + (o - last), last |-> o]
    BY <1>4, <2>2 DEF OptionsFirst
  <2> QED
    BY <1>3, <1>4, <2>3 DEF OptionsFirstGives
<1>5. CASE first # last /\ last = o
  <2>1. OptionsFirst(s) = s
    BY <1>5 DEF OptionsFirst
  <2>2. first + (o - last) = first
    BY <1>2, <1>5
  <2> QED
    BY <1>5, <2>1, <2>2 DEF OptionsFirstGives
<1>6. CASE first = last
  <2>1. Adjacent(n, V, args, first, last, o)
    BY <1>1, <1>2 DEF Adjacent
  <2>2. Rotated(args, first, last, o) = args /\ first + (o - last) = o
    BY <1>2, <1>6, <2>1, RotatedEmpty
  <2>3. OptionsFirst(s) = [argv |-> args, optind |-> o, first |-> o, last |-> last]
    BY <1>6 DEF OptionsFirst
  <2> QED
    BY <1>3, <1>6, <2>2, <2>3 DEF OptionsFirstGives
<1> QED
  BY <1>4, <1>5, <1>6

\* The words that are skipped go up to the first element that is none.
SkippedFrom(n, a, o) == n \in Nat /\ o \in 1..(n + 1) /\ Len(a) = n /\ Len(argv) = n

\* p is the first place from o on that SkipWords does not pass.
SkippedTo(n, a, f, l, o, p) ==
    /\ p \in o..(n + 1)
    /\ SkipWords([argv |-> a, optind |-> o, first |-> f, last |-> l])
         = [argv |-> a, optind |-> p, first |-> f, last |-> p]
    /\ \A k \in o..(p - 1) : a[k].kind = "word"
    /\ p <= n => a[p].kind # "word"

\* The walk over words ends at the next option, or at the end.
LEMMA SkipWordsIs ==
    ASSUME NEW n, NEW a, NEW f, NEW l, NEW o, SkippedFrom(n, a, o)
    PROVE  \E p : SkippedTo(n, a, f, l, o, p)
<1> DEFINE s == [argv |-> a, optind |-> o, first |-> f, last |-> l]
           IsEnd(k) == ~IsWord(s, k) /\ \A j \in o..(k - 1) : IsWord(s, j)
           p == CHOOSE k \in o..(n + 1) : IsEnd(k)
<1>0. n \in Nat /\ o \in 1..(n + 1) /\ Len(a) = n /\ Len(argv) = n
  BY DEF SkippedFrom
<1>1. \A k \in Nat : IsWord(s, k) <=> k <= n /\ a[k].kind = "word"
  BY <1>0 DEF IsWord
<1>2. \E k \in o..(n + 1) : IsEnd(k)
  <2> DEFINE T == {k \in o..(n + 1) : ~IsWord(s, k)}
  <2>1. T \in SUBSET Nat /\ n + 1 \in T
    BY <1>0, <1>1
  <2> HIDE DEF T
  <2>2. PICK k \in T : \A j \in T : k <= j
    BY <2>1, LeastExists
  <2>3. k \in o..(n + 1) /\ ~IsWord(s, k) /\ \A j \in o..(n + 1) : ~IsWord(s, j) => k <= j
    BY <2>2 DEF T
  <2> HIDE DEF s
  <2>4. \A j \in o..(k - 1) : IsWord(s, j)
    BY <1>0, <2>3
  <2> QED
    BY <2>3, <2>4
<1>3. p \in o..(n + 1) /\ IsEnd(p)
  <2> HIDE DEF IsEnd
  <2> QED
    BY <1>2, Zenon
<1>4. SkipWords(s) = [argv |-> a, optind |-> p, first |-> f, last |-> p]
  <2>1. s.optind = o /\ Argc = n + 1
    BY <1>0 DEF Argc
  <2>2. SkipWords(s) = [s EXCEPT !.optind = p, !.last = p]
    BY <2>1, Zenon DEF SkipWords
  <2> HIDE DEF p
  <2> QED
    BY <2>2
<1> HIDE DEF p
<1>5. (\A k \in o..(p - 1) : a[k].kind = "word") /\ (p <= n => a[p].kind # "word")
  <2>1. p \in Nat /\ \A k \in o..(p - 1) : k \in Nat
    BY <1>0, <1>3
  <2> QED
    BY <1>1, <1>3, <2>1
<1> QED
  BY <1>3, <1>4, <1>5 DEF SkippedTo

\* The words that come next have been passed, and p is the element behind them.
Passed(p) ==
    /\ p \in optind..(Len(given) + 1)
    /\ \A k \in optind..(p - 1) : given[k].kind = "word"
    /\ p <= Len(given) => ~IsArgument(given)[p]
    /\ p <= Stop(given, posixly)

Scanned == [argv |-> argv, optind |-> optind, first |-> firstNonopt, last |-> lastNonopt]

\* So the vector is laid out as before when the scan has come to an option.
LEMMA PermutedLays ==
    ASSUME given \in CommandLines, posixly \in BOOLEAN,
           Laid(argv, given, Strays(given), firstNonopt, lastNonopt, optind),
           optind <= Len(given) => ~IsArgument(given)[optind],
           optind <= Stop(given, posixly),
           posixly => firstNonopt = lastNonopt
    PROVE  \E a, f, l, p :
             /\ (IF posixly THEN Scanned ELSE SkipWords(OptionsFirst(Scanned)))
                  = [argv |-> a, optind |-> p, first |-> f, last |-> l]
             /\ Passed(p)
             /\ Laid(a, given, Strays(given), f, l, p)
             /\ posixly => p = optind /\ f = l
             /\ ~posixly => l = p /\ (p <= Len(given) => given[p].kind # "word")
<1> DEFINE n == Len(given)
           S == Strays(given)
<1>1. n \in Nat /\ DOMAIN given = 1..n /\ S \in SUBSET (1..n)
  BY ArgsTyped, StraysAt
<1>2. Len(argv) = n /\ optind \in Nat /\ 1 <= optind /\ optind <= n + 1
  BY LaidLen
<1>3. CASE posixly
  <2>1. Passed(optind)
    BY <1>1, <1>2 DEF Passed
  <2> QED
    BY <1>3, <2>1 DEF Scanned
<1>4. CASE ~posixly
  <2>0. PICK a, f, l :
           OptionsFirstGives(given, argv, firstNonopt, lastNonopt, optind, a, f, l)
    BY OptionsFirstLays, Zenon
  <2>1. /\ OptionsFirst(Scanned) = [argv |-> a, optind |-> optind, first |-> f, last |-> l]
        /\ Laid(a, given, S, f, optind, optind)
    BY <2>0 DEF OptionsFirstGives, Scanned
  <2>2. Len(a) = n /\ \A k \in optind..n : a[k] = given[k]
    BY <2>1, LaidLen
  <2>3. PICK p \in optind..(n + 1) :
           /\ SkipWords(OptionsFirst(Scanned))
                = [argv |-> a, optind |-> p, first |-> f, last |-> p]
           /\ \A k \in optind..(p - 1) : a[k].kind = "word"
           /\ p <= n => a[p].kind # "word"
    <3>1. SkippedFrom(n, a, optind)
      BY <1>1, <1>2, <2>2 DEF SkippedFrom
    <3>2. PICK p : SkippedTo(n, a, f, l, optind, p)
      BY <3>1, SkipWordsIs, Zenon
    <3> QED
      BY <2>1, <3>2 DEF SkippedTo
  <2>4. /\ \A k \in optind..(p - 1) : k \in 1..n /\ given[k].kind = "word"
        /\ p <= n => given[p].kind # "word"
        /\ p \in Nat /\ optind <= p /\ p <= n + 1
    BY <1>1, <1>2, <2>2, <2>3
  <2>5. \A k \in optind..p : k <= n => ~IsArgument(given)[k]
    <3>1. optind \in 1..(n + 1)
      BY <1>1, <1>2
    <3> QED
      BY <2>3, <2>4, <3>1, WordsTakeNothing, Zenon
  <2>6. \A k \in optind..(p - 1) : k \in S
    <3> SUFFICES ASSUME NEW k \in optind..(p - 1)
                 PROVE  k \in S
      OBVIOUS
    <3>1. k \in optind..p /\ k <= n /\ k \in 1..n
      BY <1>1, <1>2, <2>4
    <3>2. ~IsArgument(given)[k] /\ given[k].kind = "word"
      BY <2>4, <2>5, <3>1
    <3> QED
      BY <3>1, <3>2, StraysAt
  <2>7. Laid(a, given, S, f, p, p)
    <3>1. Places(n, given, S)
      BY <1>1 DEF Places
    <3> QED
      BY <1>1, <2>1, <2>4, <2>6, <3>1, LaidPassed
  <2>8. p <= Stop(given, posixly)
    <3>1. PICK stop : stop = Stop(given, posixly)
      OBVIOUS
    <3>2. stop \in 1..(n + 1) /\ optind <= stop /\ (stop <= n => Stops(given, stop, posixly))
      BY <3>1, StopIsFirst
    <3>3. CASE stop < p
      <4>1. stop \in optind..(p - 1) /\ stop <= n
        BY <1>1, <2>4, <3>2, <3>3
      <4>2. given[stop].kind = "word" /\ Stops(given, stop, posixly)
        BY <2>4, <3>2, <4>1
      <4>3. given[stop] = Quote
        BY <1>4, <4>2, Zenon DEF Stops
      <4> QED
        BY <4>2, <4>3 DEF Quote
    <3> QED
      BY <1>1, <2>4, <3>1, <3>2, <3>3
  <2>9. Passed(p)
    <3>1. p \in optind..p
      BY <1>2, <2>4
    <3> QED
      BY <2>3, <2>4, <2>5, <2>8, <3>1 DEF Passed
  <2> QED
    BY <1>4, <2>3, <2>4, <2>7, <2>9
<1> QED
  BY <1>3, <1>4

\* Or to --, which ends the scan with all words at the end.
LEMMA NextElementLays ==
    ASSUME given \in CommandLines, posixly \in BOOLEAN,
           Laid(argv, given, Strays(given), firstNonopt, lastNonopt, optind),
           optind <= Len(given) => ~IsArgument(given)[optind],
           optind <= Stop(given, posixly),
           posixly => firstNonopt = lastNonopt
    PROVE  \E a, f, l, p :
             /\ Passed(p)
             /\ \/ /\ NextElement(Scanned) = [argv |-> a, optind |-> p, first |-> f, last |-> l]
                   /\ Laid(a, given, Strays(given), f, l, p)
                   /\ p <= Len(given) => given[p] # Quote
                   /\ posixly => f = l
                   /\ ~posixly => l = p /\ (p <= Len(given) => given[p].kind # "word")
                \/ /\ p <= Len(given) /\ given[p] = Quote
                   /\ NextElement(Scanned) = [argv |-> a, optind |-> Len(given) + 1,
                                              first |-> f, last |-> Len(given) + 1]
                   /\ Laid(a, given, Strays(given), f, Len(given) + 1, Len(given) + 1)
<1> DEFINE n == Len(given)
           S == Strays(given)
<1>1. n \in Nat /\ DOMAIN given = 1..n /\ S \in SUBSET (1..n)
  BY ArgsTyped, StraysAt
<1>2. Argc = n + 1
  BY LaidLen DEF Argc
<1>3. PICK a, f, l, p :
         /\ (IF posixly THEN Scanned ELSE SkipWords(OptionsFirst(Scanned)))
              = [argv |-> a, optind |-> p, first |-> f, last |-> l]
         /\ Passed(p)
         /\ Laid(a, given, S, f, l, p)
         /\ posixly => p = optind /\ f = l
         /\ ~posixly => l = p /\ (p <= n => given[p].kind # "word")
  BY PermutedLays
<1> DEFINE permuted == [argv |-> a, optind |-> p, first |-> f, last |-> l]
<1>4. NextElement(Scanned) =
        IF p < n + 1 /\ a[p] = Quote THEN PassQuote(permuted) ELSE permuted
  BY <1>2, <1>3 DEF NextElement, RequireOrder
<1>5. /\ p \in Nat /\ 1 <= p /\ p <= n + 1
      /\ p <= n => a[p] = given[p]
  BY <1>1, <1>3, LaidLen
<1>6. CASE ~(p <= n /\ given[p] = Quote)
  <2>1. NextElement(Scanned) = permuted
    BY <1>1, <1>4, <1>5, <1>6
  <2> QED
    BY <1>3, <1>6, <2>1
<1>7. CASE p <= n /\ given[p] = Quote
  <2>1. NextElement(Scanned) = PassQuote(permuted)
    BY <1>1, <1>4, <1>5, <1>7
  <2>2. p \in 1..n /\ ~IsArgument(given)[p] /\ given[p].kind # "word" /\ p <= Stop(given, posixly)
    BY <1>1, <1>3, <1>5, <1>7 DEF Passed, Quote
  <2>3. Stop(given, FALSE) = p
    <3>1. PICK stop, word : stop = Stop(given, FALSE) /\ word = Stop(given, TRUE)
      OBVIOUS
    <3>2. Stops(given, p, FALSE)
      BY <1>7, <2>2, Zenon DEF Stops
    <3>3. stop <= p
      BY <2>2, <3>1, <3>2, StopIsFirst, Zenon
    <3>4. p <= stop \/ p <= word
      BY <2>2, <3>1, Zenon
    <3>5. stop \in 1..(n + 1) /\ word \in 1..(n + 1) /\ word <= stop
      BY <3>1, StopIsFirst, StopAtWordFirst, Zenon
    <3>6. stop = p
      BY <1>1, <1>5, <3>3, <3>4, <3>5
    <3> QED
      BY <3>1, <3>6
  <2>4. p \notin S
    <3>1. ~(p > p)
      BY <1>5
    <3> QED
      BY <2>2, <2>3, <3>1, StraysAt, Zenon
  <2>5. Laid(a, given, S, f, l, p + 1)
    <3>1. Places(n, given, S)
      BY <1>1 DEF Places
    <3> QED
      BY <1>3, <1>7, <2>4, <3>1, LaidOption
  <2>6. PICK b, g, m : OptionsFirstGives(given, a, f, l, p + 1, b, g, m)
    BY <2>5, OptionsFirstLays, Zenon
  <2>7. PassQuote(permuted) = [argv |-> b, optind |-> n + 1, first |-> g, last |-> n + 1]
    <3>1. [permuted EXCEPT !.optind = @ + 1] = [argv |-> a, optind |-> p + 1, first |-> f, last |-> l]
      OBVIOUS
    <3>2. PassQuote(permuted) =
            [[argv |-> b, optind |-> p + 1, first |-> g, last |-> m]
               EXCEPT !.last = n + 1, !.optind = n + 1]
      BY <1>2, <2>6, <3>1 DEF PassQuote, OptionsFirstGives
    <3> QED
      BY <3>2
  <2>8. \A k \in (p + 1)..(n + 1 - 1) : k \in S
    <3> SUFFICES ASSUME NEW k \in (p + 1)..(n + 1 - 1)
                 PROVE  k \in S
      OBVIOUS
    <3>1. k \in 1..n /\ k > p
      BY <1>1, <1>5
    <3> QED
      BY <2>3, <3>1, StraysAt, Zenon
  <2>9. Laid(b, given, S, g, n + 1, n + 1)
    <3>1. p + 1 <= n + 1 /\ n + 1 <= n + 1 /\ n + 1 \in Nat
      BY <1>1, <1>5, <1>7
    <3>2. Places(n, given, S)
      BY <1>1 DEF Places
    <3> QED
      BY <2>6, <2>8, <3>1, <3>2, LaidPassed DEF OptionsFirstGives
  <2> QED
    BY <1>3, <1>7, <2>1, <2>7, <2>9
<1> QED
  BY <1>6, <1>7

\* The strays stand from place f on in the vector a, behind the others.
StraysLast(all, a, f) ==
    /\ f \in 1..(Len(all) + 1)
    /\ f <= Len(all) <=> Strays(all) # {}
    /\ f = Cardinality(DOMAIN all \ Strays(all)) + 1
    /\ \A i \in DOMAIN all \ Strays(all) :
         a[1 + Before(DOMAIN all \ Strays(all), i)] = all[i]
    /\ \A i \in Strays(all) : a[f + Before(Strays(all), i)] = all[i]

\* When nothing is left to be scanned, the strays come last.
LEMMA LaidEnds ==
    ASSUME NEW all \in CommandLines, NEW a, NEW f, NEW o,
           Laid(a, all, Strays(all), f, o, o), o = Len(all) + 1
    PROVE  StraysLast(all, a, f)
<1> DEFINE n == Len(all)
           strays == Strays(all)
           others == (1..n) \ strays
<1>1. n \in Nat /\ DOMAIN all = 1..n /\ strays \in SUBSET (1..n)
  BY ArgsTyped, StraysAt
<1> HIDE DEF strays
<1>0. PICK l : l = o
  OBVIOUS
<1>2. /\ f \in Nat /\ l \in Nat /\ o \in Nat
      /\ 1 <= f /\ f <= l /\ l <= o
      /\ Before(strays, o) = l - f
      /\ Before(others, o) = o - 1 - (l - f)
      /\ \A i \in 1..(o - 1) :
           /\ Before(strays, i) \in Nat /\ Before(others, i) \in Nat
           /\ i \in strays => Before(strays, i) < l - f
           /\ i \notin strays => Before(others, i) < o - 1 - (l - f)
  <2>1. Laid(a, all, strays, f, l, o) /\ Places(n, all, strays)
    BY <1>1, <1>0 DEF strays, Places
  <2>2. Tallies(n, strays, f, l, o)
    BY <2>1, LaidCounts
  <2> HIDE DEF n
  <2> QED
    BY <2>2 DEF Tallies
<1>3. \A i \in 1..(o - 1) :
        IF i \in strays THEN a[f + Before(strays, i)] = all[i]
        ELSE a[IF 1 + Before(others, i) < f THEN 1 + Before(others, i)
               ELSE 1 + Before(others, i) + (l - f)] = all[i]
  <2>1. Laid(a, all, strays, f, l, o) /\ DOMAIN all = 1..n
    BY <1>1, <1>0 DEF strays
  <2> HIDE DEF n
  <2> QED
    BY <1>2, <2>1 DEF Laid
<1>4. o - 1 = n
  BY <1>1, <1>0
<1>5. others \in SUBSET (1..n) /\ DOMAIN all \ strays = others
  BY <1>1
<1>6. Cardinality(strays) = n + 1 - f /\ Cardinality(others) + 1 = f
  <2>1. Before(strays, o) = Cardinality(strays) /\ Before(others, o) = Cardinality(others)
    BY <1>1, <1>5, <1>0, BeforeAll
  <2>2. PICK d, m : d = Cardinality(strays) /\ m = Cardinality(others)
    OBVIOUS
  <2>3. d = l - f /\ m = o - 1 - (l - f) /\ l = o
    BY <1>2, <1>0, <2>1, <2>2, Zenon
  <2>4. d = n + 1 - f /\ m + 1 = f
    BY <1>1, <1>2, <1>0, <2>3
  <2> QED
    BY <2>2, <2>4, Zenon
<1>7. f <= n <=> strays # {}
  <2>1. IsFiniteSet(strays)
    <3>1. IsFiniteSet(1..n)
      BY <1>1, FS_Interval
    <3> QED
      BY <1>1, <3>1, FS_Subset
  <2>2. Cardinality(strays) = 0 <=> strays = {}
    BY <2>1, FS_EmptySet
  <2>3. f <= n <=> n + 1 - f # 0
    BY <1>1, <1>2, <1>0
  <2> QED
    BY <1>6, <2>2, <2>3, Zenon
<1>8. ASSUME NEW i \in others
      PROVE  a[1 + Before(others, i)] = all[i]
  <2>1. i \in 1..(o - 1) /\ i \notin strays
    BY <1>4
  <2> HIDE DEF others
  <2>2. PICK c : c = Before(others, i)
    OBVIOUS
  <2>3. c \in Nat /\ c < o - 1 - (l - f)
    BY <1>2, <2>1, <2>2
  <2>4. 1 + c < f
    BY <1>1, <1>2, <1>0, <2>3
  <2> QED
    BY <1>3, <2>1, <2>2, <2>4
<1>9. ASSUME NEW i \in strays
      PROVE  a[f + Before(strays, i)] = all[i]
  <2>1. i \in 1..(o - 1)
    BY <1>1, <1>4
  <2> QED
    BY <1>3, <2>1
<1>10. f \in 1..(n + 1)
  BY <1>1, <1>2, <1>0
<1> QED
  BY <1>5, <1>6, <1>7, <1>8, <1>9, <1>10 DEF strays, StraysLast

\* When words end the reading, none of the elements before was a stray.
LEMMA LaidWithoutStrays ==
    ASSUME NEW all \in CommandLines, NEW a, NEW f, NEW o,
           Laid(a, all, Strays(all), f, f, o), o = Len(all) + 1
    PROVE  Strays(all) = {}
<1>1. /\ Len(all) \in Nat /\ DOMAIN all = 1..Len(all)
      /\ Strays(all) \in SUBSET (1..Len(all)) /\ f \in Nat
  BY ArgsTyped, StraysAt, LaidLen
<1>2. Before(Strays(all), Len(all) + 1) = f - f
  BY Zenon DEF Laid
<1>3. Cardinality(Strays(all)) = 0
  BY <1>1, <1>2, BeforeAll
<1>4. IsFiniteSet(Strays(all))
  <2>1. IsFiniteSet(1..Len(all))
    BY <1>1, FS_Interval
  <2> QED
    BY <1>1, <2>1, FS_Subset
<1> QED
  BY <1>3, <1>4, FS_EmptySet

\* What Advance does, when the next element is at place q of the vector a.
NextIs(a, q, f, l) ==
    NextElement(Scanned) = [argv |-> a, optind |-> q, first |-> f, last |-> l]

AdvanceTo(a, q, f, l) ==
    /\ argv' = a /\ firstNonopt' = f /\ lastNonopt' = l
    /\ optind' = IF q = Argc /\ f # l THEN f ELSE q
    /\ LET ends == q = Argc \/ (q <= Len(a) /\ a[q].kind = "word")
       IN  /\ pc' = IF ends THEN "arguments" ELSE a[q].kind
           /\ nextchar' = IF ~ends /\ a[q].kind = "short"
                          THEN [letters |-> a[q].letters, text |-> a[q].text]
                          ELSE NothingLeft
    /\ given' = given /\ posixly' = posixly /\ config' = config /\ exit' = exit

\* Advance is the step to what NextElement finds.
LEMMA AdvanceSteps ==
    ASSUME Advance, NEW a, NEW q, NEW f, NEW l, NextIs(a, q, f, l)
    PROVE  AdvanceTo(a, q, f, l)
<1>1. PICK s : /\ s = NextElement(Scanned)
               /\ s = [argv |-> a, optind |-> q, first |-> f, last |-> l]
  BY DEF NextIs
<1>2. s.argv = a /\ s.optind = q /\ s.first = f /\ s.last = l
  BY <1>1
<1>3. /\ argv' = s.argv /\ firstNonopt' = s.first /\ lastNonopt' = s.last
      /\ optind' = IF s.optind = Argc /\ s.first # s.last THEN s.first ELSE s.optind
      /\ LET ends == s.optind = Argc \/ IsWord(s, s.optind)
         IN  /\ pc' = IF ends THEN "arguments" ELSE s.argv[s.optind].kind
             /\ nextchar' = IF ~ends /\ s.argv[s.optind].kind = "short"
                            THEN [letters |-> s.argv[s.optind].letters,
                                  text |-> s.argv[s.optind].text]
                            ELSE NothingLeft
  BY <1>1, Zenon DEF Advance, Scanned
<1>4. given' = given /\ posixly' = posixly /\ config' = config /\ exit' = exit
  BY DEF Advance, environment
<1>5. IsWord(s, s.optind) <=> q <= Len(a) /\ a[q].kind = "word"
  BY <1>2, Zenon DEF IsWord
<1> QED
  BY <1>2, <1>3, <1>4, <1>5, Zenon DEF AdvanceTo

\* It reads nothing: the reference is where the code is.
LEMMA AdvanceKeeps ==
    ASSUME ParseInv, Advance
    PROVE  ParseInv' /\ pc' \in {"long", "short", "arguments"}
<1> DEFINE n == Len(given)
           S == Strays(given)
           R == Reading(given, posixly)
<1>1. /\ given \in CommandLines /\ posixly \in BOOLEAN
      /\ pc = "scan" /\ nextchar = NothingLeft /\ exit = NoExit
      /\ Laid(argv, given, S, firstNonopt, lastNonopt, optind)
      /\ optind <= n => ~IsArgument(given)[optind]
      /\ optind <= Stop(given, posixly)
      /\ posixly => firstNonopt = lastNonopt
      /\ Settled(optind - 1)
  BY DEF ParseInv, ScanInv, Advance
<1>2. PICK a, f, l, p :
         /\ Passed(p)
         /\ \/ /\ NextIs(a, p, f, l)
               /\ Laid(a, given, S, f, l, p)
               /\ p <= n => given[p] # Quote
               /\ posixly => f = l
               /\ ~posixly => l = p /\ (p <= n => given[p].kind # "word")
            \/ /\ p <= n /\ given[p] = Quote
               /\ NextIs(a, n + 1, f, n + 1)
               /\ Laid(a, given, S, f, n + 1, n + 1)
  BY <1>1, NextElementLays DEF NextIs
<1>3. n \in Nat /\ DOMAIN given = 1..n /\ Argc = n + 1 /\ optind \in Nat /\ 1 <= optind
  BY <1>1, ArgsTyped, LaidLen DEF Argc
<1>4. /\ p \in Nat /\ optind <= p /\ p <= n + 1
      /\ \A k \in optind..(p - 1) : given[k].kind = "word"
      /\ p <= n => ~IsArgument(given)[p]
      /\ p <= Stop(given, posixly)
  BY <1>2, <1>3 DEF Passed
<1>5. R[p - 1].config = config /\ R[p - 1].exit = NoExit
  <2>1. R[optind - 1].config = config /\ R[optind - 1].exit = NoExit
    BY <1>1 DEF Settled
  <2>2. /\ optind - 1 \in 0..n /\ p - 1 \in (optind - 1)..n
        /\ \A k \in (optind - 1 + 1)..(p - 1) : given[k].kind = "word"
    BY <1>3, <1>4
  <2>3. R[p - 1] = R[optind - 1]
    BY <1>1, <2>2, ReadSame
  <2> QED
    BY <2>1, <2>3
<1>6. CASE /\ p <= n /\ given[p] # Quote /\ given[p].kind # "word"
           /\ NextIs(a, p, f, l)
           /\ Laid(a, given, S, f, l, p)
           /\ posixly => f = l
  <2>1. Len(a) = n /\ a[p] = given[p] /\ p \in 1..n
    BY <1>1, <1>3, <1>4, <1>6, LaidLen
  <2>2. IsElement(given[p])
    BY <1>1, <2>1, ArgsTyped
  <2>3. /\ given[p].kind \in {"long", "short"}
        /\ given[p].kind = "short" => /\ given[p].letters \in Seq(STRING)
                                      /\ given[p].letters # <<>> \/ given[p].text # NoText
    BY <1>6, <2>2, ElementKinds
  <2>4. /\ argv' = a /\ firstNonopt' = f /\ lastNonopt' = l /\ optind' = p
        /\ pc' = given[p].kind
        /\ nextchar' = IF given[p].kind = "short"
                       THEN [letters |-> given[p].letters, text |-> given[p].text]
                       ELSE NothingLeft
        /\ given' = given /\ posixly' = posixly /\ config' = config /\ exit' = exit
    <3>1. p # Argc
      BY <1>3, <2>1
    <3>2. AdvanceTo(a, p, f, l)
      BY <1>6, AdvanceSteps, Zenon
    <3> QED
      BY <1>6, <2>1, <2>3, <3>1, <3>2 DEF AdvanceTo
  <2>5. given[p].kind = "long" => nextchar' = NothingLeft
    BY <2>4
  <2>6. CASE given[p].kind = "short"
    <3>1. nextchar' # NothingLeft
      BY <2>3, <2>4, <2>6 DEF NothingLeft
    <3>2. Len(given[p].letters) \in Nat /\ SubSeq(given[p].letters, 1, Len(given[p].letters)) = given[p].letters
      BY <2>3, <2>6, SubSeqFull
    <3>3. ReadLetters(given, p, R[p - 1].config)[0] = Goes(R[p - 1].config)
      BY <3>2, ReadNoLetter, Zenon
    <3>4. InCluster(0)'
      BY <1>5, <2>4, <2>6, <3>2, <3>3 DEF InCluster, Goes
    <3>5. ScanInv'
      BY <1>1, <1>4, <1>6, <2>1, <2>4, <2>6, <3>1, <3>2, <3>4 DEF ScanInv
    <3> QED
      BY <1>1, <2>4, <2>6, <3>5 DEF ParseInv, ArgumentsInv, MainInv, PhaseInv
  <2>7. CASE given[p].kind = "long"
    <3>1. Settled(p - 1)'
      BY <1>5, <2>4 DEF Settled
    <3>2. ScanInv'
      BY <1>1, <1>4, <1>6, <2>1, <2>4, <2>5, <2>7, <3>1 DEF ScanInv
    <3> QED
      BY <1>1, <2>4, <2>7, <3>2 DEF ParseInv, ArgumentsInv, MainInv, PhaseInv
  <2> QED
    BY <2>3, <2>6, <2>7
<1>7. ASSUME argv' = a, given' = given, posixly' = posixly, config' = config, exit' = exit,
             pc' = "arguments",
             Len(a) = n, optind' \in 1..(n + 1), optind' <= n <=> S # {},
             \A k \in p..n : \/ k >= Stop(given, posixly)
                             \/ IsArgument(given)[k] \/ given[k].kind = "word",
             ~posixly =>
               /\ optind' = Cardinality(DOMAIN given \ S) + 1
               /\ \A i \in DOMAIN given \ S : a[1 + Before(DOMAIN given \ S, i)] = given[i]
               /\ \A i \in S : a[optind' + Before(S, i)] = given[i]
      PROVE  ParseInv' /\ pc' \in {"long", "short", "arguments"}
  <2>1. R[n] = R[p - 1]
    <3>1. p - 1 \in 0..n /\ n \in (p - 1)..n /\ p - 1 + 1 = p
      BY <1>3, <1>4
    <3> QED
      BY <1>1, <1>7, <3>1, ReadSame
  <2>2. Settled(n)'
    BY <1>5, <1>7, <2>1 DEF Settled
  <2>3. PermutedStably'
    BY <1>7 DEF PermutedStably
  <2>4. ArgumentsInv'
    BY <1>1, <1>7, <2>2, <2>3 DEF ArgumentsInv
  <2> QED
    BY <1>1, <1>7, <2>4 DEF ParseInv, ScanInv, MainInv, PhaseInv
<1>8. CASE /\ p = n + 1
           /\ NextIs(a, p, f, l)
           /\ Laid(a, given, S, f, l, p)
           /\ posixly => f = l
           /\ ~posixly => l = p
  <2>1. Len(a) = n
    BY <1>1, <1>8, LaidLen
  <2>2. /\ argv' = a /\ optind' = IF f # l THEN f ELSE p
        /\ pc' = "arguments"
        /\ given' = given /\ posixly' = posixly /\ config' = config /\ exit' = exit
    <3>1. AdvanceTo(a, p, f, l)
      BY <1>8, AdvanceSteps, Zenon
    <3> QED
      BY <1>3, <1>8, <3>1 DEF AdvanceTo
  <2>3. \A k \in p..n : FALSE
    BY <1>3, <1>8
  <2>4. CASE posixly
    <3>1. S = {}
      <4>1. Laid(a, given, S, f, f, p)
        BY <1>8, <2>4, Zenon
      <4> QED
        BY <1>1, <1>8, <4>1, LaidWithoutStrays
    <3>2. optind' = n + 1
      BY <1>8, <2>2, <2>4, Zenon
    <3>3. n + 1 \in 1..(n + 1) /\ ~(n + 1 <= n)
      BY <1>3
    <3> QED
      BY <1>7, <2>1, <2>2, <2>3, <2>4, <3>1, <3>2, <3>3, Zenon
  <2>5. CASE ~posixly
    <3>1. optind' = f
      BY <1>8, <2>2, <2>5, Zenon
    <3>2. StraysLast(given, a, f)
      <4>1. Laid(a, given, S, f, p, p)
        BY <1>8, <2>5, Zenon
      <4> QED
        BY <1>1, <1>8, <4>1, LaidEnds
    <3> QED
      BY <1>7, <2>1, <2>2, <2>3, <3>1, <3>2, Zenon DEF StraysLast
  <2> QED
    BY <2>4, <2>5
<1>9. CASE /\ p <= n /\ given[p].kind = "word" /\ posixly
           /\ NextIs(a, p, f, l)
           /\ Laid(a, given, S, f, l, p)
  <2>0. Laid(a, given, S, f, l, p)
    BY <1>9, Zenon
  <2>1. Len(a) = n /\ a[p] = given[p] /\ p \in 1..n
    <3>1. Len(a) = n /\ \A k \in p..n : a[k] = given[k]
      BY <1>1, <2>0, LaidLen
    <3> QED
      BY <1>3, <1>4, <1>9, <3>1
  <2>2. /\ argv' = a /\ optind' = p
        /\ pc' = "arguments"
        /\ given' = given /\ posixly' = posixly /\ config' = config /\ exit' = exit
    <3>1. p # Argc
      BY <1>3, <2>1
    <3> QED
      BY <1>9, <2>1, <3>1, AdvanceSteps, Zenon DEF AdvanceTo
  <2>3. p \in S
    BY <1>1, <1>4, <1>9, <2>1, StraysAt
  <2>4. \A k \in p..n : k >= Stop(given, posixly)
    <3>1. Stops(given, p, posixly)
      BY <1>4, <1>9, Zenon DEF Stops
    <3>2. PICK stop : stop = Stop(given, posixly)
      OBVIOUS
    <3>3. stop <= p /\ stop \in 1..(n + 1)
      BY <1>1, <2>1, <3>1, <3>2, StopIsFirst, Zenon
    <3>4. \A k \in p..n : k >= stop
      BY <1>3, <2>1, <3>3
    <3> QED
      BY <3>2, <3>4
  <2>5. p \in 1..(n + 1)
    BY <2>1
  <2> QED
    BY <1>7, <1>9, <2>1, <2>2, <2>3, <2>4, <2>5
<1>10. CASE /\ p <= n /\ given[p] = Quote
            /\ NextIs(a, n + 1, f, n + 1)
            /\ Laid(a, given, S, f, n + 1, n + 1)
  <2>0. PICK o : o = n + 1 /\ Laid(a, given, S, f, o, o)
    BY <1>10
  <2>1. Len(a) = n
    BY <1>1, <2>0, LaidLen
  <2>2. /\ argv' = a /\ optind' = IF f # n + 1 THEN f ELSE n + 1
        /\ pc' = "arguments"
        /\ given' = given /\ posixly' = posixly /\ config' = config /\ exit' = exit
    <3>1. AdvanceTo(a, n + 1, f, n + 1)
      BY <1>10, AdvanceSteps, Zenon
    <3> QED
      BY <1>3, <3>1 DEF AdvanceTo
  <2>3. optind' = f
    BY <2>2
  <2>4. StraysLast(given, a, f)
    BY <1>1, <2>0, LaidEnds
  <2>5. \A k \in p..n : k >= Stop(given, posixly)
    <3>1. Stops(given, p, posixly)
      BY <1>4, <1>10, Zenon DEF Stops
    <3>2. PICK stop : stop = Stop(given, posixly)
      OBVIOUS
    <3>3. stop <= p /\ stop \in 1..(n + 1)
      <4>1. p \in 1..n
        BY <1>3, <1>4, <1>10
      <4> QED
        BY <1>1, <3>1, <3>2, <4>1, StopIsFirst, Zenon
    <3>4. \A k \in p..n : k >= stop
      BY <1>3, <1>4, <3>3
    <3> QED
      BY <3>2, <3>4
  <2> QED
    BY <1>7, <2>1, <2>2, <2>3, <2>4, <2>5 DEF StraysLast
<1> QED
  <2>1. p <= n \/ p = n + 1
    BY <1>3, <1>4
  <2> QED
    BY <1>2, <1>6, <1>8, <1>9, <1>10, <2>1

\* The other branch of the scan: the cluster goes on.
LEMMA ContinueKeeps ==
    ASSUME ParseInv, Continue
    PROVE  ParseInv'
<1>1. /\ pc = "scan" /\ nextchar # NothingLeft /\ pc' = "short"
      /\ argv' = argv /\ optind' = optind
      /\ firstNonopt' = firstNonopt /\ lastNonopt' = lastNonopt
      /\ nextchar' = nextchar /\ posixly' = posixly /\ given' = given
      /\ config' = config /\ exit' = exit
  BY DEF Continue, scanVars, environment
<1>2. \A j : InCluster(j)' <=> InCluster(j)
  BY <1>1 DEF InCluster
<1>3. ScanInv'
  BY <1>1, <1>2 DEF ParseInv, ScanInv
<1> QED
  BY <1>1, <1>3 DEF ParseInv, ArgumentsInv, MainInv, PhaseInv

\* The element at place k is an option, and those before it have been read.
AtOption(k) ==
    /\ given \in CommandLines /\ posixly \in BOOLEAN
    /\ k \in 1..Len(given) /\ given[k].kind \in {"long", "short"}
    /\ Laid(argv, given, Strays(given), firstNonopt, lastNonopt, k)
    /\ posixly => firstNonopt = lastNonopt
    /\ argv[k] = given[k] /\ Argc = Len(given) + 1
    /\ ~IsArgument(given)[k]
    /\ k < Stop(given, posixly)
    /\ k \notin Strays(given)
    /\ Reading(given, posixly)[k] =
         LET settings == Reading(given, posixly)[k - 1].config
         IN  IF given[k].kind = "long" THEN ReadLong(given, k, settings)
             ELSE ReadShort(given, k, settings)

\* Where getopt has an option to return, the reference has one to read.
LEMMA OptionIsRead ==
    ASSUME ParseInv, pc \in {"long", "short"}
    PROVE  AtOption(optind)
<1> DEFINE n == Len(given)
           R == Reading(given, posixly)
<1>1. /\ given \in CommandLines /\ posixly \in BOOLEAN
      /\ Laid(argv, given, Strays(given), firstNonopt, lastNonopt, optind)
      /\ optind <= n /\ ~IsArgument(given)[optind]
      /\ optind <= Stop(given, posixly)
      /\ posixly => firstNonopt = lastNonopt
      /\ given[optind].kind \in {"long", "short"}
      /\ R[optind - 1].exit = NoExit
  BY DEF ParseInv, ScanInv, InCluster, Settled
<1>2. n \in Nat /\ DOMAIN given = 1..n
  BY <1>1, ArgsTyped
<1>3. PICK k : k = optind
  OBVIOUS
<1>4. k \in 1..n /\ argv[k] = given[k] /\ Argc = n + 1
  BY <1>1, <1>2, <1>3, LaidLen DEF Argc
<1>5. given[k].kind # "word" /\ given[k] # Quote
  BY <1>1, <1>3 DEF Quote
<1>6. k < Stop(given, posixly)
  <2>1. ~Stops(given, k, posixly)
    BY <1>5 DEF Stops
  <2>2. PICK stop : stop = Stop(given, posixly)
    OBVIOUS
  <2>3. stop \in 1..(n + 1) /\ (stop <= n => Stops(given, stop, posixly))
    BY <1>1, <2>2, StopIsFirst, Zenon
  <2>4. k <= stop
    BY <1>1, <1>3, <2>2
  <2>5. stop # k
    BY <1>4, <2>1, <2>3
  <2>6. k < stop
    BY <1>2, <1>4, <2>3, <2>4, <2>5
  <2> QED
    BY <2>2, <2>6, Zenon
<1>7. k \notin Strays(given)
  <2>1. PICK stop, quote, word :
          stop = Stop(given, posixly) /\ quote = Stop(given, FALSE) /\ word = Stop(given, TRUE)
    OBVIOUS
  <2>2. /\ stop \in 1..(n + 1) /\ quote \in 1..(n + 1)
        /\ word <= quote /\ (stop = quote \/ stop = word)
    BY <1>1, <2>1, StopIsFirst, StopAtWordFirst, Zenon
  <2>3. k < stop
    BY <1>6, <2>1, Zenon
  <2>4. ~(k > quote)
    BY <1>2, <1>4, <2>2, <2>3
  <2> QED
    BY <1>1, <1>4, <1>5, <2>1, <2>4, StraysAt, Zenon
<1>8. k # 0 /\ k \in 0..n /\ ~(k >= Stop(given, posixly))
  <2>1. PICK stop : stop = Stop(given, posixly)
    OBVIOUS
  <2>2. stop \in 1..(n + 1)
    BY <1>1, <2>1, StopIsFirst, Zenon
  <2> QED
    BY <1>4, <1>6, <2>1, <2>2
<1>9. R[k] = LET settings == R[k - 1].config
             IN  IF given[k].kind = "long" THEN ReadLong(given, k, settings)
                 ELSE ReadShort(given, k, settings)
  BY <1>1, <1>3, <1>5, <1>8, ReadingAt, Zenon
<1> QED
  BY <1>1, <1>3, <1>4, <1>6, <1>7, <1>9, Zenon DEF AtOption

\* Once an element is in error, or prints the help, the reference goes no further.
LEMMA ReadingEnds ==
    ASSUME NEW k, AtOption(k), Reading(given, posixly)[k].exit # NoExit,
           exit' = Reading(given, posixly)[k].exit, pc' = "ended",
           given' = given, posixly' = posixly
    PROVE  ParseInv'
<1> DEFINE n == Len(given)
           R == Reading(given, posixly)
<1>1. given \in CommandLines /\ posixly \in BOOLEAN /\ k \in 1..n /\ n \in Nat
  BY ArgsTyped DEF AtOption
<1>2. R[n] = R[k]
  <2>1. k \in 0..n /\ n \in k..n
    BY <1>1
  <2> QED
    BY <1>1, <2>1, ReadSame
<1>3. Expected' = R[n]
  BY <1>2 DEF Expected
<1> QED
  BY <1>1, <1>2, <1>3 DEF ParseInv, PhaseInv, ScanInv, ArgumentsInv, MainInv

\* An option that is read where it stands.
LEMMA ReadingGoes ==
    ASSUME NEW k, AtOption(k), ~TakesNext(given[k]),
           Reading(given, posixly)[k].exit = NoExit,
           Reading(given, posixly)[k].config = config',
           exit' = NoExit, pc' = "scan", optind' = k + 1, nextchar' = NothingLeft,
           argv' = argv, firstNonopt' = firstNonopt, lastNonopt' = lastNonopt,
           given' = given, posixly' = posixly
    PROVE  ParseInv'
<1> DEFINE n == Len(given)
           R == Reading(given, posixly)
<1>1. given \in CommandLines /\ posixly \in BOOLEAN /\ k \in 1..n /\ n \in Nat /\ DOMAIN given = 1..n
  BY ArgsTyped DEF AtOption
<1>2. Laid(argv, given, Strays(given), firstNonopt, lastNonopt, k + 1)
  <2>1. Places(n, given, Strays(given))
    BY <1>1, StraysAt DEF Places
  <2> QED
    BY <1>1, <2>1, LaidOption DEF AtOption
<1>3. PICK o : o = k + 1
  OBVIOUS
<1>4. o <= n => ~IsArgument(given)[o]
  <2>1. SUFFICES ASSUME o <= n
                 PROVE  ~IsArgument(given)[o]
    OBVIOUS
  <2>2. o \in 0..n /\ o - 1 = k
    BY <1>1, <1>3, <2>1
  <2> QED
    BY <1>1, <2>2, IsArgumentAt, Zenon
<1>5. o <= Stop(given, posixly)
  <2>1. PICK stop : stop = Stop(given, posixly)
    OBVIOUS
  <2>2. stop \in 1..(n + 1)
    BY <1>1, <2>1, StopIsFirst, Zenon
  <2>3. k < stop
    BY <2>1 DEF AtOption
  <2> QED
    BY <1>1, <1>3, <2>1, <2>2, <2>3
<1>6. Settled(o - 1)'
  <2>1. o - 1 = k
    BY <1>1, <1>3
  <2> QED
    BY <2>1 DEF Settled
<1>7. ScanInv'
  BY <1>1, <1>2, <1>3, <1>4, <1>5, <1>6 DEF ScanInv, AtOption
<1> QED
  BY <1>1, <1>7 DEF ParseInv, PhaseInv, ArgumentsInv, MainInv

\* An option that is read with the element behind it.
LEMMA ReadingTakes ==
    ASSUME NEW k, AtOption(k), TakesNext(given[k]), k < Len(given),
           Reading(given, posixly)[k].exit = NoExit,
           Reading(given, posixly)[k].config = config',
           exit' = NoExit, pc' = "scan", optind' = k + 2, nextchar' = NothingLeft,
           argv' = argv, firstNonopt' = firstNonopt, lastNonopt' = lastNonopt,
           given' = given, posixly' = posixly
    PROVE  ParseInv'
<1> DEFINE n == Len(given)
           R == Reading(given, posixly)
<1>1. given \in CommandLines /\ posixly \in BOOLEAN /\ k \in 1..n /\ n \in Nat /\ DOMAIN given = 1..n
  BY ArgsTyped DEF AtOption
<1>2. PICK m, o : m = k + 1 /\ o = k + 2
  OBVIOUS
<1>3. m \in 1..n /\ m \in 0..n /\ m > 1 /\ m - 1 = k /\ o = m + 1 /\ o - 1 = m /\ o > 1
  BY <1>1, <1>2
<1>4. IsArgument(given)[m]
  <2>1. ~IsArgument(given)[k]
    BY DEF AtOption
  <2> QED
    BY <1>1, <1>3, <2>1, IsArgumentAt, Zenon
<1>5. PICK stop, quote, word :
        stop = Stop(given, posixly) /\ quote = Stop(given, FALSE) /\ word = Stop(given, TRUE)
  OBVIOUS
<1>6. /\ stop \in 1..(n + 1) /\ (stop <= n => Stops(given, stop, posixly))
      /\ quote \in 1..(n + 1) /\ word <= quote /\ (stop = quote \/ stop = word)
  BY <1>1, <1>5, StopIsFirst, StopAtWordFirst, Zenon
<1>7. o <= stop
  <2>1. k < stop
    BY <1>5 DEF AtOption
  <2>2. ~Stops(given, m, posixly)
    BY <1>4, Zenon DEF Stops
  <2>3. stop # m
    BY <1>3, <1>6, <2>2
  <2> QED
    BY <1>1, <1>2, <1>6, <2>1, <2>3
<1>8. m \notin Strays(given)
  <2>1. ~(m > quote)
    BY <1>2, <1>3, <1>6, <1>7
  <2> QED
    BY <1>1, <1>3, <1>4, <1>5, <2>1, StraysAt, Zenon
<1>9. Laid(argv, given, Strays(given), firstNonopt, lastNonopt, o)
  <2>1. Places(n, given, Strays(given))
    BY <1>1, StraysAt DEF Places
  <2>2. Laid(argv, given, Strays(given), firstNonopt, lastNonopt, m)
    BY <1>1, <1>2, <2>1, LaidOption DEF AtOption
  <2>3. m <= n
    BY <1>3
  <2> QED
    BY <1>3, <1>8, <2>1, <2>2, <2>3, LaidOption
<1>10. o <= n => ~IsArgument(given)[o]
  <2>1. SUFFICES ASSUME o <= n
                 PROVE  ~IsArgument(given)[o]
    OBVIOUS
  <2>2. o \in 0..n
    BY <1>1, <1>3, <2>1
  <2> QED
    BY <1>1, <1>3, <1>4, <2>2, IsArgumentAt, Zenon
<1>11. Settled(o - 1)'
  <2>1. R[m] = R[k]
    <3>1. m # 0
      BY <1>3
    <3>2. R[m] = R[m - 1]
      BY <1>1, <1>3, <1>4, <3>1, ReadingAt, Zenon
    <3> QED
      BY <1>3, <3>2
  <2> QED
    BY <1>3, <2>1 DEF Settled
<1>12. ScanInv'
  BY <1>1, <1>2, <1>5, <1>7, <1>9, <1>10, <1>11 DEF ScanInv, AtOption
<1> QED
  BY <1>1, <1>12 DEF ParseInv, PhaseInv, ArgumentsInv, MainInv

\* An option of getopt takes the effect that it has in the reference.
LEMMA OptionReads ==
    ASSUME NEW k, AtOption(k), NEW key, NEW token, NEW next,
           Reading(given, posixly)[k] = GroupParse(key, token, config),
           Option(key, token, next, NothingLeft),
           \/ next = k + 1 /\ ~TakesNext(given[k])
           \/ next = k + 2 /\ TakesNext(given[k]) /\ k < Len(given)
    PROVE  ParseInv'
<1> DEFINE result == GroupParse(key, token, config)
<1>1. /\ config' = result.config /\ exit' = result.exit
      /\ pc' = IF result.exit = NoExit THEN "scan" ELSE "ended"
      /\ optind' = next /\ nextchar' = NothingLeft
      /\ argv' = argv /\ firstNonopt' = firstNonopt /\ lastNonopt' = lastNonopt
      /\ given' = given /\ posixly' = posixly
  BY DEF Option, environment
<1> HIDE DEF result
<1>2. Reading(given, posixly)[k] = result
  BY DEF result
<1>3. CASE result.exit # NoExit
  BY <1>1, <1>2, <1>3, ReadingEnds, Zenon
<1>4. CASE result.exit = NoExit /\ next = k + 1 /\ ~TakesNext(given[k])
  BY <1>1, <1>2, <1>4, ReadingGoes, Zenon
<1>5. CASE result.exit = NoExit /\ next = k + 2 /\ TakesNext(given[k]) /\ k < Len(given)
  BY <1>1, <1>2, <1>5, ReadingTakes, Zenon
<1> QED
  BY <1>3, <1>4, <1>5

\* What is wrong for getopt is wrong for the reference.
LEMMA UsageReads ==
    ASSUME NEW k, AtOption(k), NEW settings,
           Reading(given, posixly)[k] = Wrong(settings), Usage
    PROVE  ParseInv'
<1>1. exit' = UsageExit /\ pc' = "ended" /\ given' = given /\ posixly' = posixly
  BY DEF Usage, environment
<1>2. Reading(given, posixly)[k].exit = UsageExit /\ UsageExit # NoExit
  BY DEF Wrong, Ends, UsageExit, NoExit
<1> QED
  BY <1>1, <1>2, ReadingEnds, Zenon

\* The names that a prefix stands for are finitely many.
LEMMA MatchesFinite ==
    ASSUME NEW name
    PROVE  IsFiniteSet(Matches(name))
<1>1. CASE name \in DOMAIN LongOptions
  <2>1. Matches(name) = {name}
    BY <1>1, Zenon DEF Matches
  <2> QED
    BY <2>1, FS_Singleton
<1>2. CASE name \notin DOMAIN LongOptions /\ name \in DOMAIN Abbreviations
  <2>1. Matches(name) = Abbreviations[name]
    BY <1>2, Zenon DEF Matches
  <2> QED
    BY <1>2, <2>1, ElementsAssumption
<1>3. CASE name \notin DOMAIN LongOptions /\ name \notin DOMAIN Abbreviations
  <2>1. Matches(name) = {}
    BY <1>3, Zenon DEF Matches
  <2> QED
    BY <2>1, FS_EmptySet
<1> QED
  BY <1>1, <1>2, <1>3

\* A long option takes its argument from the same place as in the reference.
LEMMA LongOptionKeeps ==
    ASSUME ParseInv, LongOption
    PROVE  ParseInv'
<1> DEFINE n == Len(given)
           R == Reading(given, posixly)
<1>1. PICK k : k = optind
  OBVIOUS
<1>2. pc = "long" /\ AtOption(k)
  BY <1>1, OptionIsRead DEF LongOption
<1>3. /\ nextchar = NothingLeft /\ given[k].kind = "long"
      /\ R[k - 1].config = config
  BY <1>1, <1>2 DEF ParseInv, ScanInv, Settled
<1>4. /\ k \in 1..n /\ argv[k] = given[k] /\ Argc = n + 1 /\ given \in CommandLines
      /\ n \in Nat
      /\ R[k] = ReadLong(given, k, config)
  <2>1. k \in 1..n /\ argv[k] = given[k] /\ Argc = n + 1 /\ given \in CommandLines
    BY <1>2 DEF AtOption
  <2>2. R[k] = ReadLong(given, k, config)
    BY <1>2, <1>3, Zenon DEF AtOption
  <2> QED
    BY <2>1, <2>2, ArgsTyped
<1> DEFINE element == given[k]
           names == Matches(element.name)
           key == LongOptions[CHOOSE name \in names : TRUE]
           needs == RequiresArgument(key)
<1>5. /\ LongOption => IF Cardinality(names) # 1 THEN Usage
           ELSE IF element.text # NoText
           THEN IF AcceptsArgument(key)
                THEN Option(key, element.text, k + 1, NothingLeft)
                ELSE Usage
           ELSE IF ~needs THEN Option(key, NoText, k + 1, NothingLeft)
           ELSE IF k + 1 < Argc
           THEN Option(key, TextOf(argv[k + 1]), k + 2, NothingLeft)
           ELSE Usage
      /\ R[k] = LET next == element.text = NoText /\ needs
                IN  IF \/ Cardinality(names) # 1
                       \/ element.text # NoText /\ ~AcceptsArgument(key)
                       \/ next /\ k = n
                    THEN Wrong(config)
                    ELSE GroupParse(key, IF next THEN TextOf(given[k + 1]) ELSE element.text,
                                    config)
  BY <1>1, <1>4, Zenon DEF LongOption, ReadLong
<1>6. CASE Cardinality(names) # 1
  BY <1>2, <1>5, <1>6, UsageReads, Zenon
<1>7. CASE Cardinality(names) = 1
  <2>1. PICK x : names = {x}
    BY <1>7, MatchesFinite, FS_Singleton
  <2>2. key = LongOptions[x]
    <3>1. (CHOOSE name \in names : TRUE) = x
      BY <2>1
    <3> QED
      BY <3>1
  <2>3. TakesNext(element) <=> element.text = NoText /\ needs
    BY <1>3, <2>1, <2>2, Zenon DEF TakesNext
  <2> HIDE DEF key, names, needs
  <2>4. CASE element.text # NoText /\ AcceptsArgument(key)
    <3>1. R[k] = GroupParse(key, element.text, config)
      BY <1>5, <1>7, <2>4, Zenon
    <3>2. PICK next : next = k + 1
      OBVIOUS
    <3>3. Option(key, element.text, next, NothingLeft)
      BY <1>5, <1>7, <2>4, <3>2, Zenon
    <3> QED
      BY <1>2, <2>3, <2>4, <3>1, <3>2, <3>3, OptionReads, Zenon
  <2>5. CASE element.text # NoText /\ ~AcceptsArgument(key)
    <3>1. R[k] = Wrong(config) /\ Usage
      BY <1>5, <1>7, <2>5, Zenon
    <3> QED
      BY <1>2, <3>1, UsageReads, Zenon
  <2>6. CASE element.text = NoText /\ ~needs
    <3>1. R[k] = GroupParse(key, NoText, config)
      BY <1>5, <1>7, <2>6, Zenon
    <3>2. PICK next : next = k + 1
      OBVIOUS
    <3>3. Option(key, NoText, next, NothingLeft)
      BY <1>5, <1>7, <2>6, <3>2, Zenon
    <3> QED
      BY <1>2, <2>3, <2>6, <3>1, <3>2, <3>3, OptionReads, Zenon
  <2>7. CASE element.text = NoText /\ needs /\ k = n
    <3>0. ~(k + 1 < Argc)
      BY <1>4, <2>7
    <3>1. R[k] = Wrong(config) /\ Usage
      BY <1>5, <1>7, <2>7, <3>0, Zenon
    <3> QED
      BY <1>2, <3>1, UsageReads, Zenon
  <2>8. CASE element.text = NoText /\ needs /\ k # n
    <3>0. k + 1 < Argc /\ k < n
      BY <1>4, <2>8
    <3>1. argv[k + 1] = given[k + 1]
      <4>1. Laid(argv, given, Strays(given), firstNonopt, lastNonopt, k)
        BY <1>2 DEF AtOption
      <4>2. \A j \in k..n : argv[j] = given[j]
        BY <1>4, <4>1, LaidLen
      <4>3. k + 1 \in k..n
        BY <1>4, <3>0
      <4> QED
        BY <4>2, <4>3
    <3>2. PICK next, token : next = k + 2 /\ token = TextOf(given[k + 1])
      OBVIOUS
    <3>3. R[k] = GroupParse(key, token, config)
      BY <1>5, <1>7, <2>8, <3>2, Zenon
    <3>4. Option(key, token, next, NothingLeft)
      BY <1>5, <1>7, <2>8, <3>0, <3>1, <3>2, Zenon
    <3> QED
      BY <1>2, <2>3, <2>8, <3>0, <3>2, <3>3, <3>4, OptionReads, Zenon
  <2> QED
    BY <2>4, <2>5, <2>6, <2>7, <2>8
<1> QED
  BY <1>6, <1>7

\* The reference is done with a cluster behind j letters.
LettersDone(args, k, settings, j) ==
    /\ Len(args[k].letters) \in Nat
    /\ j \in 0..(Len(args[k].letters) + 1)
    /\ \/ ReadLetters(args, k, settings)[j].exit # NoExit
       \/ \E i \in 1..j : RequiresArgument(args[k].letters[i])

\* What comes behind an error, or behind the letter that takes an argument, is not read.
LEMMA ReadLettersSame ==
    ASSUME NEW args, NEW k, NEW settings, NEW j, LettersDone(args, k, settings, j)
    PROVE  ReadShort(args, k, settings) = ReadLetters(args, k, settings)[j]
<1> DEFINE letters == args[k].letters
           m == Len(letters)
           T == ReadLetters(args, k, settings)
           S == {d \in Nat : j + d <= m + 1 => T[j + d] = T[j]}
<1>1. /\ m \in Nat /\ j \in 0..(m + 1)
      /\ T[j].exit # NoExit \/ \E i \in 1..j : RequiresArgument(letters[i])
  BY DEF LettersDone
<1> HIDE DEF T
<1>2. 0 \in S
  BY <1>1
<1>3. ASSUME NEW d \in Nat, d \in S
      PROVE  d + 1 \in S
  <2> SUFFICES ASSUME j + (d + 1) <= m + 1
               PROVE  T[j + (d + 1)] = T[j]
    OBVIOUS
  <2>1. PICK i : i = j + (d + 1)
    OBVIOUS
  <2>2. i \in 0..(m + 1) /\ i # 0 /\ i - 1 = j + d /\ \A h \in 1..j : h \in 1..(i - 1)
    BY <1>1, <2>1
  <2>3. T[i - 1] = T[j]
    BY <1>1, <1>3, <2>2
  <2>4. T[i - 1].exit # NoExit \/ \E h \in 1..(i - 1) : RequiresArgument(letters[h])
    BY <1>1, <2>2, <2>3, Zenon
  <2>5. T[i] = T[i - 1]
    BY <1>1, <2>2, <2>4, ReadLettersAt, Zenon DEF T
  <2> QED
    BY <2>1, <2>3, <2>5
<1>4. m + 1 - j \in S
  <2>1. m + 1 - j \in Nat
    BY <1>1
  <2> HIDE DEF S
  <2> QED
    BY <1>2, <1>3, <2>1, SetInduction
<1>5. j + (m + 1 - j) = m + 1 /\ m + 1 - j \in Nat
  BY <1>1
<1>6. T[m + 1] = T[j]
  BY <1>1, <1>4, <1>5
<1> QED
  BY <1>6 DEF T, ReadShort

\* The reference has read j letters of a cluster, and goes on.
LettersRead(args, k, settings, j) ==
    /\ Len(args[k].letters) \in Nat
    /\ j \in 0..Len(args[k].letters)
    /\ ReadLetters(args, k, settings)[j].exit = NoExit
    /\ \A i \in 1..j : ~RequiresArgument(args[k].letters[i])

\* What a letter comes to, where the letters before it take no argument.
LEMMA ReadLetterNext ==
    ASSUME NEW args, NEW k, NEW settings, NEW j, LettersRead(args, k, settings, j)
    PROVE  /\ j < Len(args[k].letters) =>
                ReadLetters(args, k, settings)[j + 1]
                  = ReadLetter(args, k, j + 1, ReadLetters(args, k, settings)[j].config)
           /\ j = Len(args[k].letters) =>
                ReadShort(args, k, settings) =
                  IF args[k].text = NoText THEN ReadLetters(args, k, settings)[j]
                  ELSE Wrong(ReadLetters(args, k, settings)[j].config)
<1> DEFINE letters == args[k].letters
           m == Len(letters)
           T == ReadLetters(args, k, settings)
<1>0. /\ m \in Nat /\ j \in 0..m
      /\ T[j].exit = NoExit
      /\ \A i \in 1..j : ~RequiresArgument(letters[i])
  BY DEF LettersRead
<1>1. PICK i : i = j + 1
  OBVIOUS
<1>2. i \in 0..(m + 1) /\ i # 0 /\ i - 1 = j
  BY <1>0, <1>1
<1>3. ~(T[i - 1].exit # NoExit \/ \E h \in 1..(i - 1) : RequiresArgument(letters[h]))
  BY <1>0, <1>2
<1>4. T[i] = IF i <= m THEN ReadLetter(args, k, i, T[i - 1].config)
             ELSE IF args[k].text = NoText THEN T[i - 1] ELSE Wrong(T[i - 1].config)
  <2>1. \A x \in 0..(m + 1) :
          T[x] = IF x = 0 THEN Goes(settings)
                 ELSE IF \/ T[x - 1].exit # NoExit
                         \/ \E h \in 1..(x - 1) : RequiresArgument(letters[h])
                 THEN T[x - 1]
                 ELSE IF x <= m THEN ReadLetter(args, k, x, T[x - 1].config)
                 ELSE IF args[k].text = NoText THEN T[x - 1] ELSE Wrong(T[x - 1].config)
    BY <1>0, ReadLettersAt
  <2> HIDE DEF T
  <2> QED
    BY <1>2, <1>3, <2>1, Zenon
<1> HIDE DEF T
<1>5. j < m => T[i] = ReadLetter(args, k, i, T[j].config)
  BY <1>0, <1>1, <1>2, <1>4
<1>6. j = m => T[m + 1] = IF args[k].text = NoText THEN T[j] ELSE Wrong(T[j].config)
  <2>1. j = m => ~(i <= m) /\ i = m + 1
    BY <1>0, <1>1
  <2> QED
    BY <1>2, <1>4, <2>1
<1> QED
  BY <1>1, <1>5, <1>6 DEF T, ReadShort

\* What is left of a cluster when its letters are replaced.
IsLeft(left, letters, text) == left = [letters |-> letters, text |-> text]

\* The text of a cluster is the same when letters are gone.
LEMMA LettersCut ==
    ASSUME NEW old, NEW new, NEW text, NEW left, IsLeft(left, old, text)
    PROVE  IsLeft([left EXCEPT !.letters = new], new, text)
  BY DEF IsLeft

\* A letter of a cluster takes its argument from the same place as in the reference,
\* and the letters behind it are left when it takes none.
LEMMA ShortOptionKeeps ==
    ASSUME ParseInv, ShortOption
    PROVE  ParseInv'
<1> DEFINE n == Len(given)
           R == Reading(given, posixly)
<1>1. PICK k : k = optind
  OBVIOUS
<1>2. pc = "short" /\ AtOption(k)
  BY <1>1, OptionIsRead DEF ShortOption
<1> DEFINE letters == given[k].letters
           m == Len(letters)
           settings == R[k - 1].config
           T == ReadLetters(given, k, settings)
<1>3. PICK j \in 0..m : InCluster(j)
  BY <1>1, <1>2 DEF ParseInv, ScanInv
<1>4. /\ nextchar = [letters |-> SubSeq(letters, j + 1, m), text |-> given[k].text]
      /\ \A i \in 1..j : ~RequiresArgument(letters[i])
      /\ R[k - 1].exit = NoExit
      /\ T[j].config = config /\ T[j].exit = NoExit
  BY <1>1, <1>3 DEF InCluster
<1>5. nextchar # NothingLeft /\ given[k].kind = "short" /\ exit = NoExit
  BY <1>1, <1>2 DEF ParseInv, ScanInv
<1>6. /\ k \in 1..n /\ argv[k] = given[k] /\ Argc = n + 1 /\ given \in CommandLines
      /\ n \in Nat
      /\ R[k] = ReadShort(given, k, settings)
  <2>1. k \in 1..n /\ argv[k] = given[k] /\ Argc = n + 1 /\ given \in CommandLines
    BY <1>2 DEF AtOption
  <2>2. R[k] = ReadShort(given, k, settings)
    BY <1>2, <1>5 DEF AtOption
  <2> QED
    BY <2>1, <2>2, ArgsTyped
<1>7. letters \in Seq(STRING) /\ m \in Nat
  <2>1. IsElement(given[k])
    BY <1>6, ArgsTyped
  <2> QED
    BY <1>5, <2>1, ElementKinds
<1> HIDE DEF T, settings
<1>8. /\ j < m => T[j + 1] = ReadLetter(given, k, j + 1, config)
      /\ j = m => R[k] = IF given[k].text = NoText THEN T[j] ELSE Wrong(config)
  <2>1. LettersRead(given, k, settings, j)
    BY <1>4, <1>7, Zenon DEF LettersRead, T
  <2> QED
    BY <1>4, <1>6, <2>1, ReadLetterNext DEF T
<1>9. CASE j = m
  <2>1. nextchar.letters = <<>>
    BY <1>4, <1>7, <1>9
  <2>2. given[k].text # NoText
    BY <1>4, <1>5, <2>1 DEF NothingLeft
  <2>3. Usage
    BY <2>1 DEF ShortOption
  <2>4. R[k] = Wrong(config)
    BY <1>8, <1>9, <2>2
  <2> QED
    BY <1>2, <2>3, <2>4, UsageReads, Zenon
<1>10. CASE j # m
  <2>1. PICK h : h = j + 1
    OBVIOUS
  <2>2. /\ h \in 1..m /\ j < m /\ nextchar.letters # <<>>
        /\ Head(nextchar.letters) = letters[h]
        /\ Tail(nextchar.letters) = SubSeq(letters, h + 1, m)
    <3>1. PICK u : u = SubSeq(letters, h, m)
      OBVIOUS
    <3>2. h \in 1..m /\ m \in h..m /\ j < m
      BY <1>7, <1>10, <2>1
    <3>3. u # <<>> /\ Head(u) = letters[h] /\ Tail(u) = SubSeq(letters, h + 1, m)
      <4>1. Head(u) = letters[h] /\ Tail(u) = SubSeq(letters, h + 1, m)
        BY <1>7, <3>1, <3>2, HeadTailOfSubSeq, Zenon
      <4>2. Len(u) = m - h + 1
        BY <1>7, <3>1, <3>2
      <4>3. Len(u) # 0
        BY <1>7, <3>2, <4>2
      <4>4. Len(<<>>) = 0
        OBVIOUS
      <4> QED
        BY <4>1, <4>3, <4>4, Zenon
    <3>4. nextchar.letters = u
      BY <1>4, <2>1, <3>1
    <3> QED
      BY <3>2, <3>3, <3>4
  <2> DEFINE rest == [letters |-> SubSeq(letters, h + 1, m), text |-> given[k].text]
             key == letters[h]
             next == IF rest = NothingLeft THEN k + 1 ELSE k
  <2>3. IF key \notin ShortOptions THEN Usage ELSE ShortArgument(key, rest, next)
    <3>1. [nextchar EXCEPT !.letters = Tail(@)] = rest
      <4>1. PICK old, tail, text :
               IsLeft(nextchar, old, text) /\ text = given[k].text
               /\ tail = SubSeq(letters, h + 1, m)
        BY <1>4 DEF IsLeft
      <4>2. IsLeft([nextchar EXCEPT !.letters = tail], tail, text)
        BY <4>1, LettersCut, Zenon
      <4>3. IsLeft([nextchar EXCEPT !.letters = Tail(@)], tail, text)
        BY <2>2, <4>1, <4>2, Zenon
      <4> QED
        BY <4>1, <4>3, Zenon DEF IsLeft
    <3> QED
      BY <1>1, <2>2, <3>1 DEF ShortOption
  <2>4. T[h] = IF key \notin ShortOptions THEN Wrong(config)
               ELSE IF ~RequiresArgument(key) THEN GroupParse(key, NoText, config)
               ELSE IF rest # NothingLeft THEN GroupParse(key, Attached(rest), config)
               ELSE IF k < n THEN GroupParse(key, TextOf(given[k + 1]), config)
               ELSE Wrong(config)
    BY <1>8, <2>1, <2>2 DEF ReadLetter
  <2>5. T[h].exit # NoExit \/ RequiresArgument(key) => R[k] = T[h]
    <3>1. h \in 0..(m + 1) /\ h \in 1..h
      BY <2>2
    <3>2. T[h].exit # NoExit \/ RequiresArgument(key) => LettersDone(given, k, settings, h)
      BY <1>7, <3>1, Zenon DEF LettersDone, T
    <3> QED
      BY <1>6, <3>2, ReadLettersSame, Zenon DEF T
  <2>6. rest = NothingLeft <=> h = m /\ given[k].text = NoText
    <3>1. SubSeq(letters, h + 1, m) = <<>> <=> h = m
      BY <1>7, <2>2
    <3> QED
      BY <3>1 DEF NothingLeft
  <2>7. CASE key \notin ShortOptions
    <3>1. Usage /\ T[h] = Wrong(config)
      BY <2>3, <2>4, <2>7, Zenon
    <3>2. T[h].exit # NoExit
      BY <3>1 DEF Wrong, Ends, UsageExit, NoExit
    <3> QED
      BY <1>2, <2>5, <3>1, <3>2, UsageReads, Zenon
  <2>8. CASE key \in ShortOptions /\ ~RequiresArgument(key)
    <3> DEFINE result == GroupParse(key, NoText, config)
    <3>1. Option(key, NoText, next, rest) /\ T[h] = result
      BY <2>3, <2>4, <2>8, Zenon DEF ShortArgument
    <3>2. /\ config' = result.config /\ exit' = result.exit
          /\ pc' = IF result.exit = NoExit THEN "scan" ELSE "ended"
          /\ optind' = next /\ nextchar' = rest
          /\ argv' = argv /\ firstNonopt' = firstNonopt /\ lastNonopt' = lastNonopt
          /\ given' = given /\ posixly' = posixly
      BY <3>1 DEF Option, environment
    <3> HIDE DEF result, rest
    <3>3. CASE result.exit # NoExit
      BY <1>2, <2>5, <3>1, <3>2, <3>3, ReadingEnds, Zenon
    <3>4. \A i \in 1..h : ~RequiresArgument(letters[i])
      BY <1>4, <2>1, <2>2, <2>8
    <3>5. CASE result.exit = NoExit /\ rest = NothingLeft
      <4>1. h = m /\ given[k].text = NoText
        BY <2>6, <3>5
      <4>2. R[k] = T[h]
        <5>1. R[k] = IF given[k].text = NoText THEN T[h] ELSE Wrong(T[h].config)
          <6>1. LettersRead(given, k, settings, h)
            BY <1>7, <2>2, <3>1, <3>4, <3>5 DEF LettersRead, T
          <6> QED
            BY <1>6, <4>1, <6>1, ReadLetterNext DEF T
        <5> QED
          BY <4>1, <5>1
      <4>3. ~TakesNext(given[k])
        <5>1. Last(letters) = letters[h]
          BY <4>1, Zenon DEF Last
        <5> QED
          BY <1>5, <2>8, <5>1 DEF TakesNext
      <4>4. optind' = k + 1 /\ nextchar' = NothingLeft
        BY <3>2, <3>5
      <4> QED
        BY <1>2, <3>1, <3>2, <3>5, <4>2, <4>3, <4>4, ReadingGoes, Zenon
    <3>6. CASE result.exit = NoExit /\ rest # NothingLeft
      <4>1. optind' = k /\ nextchar' # NothingLeft /\ pc' = "scan" /\ exit' = NoExit
        BY <3>2, <3>6
      <4>2. InCluster(h)'
        BY <1>4, <3>1, <3>2, <3>4, <3>6, <4>1 DEF InCluster, rest, T, settings
      <4>3. h \in 0..Len(given[k].letters)
        BY <2>2
      <4>4. k <= Stop(given, posixly) /\ k <= Len(given)
        <5>1. k <= n
          BY <1>6
        <5>2. k <= Stop(given, posixly)
          BY <1>1, <1>2 DEF ParseInv, ScanInv
        <5> QED
          BY <5>1, <5>2
      <4>5. ScanInv'
        BY <1>2, <1>5, <3>2, <4>1, <4>2, <4>3, <4>4 DEF ScanInv, AtOption
      <4> QED
        BY <1>2, <3>2, <4>1, <4>5 DEF ParseInv, PhaseInv, ArgumentsInv, MainInv, AtOption
    <3> QED
      BY <3>3, <3>5, <3>6
  <2>9. CASE key \in ShortOptions /\ RequiresArgument(key) /\ rest # NothingLeft
    <3>1. PICK o, token : o = k + 1 /\ token = Attached(rest)
      OBVIOUS
    <3>2. Option(key, token, o, NothingLeft) /\ T[h] = GroupParse(key, token, config)
      BY <1>1, <2>3, <2>4, <2>9, <3>1, Zenon DEF ShortArgument
    <3>3. ~TakesNext(given[k])
      <4>1. CASE given[k].text # NoText
        BY <1>5, <4>1 DEF TakesNext
      <4>2. CASE h # m
        <5>1. h \in 1..(m - 1)
          BY <1>7, <2>2, <4>2
        <5> QED
          BY <1>5, <2>9, <5>1 DEF TakesNext
      <4> QED
        BY <2>6, <2>9, <4>1, <4>2
    <3> QED
      BY <1>2, <2>5, <2>9, <3>1, <3>2, <3>3, OptionReads, Zenon
  <2>10. CASE key \in ShortOptions /\ RequiresArgument(key) /\ rest = NothingLeft
    <3>1. h = m /\ given[k].text = NoText /\ next = k + 1
      BY <2>6, <2>10
    <3>2. TakesNext(given[k])
      <4>1. Last(letters) = letters[h]
        BY <3>1, Zenon DEF Last
      <4>2. \A i \in 1..(m - 1) : ~RequiresArgument(letters[i])
        BY <1>4, <2>1, <3>1
      <4> QED
        BY <1>5, <2>10, <3>1, <4>1, <4>2 DEF TakesNext
    <3>3. CASE k < n
      <4>1. k + 1 < Argc /\ k + 1 + 1 = k + 2 /\ argv[k + 1] = given[k + 1]
        <5>1. Laid(argv, given, Strays(given), firstNonopt, lastNonopt, k)
          BY <1>2 DEF AtOption
        <5>2. \A i \in k..n : argv[i] = given[i]
          BY <1>6, <5>1, LaidLen
        <5>3. k + 1 \in k..n
          BY <1>6, <3>3
        <5> QED
          BY <1>6, <3>3, <5>2, <5>3
      <4>2. PICK o, token : o = k + 2 /\ token = TextOf(given[k + 1])
        OBVIOUS
      <4>3. Option(key, token, o, NothingLeft)
        <5>1. Option(key, TextOf(argv[next]), next + 1, NothingLeft)
          BY <2>3, <2>10, <3>1, <4>1 DEF ShortArgument
        <5> QED
          BY <3>1, <4>1, <4>2, <5>1
      <4>4. T[h] = GroupParse(key, token, config)
        BY <2>4, <2>10, <3>3, <4>2, Zenon
      <4> QED
        BY <1>2, <2>5, <2>10, <3>2, <3>3, <4>2, <4>3, <4>4, OptionReads, Zenon
    <3>4. CASE ~(k < n)
      <4>1. ~(next < Argc)
        <5>1. PICK o : o = next
          OBVIOUS
        <5>2. o = k + 1
          BY <3>1, <5>1
        <5>3. ~(o < Argc)
          BY <1>6, <3>4, <5>2
        <5> QED
          BY <5>1, <5>3
      <4>2. Usage
        BY <2>3, <2>10, <4>1, Zenon DEF ShortArgument
      <4>3. T[h] = Wrong(config)
        BY <2>4, <2>10, <3>4, Zenon
      <4> QED
        BY <1>2, <2>5, <2>10, <4>2, <4>3, UsageReads, Zenon
    <3> QED
      BY <3>3, <3>4
  <2> QED
    BY <2>7, <2>8, <2>9, <2>10
<1> QED
  BY <1>9, <1>10

\* A word that is left over is the error that the reference ends with.
LEMMA FinalizeKeeps ==
    ASSUME ParseInv, Finalize
    PROVE  ParseInv'
<1> DEFINE n == Len(given)
           R == Reading(given, posixly)
<1>1. /\ pc = "arguments" /\ exit = NoExit
      /\ given \in CommandLines /\ posixly \in BOOLEAN
      /\ Argc = n + 1 /\ n \in Nat /\ optind \in 1..(n + 1)
      /\ R[n].config = config /\ R[n].exit = NoExit
      /\ optind <= n <=> Strays(given) # {}
  BY ArgsTyped DEF Finalize, ParseInv, ArgumentsInv, Settled, Argc
<1>2. Expected = IF Strays(given) # {} THEN Wrong(R[n].config) ELSE R[n]
  BY <1>1 DEF Expected
<1>3. CASE optind < Argc
  <2>1. Usage
    BY <1>3 DEF Finalize
  <2>2. exit' = UsageExit /\ pc' = "ended" /\ given' = given /\ posixly' = posixly
    BY <2>1 DEF Usage, environment
  <2>3. Strays(given) # {}
    BY <1>1, <1>3
  <2>4. Expected' = Expected
    BY <2>2 DEF Expected
  <2>5. Expected.exit = UsageExit
    BY <1>2, <2>3 DEF Wrong, Ends
  <2> QED
    BY <1>1, <2>2, <2>4, <2>5 DEF ParseInv, PhaseInv, ScanInv, ArgumentsInv, MainInv
<1>4. CASE ~(optind < Argc)
  <2>1. pc' = "parsed" /\ given' = given /\ posixly' = posixly /\ config' = config
    BY <1>4 DEF Finalize, environment
  <2>2. Strays(given) = {}
    BY <1>1, <1>4
  <2>3. Expected' = Expected
    BY <2>1 DEF Expected
  <2>4. Expected = R[n]
    BY <1>2, <2>2
  <2> QED
    BY <1>1, <2>1, <2>3, <2>4 DEF ParseInv, PhaseInv, ScanInv, ArgumentsInv, MainInv
<1> QED
  BY <1>3, <1>4

\* main runs only after arguments that the reference takes, and changes none of them.
LEMMA MainKeeps ==
    ASSUME ParseInv, Main
    PROVE  ParseInv'
<1> DEFINE modes == {"construct", "run", "find", "recommend", "start", "sweeps", "sweep"}
<1>1. pc \in modes \cup {"parsed"} /\ pc' \in modes \cup {"ended"}
  BY DEF Main, Prepare, Construct, RunMode, FindStep, FindRanges, RecommendStep, OutputRanges,
         StartParamSweep, ParamSweepStep, EndParamSweep, RunSweep, Look, Go, Exit
<1>2. given' = given /\ posixly' = posixly
  BY DEF Main, Prepare, Construct, RunMode, FindStep, FindRanges, RecommendStep, OutputRanges,
         StartParamSweep, ParamSweepStep, EndParamSweep, RunSweep, Look, Unscanned, environment
<1>3. Expected' = Expected
  BY <1>2 DEF Expected
<1>4. Expected.exit = NoExit
  BY <1>1 DEF ParseInv, MainInv
<1> QED
  BY <1>1, <1>2, <1>3, <1>4 DEF ParseInv, PhaseInv, ScanInv, ArgumentsInv, MainInv

\* Nothing is skipped and nothing is read at first.
LEMMA ParseStarts ==
    ASSUME MainInit
    PROVE  ParseInv
<1> DEFINE n == Len(given)
<1>1. /\ given \in CommandLines /\ argv = given /\ posixly \in BOOLEAN
      /\ optind = 1 /\ firstNonopt = 1 /\ lastNonopt = 1
      /\ nextchar = NothingLeft /\ config = DefaultConfig /\ exit = NoExit /\ pc = "scan"
  BY DEF MainInit, Init
<1>2. n \in Nat /\ DOMAIN given = 1..n /\ Strays(given) \in SUBSET (1..n)
  BY <1>1, ArgsTyped, StraysAt
<1>3. Laid(given, given, Strays(given), 1, 1, 1)
  <2>1. given \in [DOMAIN given -> {given[k] : k \in DOMAIN given}]
    <3>1. given \in Seq({element \in {given[k] : k \in DOMAIN given} : IsElement(element)})
      BY <1>1, ElementsAssumption
    <3>2. given = [k \in DOMAIN given |-> given[k]]
      BY <1>2, <3>1
    <3> QED
      BY <3>2
  <2>2. Before(Strays(given), 1) = 1 - 1
    <3>1. Before(Strays(given), 1) = 0
      BY <1>2, BeforeFirst
    <3>2. 1 - 1 = 0
      OBVIOUS
    <3> QED
      BY <3>1, <3>2, Zenon
  <2>3. 1 <= Len(given) + 1 /\ \A i \in 1..(1 - 1) : FALSE
    BY <1>2
  <2> QED
    BY <2>1, <2>2, <2>3 DEF Laid
<1>4. 1 <= n => ~IsArgument(given)[1]
  <2>1. 1 <= n => 1 \in 0..n
    BY <1>2
  <2>2. ~(1 > 1)
    OBVIOUS
  <2> QED
    BY <1>1, <2>1, <2>2, IsArgumentAt, Zenon
<1>5. 1 <= Stop(given, posixly)
  <2>1. PICK stop : stop = Stop(given, posixly)
    OBVIOUS
  <2>2. stop \in 1..(n + 1)
    BY <1>1, <2>1, StopIsFirst, Zenon
  <2> QED
    BY <1>2, <2>1, <2>2
<1>6. Settled(1 - 1)
  <2>1. 0 \in 0..n /\ 1 - 1 = 0
    BY <1>2
  <2>2. Reading(given, posixly)[0] = Goes(DefaultConfig)
    BY <1>1, <2>1, ReadingAt, Zenon
  <2> QED
    BY <1>1, <2>1, <2>2 DEF Settled, Goes
<1>7. ScanInv
  BY <1>1, <1>3, <1>4, <1>5, <1>6 DEF ScanInv
<1> QED
  BY <1>1, <1>7 DEF ParseInv, PhaseInv, ArgumentsInv, MainInv

\* A step that changes nothing keeps the invariant.
LEMMA ParseStutters ==
    ASSUME ParseInv, UNCHANGED vars
    PROVE  ParseInv'
<1>1. /\ argv' = argv /\ optind' = optind
      /\ firstNonopt' = firstNonopt /\ lastNonopt' = lastNonopt
      /\ nextchar' = nextchar /\ posixly' = posixly /\ given' = given
      /\ config' = config /\ exit' = exit /\ pc' = pc
  BY DEF vars, getoptVars, scanVars, environment
<1>2. \A j : InCluster(j)' <=> InCluster(j)
  BY <1>1 DEF InCluster
<1>3. ScanInv' <=> ScanInv
  BY <1>1, <1>2 DEF ScanInv, Settled
<1>4. ArgumentsInv' <=> ArgumentsInv
  BY <1>1 DEF ArgumentsInv, Settled, PermutedStably
<1>5. MainInv' <=> MainInv
  BY <1>1 DEF MainInv, Expected
<1> QED
  BY <1>1, <1>3, <1>4, <1>5 DEF ParseInv, PhaseInv

-------------------------------------------------------------------------------
(***************************************************************************)
(* The theorems about the parsing of the arguments.                        *)
(***************************************************************************)
\* The scanner, at any element and at any letter, has read what the reference has
\* read and holds the elements where the reference's strays come last
\* (_getopt_internal_r, parser_parse_next and parse_opt).
THEOREM ParsingFollowsReference == Spec => []ParseInv
<1>1. MainInit => ParseInv
  BY ParseStarts
<1>2. ParseInv /\ [Next]_vars => ParseInv'
  <2> SUFFICES ASSUME ParseInv, [Next]_vars
               PROVE  ParseInv'
    OBVIOUS
  <2> QED
    BY AdvanceKeeps, ContinueKeeps, LongOptionKeeps, ShortOptionKeeps, FinalizeKeeps,
       MainKeeps, ParseStutters DEF Next
<1> QED
  BY <1>1, <1>2, PTL DEF Spec

\* Options take effect in the order they were given in, whatever their number, their
\* abbreviations, their clusters and the words between them, and the first error
\* ends the program (argp_parse with parse_opt).
THEOREM OptionsInOrder == Spec => []ParsedInOrder
<1>1. ParseInv => ParsedInOrder
  BY DEF ParseInv, MainInv, ParsedInOrder
<1> QED
  BY <1>1, ParsingFollowsReference, PTL

\* When the scan of a vector of any length ends, its words have come last, and
\* neither they nor the options have changed their order (exchange).
THEOREM WordsComeLast == Spec => []PermutedStably
<1>1. ParseInv => PermutedStably
  BY DEF ParseInv, ArgumentsInv, PermutedStably
<1> QED
  BY <1>1, ParsingFollowsReference, PTL

-------------------------------------------------------------------------------
(***************************************************************************)
(* Which spectra are chosen, and what findRanges makes of their values.    *)
(***************************************************************************)
\* The spectra are of one length, their points and the parameters are numbers.
LEMMA PointsTyped ==
    ASSUME config.modelStr \in DOMAIN Circuits
    PROVE  /\ Count \in Nat
           /\ \A i \in 0..(Count - 1) :
                /\ At(i).spectrum \in Seq(Complex)
                /\ Len(At(i).spectrum) = Len(At(0).spectrum)
                /\ At(i).values \in [DOMAIN At(0).values -> Int]
<1> DEFINE points == Circuit.points
<1>1. /\ points \in Seq({points[k] : k \in DOMAIN points})
      /\ \A k \in DOMAIN points :
           /\ points[k].spectrum \in Seq(Complex)
           /\ Len(points[k].spectrum) = Len(points[1].spectrum)
           /\ points[k].values \in [DOMAIN points[1].values -> Int]
  BY CircuitsAssumption DEF Circuit
<1> HIDE DEF points
<1>2. Len(points) \in Nat /\ DOMAIN points = 1..Len(points)
  BY <1>1
<1>3. \A i \in 0..(Len(points) - 1) : i + 1 \in DOMAIN points /\ 0 + 1 = 1
  BY <1>2
<1> QED
  BY <1>1, <1>2, <1>3 DEF Count, At, points

\* Two impedances are as far apart one way as the other.
LEMMA ApartBothWays ==
    ASSUME NEW y \in Complex, NEW z \in Complex
    PROVE  SquaredAbs(Minus(y, z)) = SquaredAbs(Minus(z, y))
<1>1. PICK a \in Int, b \in Int, c \in Int, d \in Int : y = <<a, b>> /\ z = <<c, d>>
  BY DEF Complex
<1>2. (a - c) * (a - c) = (c - a) * (c - a) /\ (b - d) * (b - d) = (d - b) * (d - b)
  BY <1>1
<1>3. /\ SquaredAbs(Minus(y, z)) = (a - c) * (a - c) + (b - d) * (b - d)
      /\ SquaredAbs(Minus(z, y)) = (c - a) * (c - a) + (d - b) * (d - b)
  BY <1>1 DEF SquaredAbs, Minus, Square
<1> QED
  BY <1>2, <1>3

\* Which of two spectra is near the other does not depend on the one that is first.
LEMMA NearBothWays ==
    ASSUME config.modelStr \in DOMAIN Circuits,
           NEW i \in 0..(Count - 1), NEW j \in 0..(Count - 1)
    PROVE  Near(i, j) <=> Near(j, i)
<1>1. PICK a, b : a = At(i) /\ b = At(j)
  OBVIOUS
<1>2. a.spectrum \in Seq(Complex) /\ b.spectrum \in Seq(Complex)
  BY <1>1, PointsTyped
<1>3. Len(a.spectrum) = Len(b.spectrum)
  <2>1. Len(a.spectrum) = Len(At(0).spectrum) /\ Len(b.spectrum) = Len(At(0).spectrum)
    BY <1>1, PointsTyped
  <2> QED
    BY <2>1
<1>4. Differences(i, j) = Differences(j, i)
  <2>0. PICK D : D = 1..Len(a.spectrum)
    OBVIOUS
  <2>1. Differences(i, j) = [w \in D |-> SquaredAbs(Minus(b.spectrum[w], a.spectrum[w]))]
    BY <1>1, <1>2, <2>0 DEF Differences
  <2>2. Differences(j, i) = [w \in D |-> SquaredAbs(Minus(a.spectrum[w], b.spectrum[w]))]
    BY <1>1, <1>2, <1>3, <2>0 DEF Differences
  <2>3. \A w \in D : SquaredAbs(Minus(b.spectrum[w], a.spectrum[w]))
                     = SquaredAbs(Minus(a.spectrum[w], b.spectrum[w]))
    BY <1>2, <1>3, <2>0, ApartBothWays
  <2> QED
    BY <2>1, <2>2, <2>3
<1> QED
  BY <1>1, <1>3, <1>4 DEF Near

\* The choice goes on from one index to the next.
LEMMA ChosenAt ==
    ASSUME NEW n \in Nat
    PROVE  /\ Chosen(0) = {}
           /\ Chosen(n + 1) =
                IF /\ Meaningful(n)
                   /\ \A j \in Chosen(n) : ~Near(n, j)
                THEN Chosen(n) \cup {n} ELSE Chosen(n)
<1> DEFINE Step(v, i) ==
             IF Meaningful(i - 1) /\ \A j \in v : ~Near(i - 1, j)
             THEN v \cup {i - 1} ELSE v
           Body(r, m) == [i \in 0..m |-> IF i = 0 THEN {} ELSE Step(r[i - 1], i)]
           S == {m \in Nat : \E r : r = Body(r, m)}
           T(m) == CHOOSE r : r = Body(r, m)
<1> HIDE DEF Step
<1>1. 0 \in S
  <2> DEFINE r == [i \in 0..0 |-> {}]
  <2>1. r = Body(r, 0)
    OBVIOUS
  <2> QED
    BY <2>1
<1>2. ASSUME NEW m \in Nat, m \in S
      PROVE  m + 1 \in S
  <2>1. PICK f : f = Body(f, m)
    BY <1>2
  <2> DEFINE g == [i \in 0..(m + 1) |-> IF i = m + 1 THEN Step(f[m], m + 1) ELSE f[i]]
  <2>2. ASSUME NEW i \in 0..(m + 1)
        PROVE  g[i] = IF i = 0 THEN {} ELSE Step(g[i - 1], i)
    <3>1. CASE i = m + 1
      <4>1. g[i] = Step(f[m], m + 1) /\ g[i - 1] = f[m] /\ i # 0
        BY <3>1
      <4> QED
        BY <3>1, <4>1
    <3>2. CASE i \in 0..m
      <4>1. g[i] = f[i] /\ (i # 0 => g[i - 1] = f[i - 1])
        BY <3>2
      <4>2. f[i] = IF i = 0 THEN {} ELSE Step(f[i - 1], i)
        BY <2>1, <3>2
      <4> QED
        BY <4>1, <4>2
    <3> QED
      BY <3>1, <3>2
  <2>3. g = Body(g, m + 1)
    <3>1. g = [i \in 0..(m + 1) |-> g[i]]
      OBVIOUS
    <3> HIDE DEF g
    <3> QED
      BY <2>2, <3>1
  <2> HIDE DEF g
  <2> QED
    BY <2>3
<1>3. \A m \in Nat : m \in S
  <2> HIDE DEF S
  <2> QED
    BY <1>1, <1>2, SetInduction
<1>4. \A m \in Nat : T(m) = Body(T(m), m)
  <2>1. \A m \in Nat : \E r : r = Body(r, m)
    BY <1>3
  <2> HIDE DEF Body
  <2> QED
    BY <2>1, Zenon
<1>5. \A m : Chosen(m) = T(m)[m]
  BY Zenon DEF Chosen, Step
<1> HIDE DEF T
<1>6. \A m \in Nat, i \in Nat : i <= m =>
         T(m)[i] = IF i = 0 THEN {} ELSE Step(T(m)[i - 1], i)
  <2> SUFFICES ASSUME NEW m \in Nat, NEW i \in Nat, i <= m
               PROVE  T(m)[i] = IF i = 0 THEN {} ELSE Step(T(m)[i - 1], i)
    OBVIOUS
  <2>1. PICK r : r = T(m) /\ r = Body(r, m)
    BY <1>4
  <2>2. i \in 0..m
    OBVIOUS
  <2>3. r[i] = IF i = 0 THEN {} ELSE Step(r[i - 1], i)
    BY <2>1, <2>2
  <2> QED
    BY <2>1, <2>3
<1>7. T(n + 1)[n] = T(n)[n]
  <2> DEFINE U == {i \in Nat : i <= n => T(n + 1)[i] = T(n)[i]}
  <2>1. n + 1 \in Nat /\ n \in Nat
    OBVIOUS
  <2>2. PICK t, u : t = T(n + 1) /\ u = T(n)
    OBVIOUS
  <2>3. /\ \A i \in Nat : i <= n + 1 => t[i] = IF i = 0 THEN {} ELSE Step(t[i - 1], i)
        /\ \A i \in Nat : i <= n => u[i] = IF i = 0 THEN {} ELSE Step(u[i - 1], i)
    BY <1>6, <2>1, <2>2
  <2>4. 0 \in U
    BY <2>2, <2>3
  <2>5. ASSUME NEW i \in Nat, i \in U
        PROVE  i + 1 \in U
    <3> SUFFICES ASSUME i + 1 <= n
                 PROVE  t[i + 1] = u[i + 1]
      BY <2>2
    <3>1. PICK o : o = i + 1
      OBVIOUS
    <3>2. o \in Nat /\ o # 0 /\ o <= n /\ o <= n + 1 /\ o - 1 = i
      BY <3>1
    <3>3. t[i] = u[i]
      BY <2>2, <2>5, <3>2
    <3>4. t[o] = Step(t[i], o) /\ u[o] = Step(u[i], o)
      BY <2>3, <3>2
    <3> QED
      BY <3>1, <3>3, <3>4
  <2>6. n \in U
    <3> HIDE DEF U
    <3> QED
      BY <2>4, <2>5, SetInduction
  <2> QED
    BY <2>6
<1>8. Chosen(0) = {}
  BY <1>5, <1>6
<1>9. Chosen(n + 1) = Step(Chosen(n), n + 1)
  <2>1. PICK o : o = n + 1
    OBVIOUS
  <2>2. o \in Nat /\ o <= o /\ o # 0 /\ o - 1 = n
    BY <2>1
  <2>3. T(o)[o] = Step(T(o)[n], o)
    BY <1>6, <2>2
  <2>4. Chosen(o) = T(o)[o] /\ Chosen(n) = T(n)[n]
    BY <1>5
  <2> QED
    BY <1>7, <2>1, <2>3, <2>4
<1>10. n + 1 - 1 = n
  OBVIOUS
<1> QED
  BY <1>8, <1>9, <1>10 DEF Step

-------------------------------------------------------------------------------
\* What is kept after the first index spectra: those that the rule chooses, in their
\* order and apart from each other, with every other meaningful one near one of them.
KeptInv ==
    /\ index \in 0..Count
    /\ kept \in Seq(Nat)
    /\ ToSet(kept) = Chosen(index)
    /\ \A k \in DOMAIN kept : kept[k] \in 0..(index - 1)
    /\ \A k \in DOMAIN kept : \A l \in 1..(k - 1) :
         kept[l] < kept[k] /\ ~Near(kept[l], kept[k])
    /\ \A i \in 0..(index - 1) : Meaningful(i) =>
         \E k \in DOMAIN kept : i = kept[k] \/ Near(i, kept[k])

\* The values are those of the spectra that are kept.
ValuesInv ==
    /\ values \in Seq([DOMAIN At(0).values -> Int])
    /\ Len(values) = Len(kept)
    /\ \A k \in DOMAIN kept : values[k] = At(kept[k]).values

SelectInv ==
    /\ pc \notin {"find", "recommend", "ended"} => kept = <<>> /\ values = <<>>
    /\ pc \notin {"find", "recommend", "sweeps", "ended"} => index = 0
    /\ ranges # <<>> => pc = "ended" /\ config.modelStr \in DOMAIN Circuits
    /\ pc \in {"run", "find", "recommend"} => config.modelStr \in DOMAIN Circuits
    /\ pc \in {"find", "recommend"} => KeptInv
    /\ pc = "find" => ValuesInv
    /\ FoundRangesCover

-------------------------------------------------------------------------------
\* Whether the i-th of the values are all numbers.
NumbersAt(i) == Len(values) \in Nat /\ \A k \in 1..Len(values) : values[k][i] \in Int

\* The greatest of them is one that none exceeds, and is not below zero.
LEMMA GreatestBounds ==
    ASSUME NEW i, NumbersAt(i)
    PROVE  /\ Greatest(i) \in Int /\ Greatest(i) >= 0
           /\ \A k \in 1..Len(values) : values[k][i] <= Greatest(i)
<1> DEFINE n == Len(values)
           v(k) == values[k][i]
           max == CHOOSE r : r = [k \in 0..n |->
                    IF k = 0 THEN 0 ELSE IF v(k) > r[k - 1] THEN v(k) ELSE r[k - 1]]
           G == [p \in Int \X (1..n) |-> IF v(p[2]) > p[1] THEN v(p[2]) ELSE p[1]]
<1>1. n \in Nat /\ \A k \in 1..n : v(k) \in Int
  BY DEF NumbersAt
<1>2. Greatest(i) = max[n]
  BY Zenon DEF Greatest
<1> HIDE DEF n, v
<1>3. max = [k \in 0..n |->
               IF k = 0 THEN 0 ELSE IF v(k) > max[k - 1] THEN v(k) ELSE max[k - 1]]
  <2>1. \A x \in Int, p \in 1..n :
           G[<<x, p>>] = (IF v(p) > x THEN v(p) ELSE x) /\ G[<<x, p>>] \in Int
    BY <1>1
  <2> HIDE DEF G
  <2>2. PICK f : IsRecursion(f, Int, 0, n, G)
    <3>1. \A x \in Int, p \in 1..n : G[<<x, p>>] \in Int
      BY <2>1, Zenon
    <3>2. 0 \in Int
      OBVIOUS
    <3> QED
      BY <1>1, <3>1, <3>2, RecursionExists
  <2>3. /\ f \in [0..n -> Int]
        /\ \A p \in 0..n : f[p] = IF p = 0 THEN 0 ELSE G[<<f[p - 1], p>>]
    BY <2>2 DEF IsRecursion
  <2>4. \A p \in 0..n : f[p] = IF p = 0 THEN 0 ELSE IF v(p) > f[p - 1] THEN v(p) ELSE f[p - 1]
    <3> TAKE p \in 0..n
    <3>1. CASE p = 0
      BY <2>3, <3>1
    <3>2. CASE p # 0
      <4>1. p \in 1..n /\ p - 1 \in 0..n
        BY <1>1, <3>2
      <4>2. f[p - 1] \in Int
        BY <2>3, <4>1
      <4>3. G[<<f[p - 1], p>>] = (IF v(p) > f[p - 1] THEN v(p) ELSE f[p - 1])
        BY <2>1, <4>1, <4>2
      <4> QED
        BY <2>3, <3>2, <4>3
    <3> QED
      BY <3>1, <3>2
  <2>5. f = [k \in 0..n |-> IF k = 0 THEN 0 ELSE IF v(k) > f[k - 1] THEN v(k) ELSE f[k - 1]]
    BY <2>3, <2>4
  <2> QED
    BY <2>5, Zenon
<1> HIDE DEF max
<1>4. \A k \in 0..n :
         max[k] = IF k = 0 THEN 0 ELSE IF v(k) > max[k - 1] THEN v(k) ELSE max[k - 1]
  BY <1>3
<1> DEFINE S == {k \in Nat : k <= n => /\ max[k] \in Int /\ max[k] >= 0
                                       /\ \A j \in 1..k : v(j) <= max[k]}
<1>5. 0 \in S
  BY <1>1, <1>4
<1>6. ASSUME NEW k \in Nat, k \in S
      PROVE  k + 1 \in S
  <2> SUFFICES ASSUME k + 1 <= n
               PROVE  /\ max[k + 1] \in Int /\ max[k + 1] >= 0
                      /\ \A j \in 1..(k + 1) : v(j) <= max[k + 1]
    BY DEF S
  <2>1. PICK o : o = k + 1
    OBVIOUS
  <2>2. o \in 1..n /\ o \in 0..n /\ o # 0 /\ o - 1 = k
    BY <1>1, <2>1
  <2>3. max[o] = IF v(o) > max[k] THEN v(o) ELSE max[k]
    BY <1>4, <2>2
  <2>4. max[k] \in Int /\ max[k] >= 0 /\ \A j \in 1..k : v(j) <= max[k]
    BY <1>1, <1>6
  <2>5. v(o) \in Int
    BY <1>1, <2>2
  <2>6. max[o] \in Int /\ max[o] >= 0 /\ max[o] >= max[k] /\ max[o] >= v(o)
    BY <2>3, <2>4, <2>5
  <2>7. ASSUME NEW j \in 1..o
        PROVE  v(j) <= max[o]
    <3>1. CASE j = o
      BY <2>6, <3>1
    <3>2. CASE j \in 1..k
      <4>1. v(j) \in Int /\ v(j) <= max[k]
        BY <1>1, <2>2, <2>4, <3>2
      <4> QED
        BY <2>4, <2>6, <4>1
    <3> QED
      BY <2>1, <3>1, <3>2
  <2> QED
    BY <2>1, <2>6, <2>7
<1>7. n \in S
  <2> HIDE DEF S
  <2> QED
    BY <1>1, <1>5, <1>6, SetInduction
<1> QED
  BY <1>2, <1>7 DEF n, v

\* The least of them is one that none is below.
LEMMA LeastBounds ==
    ASSUME NEW i, NumbersAt(i)
    PROVE  /\ Least(i) \in Int
           /\ \A k \in 1..Len(values) : Least(i) <= values[k][i]
<1> DEFINE n == Len(values)
           v(k) == values[k][i]
           min == CHOOSE r : r = [k \in 0..n |->
                    IF k = 0 THEN Largest ELSE IF v(k) < r[k - 1] THEN v(k) ELSE r[k - 1]]
           G == [p \in Int \X (1..n) |-> IF v(p[2]) < p[1] THEN v(p[2]) ELSE p[1]]
<1>1. n \in Nat /\ \A k \in 1..n : v(k) \in Int
  BY DEF NumbersAt
<1>2. Least(i) = min[n]
  BY Zenon DEF Least
<1> HIDE DEF n, v
<1>3. min = [k \in 0..n |->
               IF k = 0 THEN Largest ELSE IF v(k) < min[k - 1] THEN v(k) ELSE min[k - 1]]
  <2>1. \A x \in Int, p \in 1..n :
           G[<<x, p>>] = (IF v(p) < x THEN v(p) ELSE x) /\ G[<<x, p>>] \in Int
    BY <1>1
  <2> HIDE DEF G
  <2>2. PICK f : IsRecursion(f, Int, Largest, n, G)
    <3>1. \A x \in Int, p \in 1..n : G[<<x, p>>] \in Int
      BY <2>1, Zenon
    <3>2. Largest \in Int
      BY LargestAssumption
    <3> QED
      BY <1>1, <3>1, <3>2, RecursionExists
  <2>3. /\ f \in [0..n -> Int]
        /\ \A p \in 0..n : f[p] = IF p = 0 THEN Largest ELSE G[<<f[p - 1], p>>]
    BY <2>2 DEF IsRecursion
  <2>4. \A p \in 0..n : f[p] = IF p = 0 THEN Largest ELSE IF v(p) < f[p - 1] THEN v(p) ELSE f[p - 1]
    <3> TAKE p \in 0..n
    <3>1. CASE p = 0
      BY <2>3, <3>1
    <3>2. CASE p # 0
      <4>1. p \in 1..n /\ p - 1 \in 0..n
        BY <1>1, <3>2
      <4>2. f[p - 1] \in Int
        BY <2>3, <4>1
      <4>3. G[<<f[p - 1], p>>] = (IF v(p) < f[p - 1] THEN v(p) ELSE f[p - 1])
        BY <2>1, <4>1, <4>2
      <4> QED
        BY <2>3, <3>2, <4>3
    <3> QED
      BY <3>1, <3>2
  <2>5. f = [k \in 0..n |-> IF k = 0 THEN Largest ELSE IF v(k) < f[k - 1] THEN v(k) ELSE f[k - 1]]
    BY <2>3, <2>4
  <2> QED
    BY <2>5, Zenon
<1> HIDE DEF min
<1>4. \A k \in 0..n :
         min[k] = IF k = 0 THEN Largest ELSE IF v(k) < min[k - 1] THEN v(k) ELSE min[k - 1]
  BY <1>3
<1> DEFINE S == {k \in Nat : k <= n => /\ min[k] \in Int
                                       /\ \A j \in 1..k : min[k] <= v(j)}
<1>5. 0 \in S
  BY <1>1, <1>4, LargestAssumption
<1>6. ASSUME NEW k \in Nat, k \in S
      PROVE  k + 1 \in S
  <2> SUFFICES ASSUME k + 1 <= n
               PROVE  /\ min[k + 1] \in Int
                      /\ \A j \in 1..(k + 1) : min[k + 1] <= v(j)
    BY DEF S
  <2>1. PICK o : o = k + 1
    OBVIOUS
  <2>2. o \in 1..n /\ o \in 0..n /\ o # 0 /\ o - 1 = k
    BY <1>1, <2>1
  <2>3. min[o] = IF v(o) < min[k] THEN v(o) ELSE min[k]
    BY <1>4, <2>2
  <2>4. min[k] \in Int /\ \A j \in 1..k : min[k] <= v(j)
    BY <1>1, <1>6
  <2>5. v(o) \in Int
    BY <1>1, <2>2
  <2>6. min[o] \in Int /\ min[o] <= min[k] /\ min[o] <= v(o)
    BY <2>3, <2>4, <2>5
  <2>7. ASSUME NEW j \in 1..o
        PROVE  min[o] <= v(j)
    <3>1. CASE j = o
      BY <2>6, <3>1
    <3>2. CASE j \in 1..k
      <4>1. v(j) \in Int /\ min[k] <= v(j)
        BY <1>1, <2>2, <2>4, <3>2
      <4> QED
        BY <2>4, <2>6, <4>1
    <3> QED
      BY <2>1, <3>1, <3>2
  <2> QED
    BY <2>1, <2>6, <2>7
<1>7. n \in S
  <2> HIDE DEF S
  <2> QED
    BY <1>1, <1>5, <1>6, SetInduction
<1> QED
  BY <1>2, <1>7 DEF n, v

\* A spread of less than the mean over the root of ten.
Narrow(G, L) ==
    /\ G \in Int /\ L \in Int /\ G >= 0 /\ L <= G
    /\ 40 * (G - L) * (G - L) < (G + L) * (G + L)

\* Then the values are positive, and none is more than three times another.
LEMMA NarrowIsNear ==
    ASSUME NEW G, NEW L, Narrow(G, L)
    PROVE  L > 0 /\ G < 3 * L
<1>1. /\ G \in Int /\ L \in Int /\ G >= 0 /\ L <= G
      /\ 40 * (G - L) * (G - L) < (G + L) * (G + L)
  BY DEF Narrow
<1>2. PICK d \in Nat, t \in Int : d = G - L /\ t = G + L
  BY <1>1
<1>3. 40 * d * d < t * t
  BY <1>1, <1>2
<1>4. CASE t <= 2 * d /\ -2 * d <= t
  <2>1. (2 * d - t) * (2 * d + t) >= 0
    <3>1. PICK x \in Nat, y \in Nat : x = 2 * d - t /\ y = 2 * d + t
      BY <1>2, <1>4
    <3>2. x * y >= 0
      OBVIOUS
    <3> QED
      BY <3>1, <3>2
  <2>2. (2 * d - t) * (2 * d + t) = 4 * (d * d) - t * t
    BY <1>2
  <2>3. d * d >= 0
    BY <1>2
  <2>4. 40 * d * d = 40 * (d * d)
    BY <1>2
  <2> QED
    BY <1>2, <1>3, <2>1, <2>2, <2>3, <2>4
<1>5. CASE t > 2 * d \/ t < -2 * d
  BY <1>1, <1>2, <1>5
<1> QED
  BY <1>2, <1>4, <1>5

\* A range that covers one value, or fixes it near the value.
Covers(range, value) ==
    IF range.fixed THEN value * 2 >= range.start /\ value <= range.end * 2
    ELSE range.start <= value /\ value <= range.end

\* What findRanges makes of the values covers each of them.
LEMMA RangeCovers ==
    ASSUME NEW i, NumbersAt(i), NEW k \in 1..Len(values)
    PROVE  Covers(FixedOrRange(i), values[k][i])
<1>1. PICK G, L, v : G = Greatest(i) /\ L = Least(i) /\ v = values[k][i]
  OBVIOUS
<1>2. G \in Int /\ G >= 0 /\ L \in Int /\ v \in Int /\ L <= v /\ v <= G
  BY <1>1, GreatestBounds, LeastBounds DEF NumbersAt
<1>3. FixedOrRange(i) =
        IF 40 * (G - L) * (G - L) < (G + L) * (G + L)
        THEN [fixed |-> TRUE, start |-> (G + L) \div 2, end |-> (G + L) \div 2]
        ELSE [fixed |-> FALSE, start |-> L, end |-> G]
  BY <1>1, Zenon DEF FixedOrRange
<1>4. CASE 40 * (G - L) * (G - L) < (G + L) * (G + L)
  <2>1. L <= G
    BY <1>2
  <2>2. Narrow(G, L)
    BY <1>2, <1>4, <2>1, Zenon DEF Narrow
  <2>3. L > 0 /\ G < 3 * L
    BY <2>2, NarrowIsNear
  <2>4. PICK m \in Int : m = (G + L) \div 2
    BY <1>2
  <2>5. 2 * m <= G + L /\ G + L <= 2 * m + 1
    BY <1>2, <2>4
  <2>6. v * 2 >= m /\ v <= m * 2
    BY <1>2, <2>3, <2>5
  <2>7. FixedOrRange(i) = [fixed |-> TRUE, start |-> m, end |-> m]
    BY <1>3, <1>4, <2>4, Zenon
  <2> QED
    BY <1>1, <2>6, <2>7 DEF Covers
<1>5. CASE ~(40 * (G - L) * (G - L) < (G + L) * (G + L))
  <2>1. FixedOrRange(i) = [fixed |-> FALSE, start |-> L, end |-> G]
    BY <1>3, <1>5, Zenon
  <2> QED
    BY <1>1, <1>2, <2>1 DEF Covers
<1> QED
  BY <1>4, <1>5

-------------------------------------------------------------------------------
\* What is taken up to an index goes on with the next.
ChosenFrom(n) ==
    /\ Chosen(0) = {}
    /\ Chosen(n + 1) =
         IF /\ Meaningful(n)
            /\ \A j \in Chosen(n) : ~Near(n, j)
         THEN Chosen(n) \cup {n} ELSE Chosen(n)

\* At each index.
LEMMA ChosenGoesOn == \A n \in Nat : ChosenFrom(n)
BY ChosenAt DEF ChosenFrom

\* The choice is one of the settings alone.
LEMMA ChosenSame ==
    ASSUME config' = config
    PROVE  \A n \in Nat : Chosen(n)' = Chosen(n)
<1> DEFINE S == {n \in Nat : Chosen(n)' = Chosen(n)}
<1>1. (\A n \in Nat : ChosenFrom(n))'
  BY ChosenGoesOn, PTL
<1>2. /\ Chosen(0)' = {}
      /\ \A n \in Nat : Chosen(n + 1)' =
           IF /\ Meaningful(n)'
              /\ \A j \in Chosen(n)' : ~Near(n, j)'
           THEN Chosen(n)' \cup {n} ELSE Chosen(n)'
  BY <1>1 DEF ChosenFrom
<1>3. /\ Chosen(0) = {}
      /\ \A n \in Nat : Chosen(n + 1) =
           IF /\ Meaningful(n)
              /\ \A j \in Chosen(n) : ~Near(n, j)
           THEN Chosen(n) \cup {n} ELSE Chosen(n)
  BY ChosenGoesOn DEF ChosenFrom
<1>4. \A n : Meaningful(n)' = Meaningful(n)
  BY DEF Meaningful, At, Circuit
<1>5. \A n, j : Near(n, j)' = Near(n, j)
  BY DEF Near, Differences, At, Circuit
<1>6. 0 \in S
  BY <1>2, <1>3
<1>7. ASSUME NEW n \in Nat, n \in S
      PROVE  n + 1 \in S
  <2>1. Chosen(n)' = Chosen(n)
    BY <1>7
  <2>2. \A j : ~Near(n, j)' <=> ~Near(n, j)
    BY <1>5
  <2>3. (/\ Meaningful(n)'
         /\ \A j \in Chosen(n)' : ~Near(n, j)')
        <=> (/\ Meaningful(n)
             /\ \A j \in Chosen(n) : ~Near(n, j))
    BY <1>4, <2>1, <2>2, Zenon
  <2>4. Chosen(n + 1)' = Chosen(n + 1)
    BY <1>2, <1>3, <2>1, <2>3, Zenon
  <2>5. n + 1 \in Nat
    OBVIOUS
  <2> QED
    BY <2>4, <2>5
<1> QED
  <2> HIDE DEF S
  <2>1. \A n \in Nat : n \in S
    BY <1>6, <1>7, SetInduction
  <2> QED
    BY <2>1 DEF S

-------------------------------------------------------------------------------
\* What the program looks at depends on the settings alone.
LEMMA PointsSame ==
    ASSUME config' = config
    PROVE  /\ Count' = Count
           /\ \A i : At(i)' = At(i) /\ Meaningful(i)' = Meaningful(i)
           /\ \A i, j : Near(i, j)' = Near(i, j)
BY DEF Count, At, Circuit, Meaningful, Near, Differences

\* One round of the loops over the sweep keeps what the rule chooses.
LEMMA KeptGrows ==
    ASSUME KeptInv, config.modelStr \in DOMAIN Circuits, index < Count, Look(Meaningful(index) /\ IsNew(index))
    PROVE  /\ KeptInv'
           /\ kept \in Seq(Nat) /\ index \in 0..(Count - 1)
<1> DEFINE new == Meaningful(index) /\ IsNew(index)
<1>1. /\ index \in 0..Count /\ kept \in Seq(Nat)
      /\ ToSet(kept) = Chosen(index)
      /\ \A k \in DOMAIN kept : kept[k] \in 0..(index - 1)
      /\ \A k \in DOMAIN kept : \A l \in 1..(k - 1) :
           kept[l] < kept[k] /\ ~Near(kept[l], kept[k])
      /\ \A i \in 0..(index - 1) : Meaningful(i) =>
           \E k \in DOMAIN kept : i = kept[k] \/ Near(i, kept[k])
  BY DEF KeptInv
<1>2. /\ config' = config /\ index' = index + 1
      /\ kept' = IF new THEN Append(kept, index) ELSE kept
  BY DEF Look
<1>3. Count \in Nat /\ index \in Nat /\ index \in 0..(Count - 1)
  BY <1>1, PointsTyped
<1>4. /\ Count' = Count
      /\ \A i : Meaningful(i)' = Meaningful(i)
      /\ \A i, j : Near(i, j)' = Near(i, j)
  BY <1>2, PointsSame
<1>5. PICK n, len : n = index /\ len = Len(kept)
  OBVIOUS
<1>6. n \in Nat /\ n \in 0..(Count - 1) /\ len \in Nat /\ DOMAIN kept = 1..len
  BY <1>1, <1>3, <1>5
<1>8. \A i, j \in 0..(Count - 1) : Near(i, j) <=> Near(j, i)
  BY NearBothWays
<1>9. \A k \in 1..len : kept[k] \in Nat /\ kept[k] < n /\ kept[k] \in 0..(Count - 1)
  BY <1>1, <1>3, <1>5, <1>6
<1>10. Chosen(n + 1) = IF new THEN Chosen(n) \cup {n} ELSE Chosen(n)
  <2>1. (\A j \in Chosen(n) : ~Near(n, j)) <=> IsNew(n)
    BY <1>1, <1>5 DEF IsNew, ToSet
  <2> QED
    BY <1>5, <1>6, <2>1, ChosenAt
<1>11. (Chosen(index) = Chosen(n + 1))' /\ Chosen(n + 1)' = Chosen(n + 1)
  <2>1. \A m \in Nat : Chosen(m)' = Chosen(m)
    BY <1>2, ChosenSame
  <2>2. n + 1 \in Nat /\ index' = n + 1
    BY <1>2, <1>5, <1>6
  <2> QED
    BY <2>1, <2>2
<1>12. CASE new
  <2>1. /\ kept' = Append(kept, n)
        /\ kept' \in Seq(Nat) /\ DOMAIN kept' = 1..(len + 1)
        /\ \A k \in 1..len : kept'[k] = kept[k]
        /\ kept'[len + 1] = n
    BY <1>1, <1>2, <1>5, <1>6, <1>12
  <2>2. ToSet(kept') = Chosen(n + 1)
    <3>1. ToSet(kept') = ToSet(kept) \cup {n}
      BY <1>6, <2>1 DEF ToSet
    <3> QED
      BY <1>1, <1>5, <1>10, <1>12, <3>1
  <2>3. \A k \in DOMAIN kept' : kept'[k] \in 0..n
    BY <1>6, <1>9, <2>1
  <2>4. ASSUME NEW k \in 1..(len + 1), NEW l \in 1..(k - 1)
        PROVE  kept'[l] < kept'[k] /\ ~Near(kept'[l], kept'[k])
    <3>1. l \in 1..len /\ kept'[l] = kept[l]
      BY <1>6, <2>1
    <3>2. CASE k \in 1..len
      BY <1>1, <1>6, <2>1, <3>1, <3>2
    <3>3. CASE k = len + 1
      <4>1. ~Near(n, kept[l])
        BY <1>5, <1>6, <1>12, <3>1 DEF IsNew
      <4>2. Near(kept[l], n) <=> Near(n, kept[l])
        BY <1>6, <1>8, <1>9, <3>1
      <4> QED
        BY <1>9, <2>1, <3>1, <3>3, <4>1, <4>2
    <3> QED
      BY <1>6, <3>2, <3>3
  <2>5. ASSUME NEW i \in 0..n, Meaningful(i)
        PROVE  \E k \in 1..(len + 1) :
                 i = kept'[k] \/ Near(i, kept'[k])
    <3>1. CASE i = n
      BY <1>6, <2>1, <3>1
    <3>2. CASE i \in 0..(n - 1)
      <4>1. PICK k \in 1..len : i = kept[k] \/ Near(i, kept[k])
        BY <1>1, <1>5, <1>6, <2>5, <3>2
      <4> QED
        BY <1>6, <2>1, <4>1
    <3> QED
      BY <1>6, <3>1, <3>2
  <2> QED
    <3>1. index' = n + 1 /\ n + 1 \in 0..Count' /\ n + 1 - 1 = n
      BY <1>2, <1>3, <1>4, <1>5, <1>6
    <3>2. (index \in 0..Count)'
      BY <3>1
    <3>3. (kept \in Seq(Nat))'
      BY <1>1, <2>1
    <3>4. (ToSet(kept) = Chosen(index))'
      BY <1>11, <2>2
    <3>5. (\A k \in DOMAIN kept : kept[k] \in 0..(index - 1))'
      BY <1>6, <2>1, <2>3, <3>1
    <3>6. (\A k \in DOMAIN kept : \A l \in 1..(k - 1) :
             kept[l] < kept[k] /\ ~Near(kept[l], kept[k]))'
      BY <1>1, <1>2, <1>4, <2>1, <2>4
    <3>7. (\A i \in 0..(index - 1) : Meaningful(i) =>
             \E k \in DOMAIN kept :
               i = kept[k] \/ Near(i, kept[k]))'
      <4>1. 0..(index' - 1) = 0..n
        BY <1>6, <3>1
      <4>2. \A i \in 0..n : Meaningful(i)' =>
               \E k \in DOMAIN kept' : \E m :
                 m = kept'[k] /\ (i = m \/ Near(i, m)')
        BY <1>2, <1>4, <2>1, <2>5, Zenon
      <4> QED
        BY <4>1, <4>2
    <3> QED
      BY <1>1, <1>3, <3>2, <3>3, <3>4, <3>5, <3>6, <3>7 DEF KeptInv
<1>13. CASE ~new
  <2>1. kept' = kept
    BY <1>2, <1>13
  <2>2. ToSet(kept') = Chosen(n + 1)
    BY <1>1, <1>5, <1>10, <1>13, <2>1
  <2>3. \A k \in DOMAIN kept' : kept'[k] \in 0..n
    BY <1>6, <1>9, <2>1
  <2>4. ASSUME NEW i \in 0..n, Meaningful(i)
        PROVE  \E k \in 1..len :
                 i = kept[k] \/ Near(i, kept[k])
    <3>1. CASE i = n
      <4>1. PICK k \in 1..len : Near(n, kept[k])
        BY <1>5, <1>6, <1>13, <2>4, <3>1 DEF IsNew
      <4> QED
        BY <3>1, <4>1
    <3>2. CASE i \in 0..(n - 1)
      BY <1>1, <1>5, <1>6, <2>4, <3>2
    <3> QED
      BY <1>6, <3>1, <3>2
  <2> QED
    <3>1. index' = n + 1 /\ n + 1 \in 0..Count' /\ n + 1 - 1 = n
      BY <1>2, <1>3, <1>4, <1>5, <1>6
    <3>2. (index \in 0..Count)'
      BY <3>1
    <3>3. (kept \in Seq(Nat))'
      BY <1>1, <2>1
    <3>4. (ToSet(kept) = Chosen(index))'
      BY <1>11, <2>2
    <3>5. (\A k \in DOMAIN kept : kept[k] \in 0..(index - 1))'
      BY <1>6, <2>1, <2>3, <3>1
    <3>6. (\A k \in DOMAIN kept : \A l \in 1..(k - 1) :
             kept[l] < kept[k] /\ ~Near(kept[l], kept[k]))'
      BY <1>1, <1>2, <1>4, <2>1
    <3>7. (\A i \in 0..(index - 1) : Meaningful(i) =>
             \E k \in DOMAIN kept :
               i = kept[k] \/ Near(i, kept[k]))'
      BY <1>2, <1>4, <1>6, <2>1, <2>4, <3>1
    <3> QED
      BY <1>1, <1>3, <3>2, <3>3, <3>4, <3>5, <3>6, <3>7 DEF KeptInv
<1> QED
  BY <1>1, <1>3, <1>12, <1>13

\* The values recorded with a spectrum are those at its own index, with threads too.
LEMMA ValuesGrow ==
    ASSUME KeptInv, ValuesInv, config.modelStr \in DOMAIN Circuits, FindStep
    PROVE  ValuesInv'
<1> DEFINE new == Meaningful(index) /\ IsNew(index)
           T == [DOMAIN At(0).values -> Int]
<1>1. /\ index \in 0..(Count - 1)
      /\ kept' = IF new THEN Append(kept, index) ELSE kept
      /\ values' = IF new THEN Append(values, At(step').values) ELSE values
      /\ step' = KeptStep(new)
      /\ config' = config
  BY PointsTyped DEF FindStep, Look, KeptInv
<1>2. /\ values \in Seq(T) /\ Len(values) = Len(kept)
      /\ \A k \in DOMAIN kept : values[k] = At(kept[k]).values
      /\ kept \in Seq(Nat) /\ index \in Nat
  BY <1>1 DEF ValuesInv, KeptInv
<1>3. \A i : At(i)' = At(i)
  BY <1>1, PointsSame
<1>4. new => step' = index
  BY <1>1, Zenon DEF KeptStep, SweptStep
<1>5. PICK len : len = Len(kept)
  OBVIOUS
<1>6. len \in Nat /\ DOMAIN kept = 1..len /\ DOMAIN values = 1..len
  BY <1>2, <1>5
<1>7. T' = T
  BY <1>3
<1> HIDE DEF T
<1>8. CASE new
  <2>1. PICK point : point = At(index)
    OBVIOUS
  <2>2. point.values \in T
    BY <1>1, <2>1, PointsTyped DEF T
  <2>3. kept' = Append(kept, index) /\ values' = Append(values, point.values)
    BY <1>1, <1>4, <1>8, <2>1
  <2>4. /\ values' \in Seq(T) /\ Len(values') = Len(kept') /\ DOMAIN kept' = 1..(len + 1)
        /\ \A k \in 1..len : kept'[k] = kept[k] /\ values'[k] = values[k]
        /\ kept'[len + 1] = index /\ values'[len + 1] = point.values
    BY <1>2, <1>5, <1>6, <2>2, <2>3
  <2>5. ASSUME NEW k \in 1..(len + 1), NEW m, m = kept'[k]
        PROVE  values'[k] = At(m).values
    <3>1. CASE k \in 1..len
      BY <1>2, <1>6, <2>4, <2>5, <3>1
    <3>2. CASE k = len + 1
      BY <2>1, <2>4, <2>5, <3>2
    <3> QED
      BY <1>6, <3>1, <3>2
  <2>6. (values \in Seq(T))' /\ (Len(values) = Len(kept))'
    BY <1>7, <2>4
  <2>7. (\A k \in DOMAIN kept : values[k] = At(kept[k]).values)'
    <3>1. \A k \in DOMAIN kept' : \A m : m = kept'[k] => values'[k] = At(m)'.values
      BY <1>3, <2>4, <2>5
    <3> QED
      BY <3>1
  <2> QED
    BY <2>6, <2>7 DEF ValuesInv, T
<1>9. CASE ~new
  <2>1. kept' = kept /\ values' = values
    BY <1>1, <1>9
  <2>2. (values \in Seq(T))' /\ (Len(values) = Len(kept))'
    BY <1>2, <1>7, <2>1
  <2>3. (\A k \in DOMAIN kept : values[k] = At(kept[k]).values)'
    BY <1>2, <1>3, <2>1
  <2> QED
    BY <2>2, <2>3 DEF ValuesInv, T
<1> QED
  BY <1>8, <1>9

\* The ranges that are found cover the values of every spectrum that was kept.
LEMMA FoundRanges ==
    ASSUME KeptInv, ValuesInv, config.modelStr \in DOMAIN Circuits, FindRanges
    PROVE  FoundRangesCover'
<1>1. /\ index = Count /\ config' = config
      /\ ranges' = IF values = <<>> THEN <<>> ELSE [i \in DOMAIN values[1] |-> FixedOrRange(i)]
  BY DEF FindRanges
<1>2. /\ \A n \in Nat : Chosen(n)' = Chosen(n)
      /\ Count' = Count /\ Count \in Nat
      /\ \A j : At(j)' = At(j)
  BY <1>1, ChosenSame, PointsSame, PointsTyped
<1>3. PICK n : n = Count
  OBVIOUS
<1>4. (Chosen(Count) = Chosen(n))' /\ Chosen(n)' = Chosen(n)
  BY <1>2, <1>3
<1>5. ASSUME NEW i \in DOMAIN ranges', NEW j \in Chosen(n)
      PROVE  Covers(ranges'[i], At(j).values[i])
  <2>1. /\ values \in Seq([DOMAIN At(0).values -> Int])
        /\ Len(values) = Len(kept) /\ kept \in Seq(Nat)
        /\ \A k \in DOMAIN kept : values[k] = At(kept[k]).values
    BY DEF ValuesInv, KeptInv
  <2>2. PICK k \in DOMAIN kept : kept[k] = j
    <3>1. ToSet(kept) = Chosen(n)
      BY <1>1, <1>3 DEF KeptInv
    <3> QED
      BY <3>1 DEF ToSet
  <2>3. k \in 1..Len(values) /\ values[k] = At(j).values
    BY <2>1, <2>2
  <2>4. values # <<>>
    BY <2>1, <2>3
  <2>5. i \in DOMAIN values[1] /\ ranges'[i] = FixedOrRange(i)
    BY <1>1, <1>5, <2>4
  <2>6. NumbersAt(i)
    <3>1. Len(values) \in Nat /\ 1 \in 1..Len(values)
      BY <2>1, <2>3
    <3>2. \A m \in 1..Len(values) : values[m] \in [DOMAIN At(0).values -> Int]
      BY <2>1
    <3> QED
      BY <2>5, <3>1, <3>2 DEF NumbersAt
  <2> QED
    BY <2>3, <2>5, <2>6, RangeCovers
<1>6. (\A i \in DOMAIN ranges : \A j \in Chosen(Count) : Covers(ranges[i], At(j).values[i]))'
  <2>1. \A i \in DOMAIN ranges' : \A j \in Chosen(n)' : Covers(ranges'[i], At(j)'.values[i])
    BY <1>2, <1>4, <1>5
  <2> QED
    BY <1>4, <2>1
<1> QED
  BY <1>6 DEF FoundRangesCover, Covers

\* Where no spectra are looked at, nothing is kept.
LEMMA SelectIdle ==
    ASSUME SelectInv, index' = index, kept' = kept, values' = values, ranges' = ranges,
           pc \notin {"find", "recommend", "sweeps", "ended"},
           pc' \notin {"run", "find", "recommend"}
    PROVE  SelectInv'
<1>1. kept = <<>> /\ values = <<>> /\ index = 0 /\ ranges = <<>>
  BY DEF SelectInv
<1>2. FoundRangesCover'
  BY <1>1 DEF FoundRangesCover
<1> QED
  BY <1>1, <1>2 DEF SelectInv

\* No option of the command line begins to look at spectra.
LEMMA ParseSelects ==
    ASSUME SelectInv, ParseInv, Parsing,
           Advance \/ Continue \/ LongOption \/ ShortOption \/ Finalize
    PROVE  SelectInv'
<1>1. index' = index /\ kept' = kept /\ values' = values /\ ranges' = ranges
  BY DEF Parsing, modelVars
<1>2. ASSUME NEW key, NEW token, NEW next, NEW rest, Option(key, token, next, rest)
      PROVE  pc' \in {"scan", "ended"}
  BY <1>2 DEF Option
<1>3. Usage => pc' = "ended"
  BY DEF Usage
<1>4. CASE Advance
  <2>1. pc = "scan" /\ pc' \in {"long", "short", "arguments"}
    BY <1>4, AdvanceKeeps DEF Advance
  <2> QED
    BY <1>1, <2>1, SelectIdle
<1>5. CASE Continue
  <2>1. pc = "scan" /\ pc' = "short"
    BY <1>5 DEF Continue
  <2> QED
    BY <1>1, <2>1, SelectIdle
<1>6. CASE LongOption
  <2>1. pc = "long"
    BY <1>6 DEF LongOption
  <2>2. Usage \/ \E key, token, next, rest : Option(key, token, next, rest)
    BY <1>6, Zenon DEF LongOption
  <2>3. pc' \in {"scan", "ended"}
    BY <1>2, <1>3, <2>2
  <2> QED
    BY <1>1, <2>1, <2>3, SelectIdle
<1>7. CASE ShortOption
  <2>1. pc = "short"
    BY <1>7 DEF ShortOption
  <2>2. Usage \/ \E key, token, next, rest : Option(key, token, next, rest)
    BY <1>7, Zenon DEF ShortOption, ShortArgument
  <2>3. pc' \in {"scan", "ended"}
    BY <1>2, <1>3, <2>2
  <2> QED
    BY <1>1, <2>1, <2>3, SelectIdle
<1>8. CASE Finalize
  <2>1. pc = "arguments" /\ pc' \in {"parsed", "ended"}
    BY <1>8 DEF Finalize, Usage
  <2> QED
    BY <1>1, <2>1, SelectIdle
<1> QED
  BY <1>4, <1>5, <1>6, <1>7, <1>8

\* Before the first spectrum nothing is chosen.
LEMMA NothingKept ==
    ASSUME config.modelStr \in DOMAIN Circuits, index = 0, kept = <<>>, values = <<>>
    PROVE  KeptInv /\ ValuesInv
<1>1. Chosen(0) = {}
  <2>1. 0 \in Nat
    OBVIOUS
  <2> QED
    BY <2>1, ChosenAt
<1>2. Count \in Nat
  BY PointsTyped
<1>3. KeptInv
  BY <1>1, <1>2 DEF KeptInv, ToSet
<1>4. ValuesInv
  BY DEF ValuesInv
<1> QED
  BY <1>3, <1>4

\* It goes on holding at the first round.
LEMMA SelectStarts == (config.modelStr \in DOMAIN Circuits /\ index = 0 /\ kept = <<>> /\ values = <<>>)
                      => KeptInv /\ ValuesInv
BY NothingKept

\* The modes of main.
LEMMA MainSelects ==
    ASSUME SelectInv, Main
    PROVE  SelectInv'
<1>1. /\ pc \notin {"find", "recommend", "ended"} => kept = <<>> /\ values = <<>>
      /\ pc \notin {"find", "recommend", "sweeps", "ended"} => index = 0
      /\ pc # "ended" => ranges = <<>>
      /\ pc \in {"run", "find", "recommend"} => config.modelStr \in DOMAIN Circuits
      /\ pc \in {"find", "recommend"} => KeptInv
      /\ pc = "find" => ValuesInv
  BY DEF SelectInv
<1>2. ASSUME Prepare
      PROVE  SelectInv'
  <2>1. /\ pc = "parsed" /\ pc' \in {"construct", "ended"}
        /\ index' = index /\ kept' = kept /\ values' = values /\ ranges' = ranges
    BY <1>2 DEF Prepare, Exit, Go, modelVars
  <2> QED
    BY <2>1, SelectIdle
<1>3. ASSUME StartParamSweep \/ RunSweep
      PROVE  SelectInv'
  <2>1. /\ pc \in {"start", "sweep"} /\ pc' \in {"sweeps", "ended"} /\ config' = config
        /\ index' = index /\ kept' = kept /\ values' = values /\ ranges' = ranges
    BY <1>3 DEF StartParamSweep, RunSweep, Exit, Go, modelVars
  <2> QED
    BY <1>1, <2>1, SelectIdle
<1>4. ASSUME Construct
      PROVE  SelectInv'
  <2>1. /\ pc = "construct" /\ config' = config
        /\ pc' = "ended" \/ (pc' = "run" /\ config.modelStr \in DOMAIN Circuits)
        /\ index' = index /\ kept' = kept /\ values' = values /\ ranges' = ranges
    BY <1>4 DEF Construct, Exit, Go, modelVars
  <2>2. FoundRangesCover'
    BY <1>1, <2>1 DEF FoundRangesCover
  <2> QED
    BY <1>1, <2>1, <2>2 DEF SelectInv
<1>5. ASSUME RunMode
      PROVE  SelectInv'
  <2>1. /\ pc = "run" /\ config' = config
        /\ pc' \in {"find", "recommend", "start", "sweep", "ended"}
        /\ index' = index /\ kept' = kept /\ values' = values /\ ranges' = ranges
    BY <1>5 DEF RunMode, Exit, Go, modelVars
  <2>2. FoundRangesCover'
    BY <1>1, <2>1 DEF FoundRangesCover
  <2>3. (config.modelStr \in DOMAIN Circuits /\ index = 0 /\ kept = <<>> /\ values = <<>>)'
    BY <1>1, <2>1
  <2>4. (KeptInv /\ ValuesInv)'
    <3>1. (config.modelStr \in DOMAIN Circuits /\ index = 0 /\ kept = <<>> /\ values = <<>>
             => KeptInv /\ ValuesInv)'
      BY SelectStarts, PTL
    <3> QED
      BY <2>3, <3>1
  <2> QED
    BY <1>1, <2>1, <2>2, <2>3, <2>4 DEF SelectInv
<1>6. ASSUME FindStep
      PROVE  SelectInv'
  <2>1. /\ pc = "find" /\ index < Count
        /\ Look(Meaningful(index) /\ IsNew(index))
    BY <1>6 DEF FindStep
  <2>2. /\ pc' = "find" /\ config' = config /\ ranges' = ranges
    BY <2>1 DEF Look
  <2>3. KeptInv'
    BY <1>1, <2>1, KeptGrows
  <2>4. ValuesInv'
    BY <1>1, <1>6, <2>1, ValuesGrow
  <2>5. FoundRangesCover'
    BY <2>2 DEF FoundRangesCover
  <2> QED
    BY <1>1, <2>1, <2>2, <2>3, <2>4, <2>5 DEF SelectInv
<1>7. ASSUME RecommendStep
      PROVE  SelectInv'
  <2>1. /\ pc = "recommend" /\ index < Count
        /\ Look(Meaningful(index) /\ IsNew(index))
    BY <1>7 DEF RecommendStep
  <2>2. /\ pc' = "recommend" /\ config' = config /\ ranges' = ranges
    BY <2>1 DEF Look
  <2>3. KeptInv'
    BY <1>1, <2>1, KeptGrows
  <2>4. FoundRangesCover'
    BY <2>2 DEF FoundRangesCover
  <2> QED
    BY <1>1, <2>1, <2>2, <2>3, <2>4 DEF SelectInv
<1>8. ASSUME FindRanges
      PROVE  SelectInv'
  <2>1. pc = "find" /\ pc' = "ended" /\ config' = config
    BY <1>8 DEF FindRanges, Exit
  <2>2. FoundRangesCover'
    BY <1>1, <1>8, <2>1, FoundRanges
  <2> QED
    BY <1>1, <2>1, <2>2 DEF SelectInv
<1>9. ASSUME OutputRanges
      PROVE  SelectInv'
  <2>1. pc = "recommend" /\ pc' = "ended" /\ config' = config /\ ranges' = ranges
    BY <1>9 DEF OutputRanges, Exit
  <2>2. FoundRangesCover'
    BY <1>1, <2>1 DEF FoundRangesCover
  <2> QED
    BY <1>1, <2>1, <2>2 DEF SelectInv
<1>10. ASSUME ParamSweepStep \/ EndParamSweep
       PROVE  SelectInv'
  <2>1. /\ pc = "sweeps" /\ pc' \in {"sweeps", "ended"} /\ config' = config
        /\ ranges' = ranges /\ kept' = kept /\ values' = values
    BY <1>10 DEF ParamSweepStep, EndParamSweep, Exit, modelVars
  <2>2. FoundRangesCover'
    BY <1>1, <2>1 DEF FoundRangesCover
  <2> QED
    BY <1>1, <2>1, <2>2 DEF SelectInv
<1> QED
  BY <1>2, <1>3, <1>4, <1>5, <1>6, <1>7, <1>8, <1>9, <1>10 DEF Main

\* The choice keeps its invariant whatever happens.
LEMMA SelectKeeps ==
    ASSUME ParseInv, SelectInv, [Next]_vars
    PROVE  SelectInv'
<1>1. CASE UNCHANGED vars
  <2>1. /\ config' = config /\ pc' = pc /\ index' = index /\ kept' = kept
        /\ values' = values /\ ranges' = ranges
    BY <1>1 DEF vars, getoptVars, modelVars
  <2>2. /\ \A n \in Nat : Chosen(n)' = Chosen(n)
        /\ Count' = Count
        /\ \A i : At(i)' = At(i) /\ Meaningful(i)' = Meaningful(i)
        /\ \A i, j : Near(i, j)' = Near(i, j)
    BY <2>1, ChosenSame, PointsSame
  <2>3. ASSUME KeptInv
        PROVE  KeptInv'
    <3>1. PICK n : n = index
      OBVIOUS
    <3>2. n \in Nat
      BY <2>3, <3>1 DEF KeptInv
    <3>3. (Chosen(index) = Chosen(n))' /\ Chosen(n)' = Chosen(n)
      BY <2>1, <2>2, <3>1, <3>2
    <3>4. (ToSet(kept) = Chosen(index))'
      BY <2>1, <2>3, <3>1, <3>3 DEF KeptInv
    <3> QED
      BY <2>1, <2>2, <2>3, <3>4 DEF KeptInv
  <2>4. ValuesInv => ValuesInv'
    BY <2>1, <2>2 DEF ValuesInv
  <2>5. FoundRangesCover'
    <3>1. CASE ranges = <<>>
      BY <2>1, <3>1 DEF FoundRangesCover
    <3>2. CASE ranges # <<>>
      <4>1. PICK n : n = Count
        OBVIOUS
      <4>2. n \in Nat
        BY <3>2, <4>1, PointsTyped DEF SelectInv
      <4>3. (Chosen(Count) = Chosen(n))' /\ Chosen(n)' = Chosen(n)
        BY <2>2, <4>1, <4>2
      <4>4. pc = "ended" => \A i \in DOMAIN ranges : \A j \in Chosen(n) :
                              Covers(ranges[i], At(j).values[i])
        BY <4>1 DEF SelectInv, FoundRangesCover, Covers
      <4>5. pc' = "ended" => \A i \in DOMAIN ranges' : \A j \in Chosen(n)' :
                               Covers(ranges'[i], At(j)'.values[i])
        BY <2>1, <2>2, <4>3, <4>4
      <4>6. (pc = "ended" => \A i \in DOMAIN ranges : \A j \in Chosen(Count) :
                               Covers(ranges[i], At(j).values[i]))'
        BY <4>3, <4>5
      <4> QED
        BY <4>6 DEF FoundRangesCover, Covers
    <3> QED
      BY <3>1, <3>2
  <2> QED
    BY <2>1, <2>3, <2>4, <2>5 DEF SelectInv
<1> QED
  BY <1>1, ParseSelects, MainSelects DEF Next

\* At the start nothing is kept.
LEMMA SelectBegins ==
    ASSUME MainInit
    PROVE  SelectInv
<1>1. pc = "scan" /\ index = 0 /\ kept = <<>> /\ values = <<>> /\ ranges = <<>>
  BY DEF MainInit, Init
<1> QED
  BY <1>1 DEF SelectInv, FoundRangesCover

\* The choice of spectra and the ranges found are as the rule has them in every state
\* of the program (getRangeValuesForModel and getRecommendedParamIndices).
THEOREM SelectionFollowsRule == Spec => []SelectInv
<1>1. MainInit => SelectInv
  BY SelectBegins
<1>2. ParseInv /\ SelectInv /\ [Next]_vars => SelectInv'
  BY SelectKeeps
<1> QED
  BY <1>1, <1>2, ParsingFollowsReference, PTL DEF Spec

\* Whatever the circuit, the distance and the threads, the spectra that are kept are
\* the same, are apart from each other, and leave no meaningful one without one near
\* it (getRangeValuesForModel and getRecommendedParamIndices).
THEOREM ChosenAreApart == Spec => []IsoDifferenceSet
<1>1. SelectInv => IsoDifferenceSet
  <2> SUFFICES ASSUME KeptInv, pc \in {"find", "recommend"},
                      config.modelStr \in DOMAIN Circuits
               PROVE  IsoDifferenceSet
    BY DEF SelectInv, IsoDifferenceSet
  <2>1. Count \in Nat /\ index \in Nat
    BY PointsTyped DEF KeptInv
  <2>2. \A i \in {i \in 0..(Count - 1) : i < index} : i \in 0..(index - 1)
    BY <2>1
  <2> QED
    BY <2>2 DEF KeptInv, IsoDifferenceSet
<1> QED
  BY <1>1, SelectionFollowsRule, PTL

\* Whatever the circuit and the values, findRanges leaves no spectrum it chose outside
\* of the ranges, and fixes a parameter only near all of its values (findRanges).
THEOREM RangesCover == Spec => []FoundRangesCover
<1>1. SelectInv => FoundRangesCover
  BY DEF SelectInv
<1> QED
  BY <1>1, SelectionFollowsRule, PTL
===============================================================================
