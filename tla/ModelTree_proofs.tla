--------------------------- MODULE ModelTree_proofs ---------------------------
(***************************************************************************)
(* Proofs about models and their trees, for every number of models, every  *)
(* set of circuits and every size of the heap.                             *)
(*                                                                         *)
(* A heap is Grounded when each node has its children below it, so that a  *)
(* fact about a tree follows from those about its children (TreeInduction).*)
(* Then come copies and what is put on the heap, the invariant TreeInv, a  *)
(* step at a time, and the refinement of ModelValues.                      *)
(***************************************************************************)
EXTENDS ModelTreeProps, Induction, FiniteSetTheorems, SequenceTheorems, TLAPS

-------------------------------------------------------------------------------
(***************************************************************************)
(* FlattenSeq                                                              *)
(***************************************************************************)
\* f[k] is what the first k sequences of s come to, one behind the other.
IsFlattening(f, s, n, V) ==
    /\ f \in [0..n -> Seq(V)]
    /\ f[0] = <<>>
    /\ \A k \in 1..n : f[k] = f[k - 1] \o s[k]

\* FlattenSeq of the first k sequences is f[k].
LEMMA FlattenGoesOn ==
    ASSUME NEW n \in Nat, NEW V, NEW s \in [1..n -> Seq(V)]
    PROVE  \E f : /\ IsFlattening(f, s, n, V)
                  /\ \A k \in 0..n : FlattenSeq([j \in 1..k |-> s[j]]) = f[k]
<1> DEFINE G == [p \in Seq(V) \X (1..n) |-> p[1] \o s[p[2]]]
<1>1. \A t \in Seq(V), k \in 1..n : G[<<t, k>>] = t \o s[k] /\ G[<<t, k>>] \in Seq(V)
  <2> TAKE t \in Seq(V), k \in 1..n
  <2>1. s[k] \in Seq(V)
    OBVIOUS
  <2>2. t \o s[k] \in Seq(V)
    BY <2>1, ConcatProperties
  <2> QED
    BY <2>2
<1> HIDE DEF G
<1>2. PICK f : IsRecursion(f, Seq(V), <<>>, n, G)
  <2>1. \A t \in Seq(V), k \in 1..n : G[<<t, k>>] \in Seq(V)
    BY <1>1, Zenon
  <2>2. <<>> \in Seq(V)
    OBVIOUS
  <2> QED
    BY <2>1, <2>2, RecursionExists
<1>3. /\ f \in [0..n -> Seq(V)]
      /\ \A k \in 0..n : f[k] = IF k = 0 THEN <<>> ELSE G[<<f[k - 1], k>>]
  BY <1>2 DEF IsRecursion
<1>4. f[0] = <<>>
  <2>1. 0 \in 0..n
    OBVIOUS
  <2> QED
    BY <1>3, <2>1, Zenon
<1>5. ASSUME NEW k \in 1..n
      PROVE  f[k] = f[k - 1] \o s[k]
  <2>1. k \in 0..n /\ k # 0 /\ k - 1 \in 0..n
    OBVIOUS
  <2>2. f[k - 1] \in Seq(V) /\ f[k] = G[<<f[k - 1], k>>]
    BY <1>3, <2>1, Zenon
  <2> QED
    BY <1>1, <2>2, Zenon
<1>6. IsFlattening(f, s, n, V)
  BY <1>3, <1>4, <1>5 DEF IsFlattening
<1>7. ASSUME NEW k \in 0..n
      PROVE  FlattenSeq([j \in 1..k |-> s[j]]) = f[k]
  <2> DEFINE t == [j \in 1..k |-> s[j]]
  <2>1. Len(t) = k /\ t \in Seq(Seq(V))
    OBVIOUS
  <2>2. CASE k = 0
    <3>1. t = <<>>
      BY <2>2
    <3>2. FlattenSeq(t) = t
      BY <2>1, <2>2, Zenon DEF FlattenSeq
    <3> QED
      BY <1>4, <2>2, <3>1, <3>2
  <2>3. CASE k # 0
    <3> DEFINE Body(r) == [i \in 1..k |-> IF i = 1 THEN t[i] ELSE r[i - 1] \o t[i]]
               g == CHOOSE r : r = Body(r)
               h == [i \in 1..k |-> f[i]]
    <3>1. FlattenSeq(t) = g[k]
      BY <2>1, <2>3, Zenon DEF FlattenSeq
    <3>2. h = Body(h)
      <4>1. ASSUME NEW i \in 1..k
            PROVE  h[i] = IF i = 1 THEN t[i] ELSE h[i - 1] \o t[i]
        <5>1. i \in 1..n /\ f[i] = f[i - 1] \o s[i] /\ s[i] \in Seq(V) /\ t[i] = s[i]
          <6>1. i \in 1..n
            OBVIOUS
          <6>2. f[i] = f[i - 1] \o s[i]
            BY <1>5, <6>1
          <6>3. s[i] \in Seq(V) /\ t[i] = s[i]
            BY <6>1
          <6> QED
            BY <6>1, <6>2, <6>3
        <5>2. CASE i = 1
          <6>0. i - 1 = 0
            BY <5>2
          <6>1. f[1] = <<>> \o s[1] /\ s[1] \in Seq(V)
            BY <1>4, <5>1, <5>2, <6>0, Zenon
          <6>2. f[1] = s[1]
            BY <6>1, ConcatEmptySeq
          <6> QED
            BY <5>1, <5>2, <6>2
        <5>3. CASE i # 1
          <6>1. i - 1 \in 1..k
            BY <5>3
          <6> QED
            BY <5>1, <5>3, <6>1
        <5> QED
          BY <5>2, <5>3
      <4> HIDE DEF h, t
      <4>2. h = [i \in 1..k |-> h[i]]
        BY DEF h
      <4> QED
        BY <4>1, <4>2, Zenon
    <3>3. g = Body(g)
      <4> HIDE DEF Body, h
      <4> QED
        BY <3>2, Zenon
    <3> HIDE DEF g
    <3> DEFINE S == {i \in Nat : i + 1 <= k => g[i + 1] = f[i + 1]}
    <3>4. \A i \in 1..k : g[i] = IF i = 1 THEN t[i] ELSE g[i - 1] \o t[i]
      BY <3>3
    <3>5. \A i \in 1..k : f[i] = IF i = 1 THEN t[i] ELSE f[i - 1] \o t[i]
      <4> TAKE i \in 1..k
      <4>1. h[i] = IF i = 1 THEN t[i] ELSE h[i - 1] \o t[i]
        <5>1. PICK r : r = h /\ r = Body(r)
          BY <3>2
        <5> QED
          BY <5>1
      <4>2. i # 1 => i - 1 \in 1..k
        OBVIOUS
      <4> QED
        BY <4>1, <4>2
    <3> HIDE DEF t
    <3>6. 0 \in S
      BY <2>3, <3>4, <3>5
    <3>7. ASSUME NEW i \in Nat, i \in S
          PROVE  i + 1 \in S
      <4> SUFFICES ASSUME i + 1 + 1 <= k
                   PROVE  g[i + 1 + 1] = f[i + 1 + 1]
        OBVIOUS
      <4>1. PICK o : o = i + 1 + 1
        OBVIOUS
      <4>2. o \in 1..k /\ o # 1 /\ o - 1 = i + 1
        BY <4>1
      <4>3. g[o - 1] = f[o - 1]
        BY <3>7, <4>2
      <4>4. g[o] = g[o - 1] \o t[o] /\ f[o] = f[o - 1] \o t[o]
        BY <3>4, <3>5, <4>2
      <4> QED
        BY <4>1, <4>3, <4>4
    <3>8. k - 1 \in S
      <4>1. \A i \in Nat : i \in S
        <5> HIDE DEF S
        <5> QED
          BY <3>6, <3>7, SetInduction
      <4>2. k - 1 \in Nat
        BY <2>3
      <4> QED
        BY <4>1, <4>2, Zenon
    <3>9. g[k] = f[k]
      <4>1. k - 1 + 1 = k
        OBVIOUS
      <4> QED
        BY <3>8, <4>1
    <3> QED
      BY <3>1, <3>9 DEF t
  <2> QED
    BY <2>2, <2>3
<1> QED
  BY <1>6, <1>7

\* It is a sequence of what is in the sequences.
LEMMA FlattenHolds ==
    ASSUME NEW n \in Nat, NEW V, NEW s \in [1..n -> Seq(V)]
    PROVE  /\ FlattenSeq(s) \in Seq(V)
           /\ ToSet(FlattenSeq(s)) = UNION {ToSet(s[k]) : k \in 1..n}
<1>1. PICK f : /\ IsFlattening(f, s, n, V)
               /\ \A k \in 0..n : FlattenSeq([j \in 1..k |-> s[j]]) = f[k]
  BY FlattenGoesOn
<1>2. /\ f \in [0..n -> Seq(V)] /\ f[0] = <<>>
      /\ \A k \in 1..n : f[k] = f[k - 1] \o s[k]
  BY <1>1 DEF IsFlattening
<1>3. FlattenSeq(s) = f[n]
  <2>1. s = [j \in 1..n |-> s[j]] /\ n \in 0..n
    OBVIOUS
  <2> QED
    BY <1>1, <2>1, Zenon
<1> DEFINE S == {k \in Nat : k <= n => ToSet(f[k]) = UNION {ToSet(s[j]) : j \in 1..k}}
<1>4. 0 \in S
  <2>1. {ToSet(s[j]) : j \in 1..0} = {} /\ ToSet(<<>>) = {}
    BY DEF ToSet
  <2> QED
    BY <1>2, <2>1
<1>5. ASSUME NEW k \in Nat, k \in S
      PROVE  k + 1 \in S
  <2> SUFFICES ASSUME k + 1 <= n
               PROVE  ToSet(f[k + 1]) = UNION {ToSet(s[j]) : j \in 1..(k + 1)}
    OBVIOUS
  <2>1. PICK o : o = k + 1
    OBVIOUS
  <2>2. o \in 1..n /\ o - 1 = k /\ k \in 0..n
    BY <2>1
  <2>3. f[o] = f[k] \o s[o] /\ f[k] \in Seq(V) /\ s[o] \in Seq(V)
    BY <1>2, <2>2
  <2>4. ToSet(f[o]) = ToSet(f[k]) \cup ToSet(s[o])
    <3>1. Range(f[k] \o s[o]) = Range(f[k]) \cup Range(s[o])
      BY <2>3, RangeConcatenation
    <3>2. \A x : Range(x) = ToSet(x)
      BY DEF ToSet, Range
    <3> QED
      BY <2>3, <3>1, <3>2
  <2>5. ToSet(f[k]) = UNION {ToSet(s[j]) : j \in 1..k}
    BY <1>5, <2>2
  <2>6. 1..o = (1..k) \cup {o}
    BY <2>1
  <2>7. UNION {ToSet(s[j]) : j \in 1..o} = (UNION {ToSet(s[j]) : j \in 1..k}) \cup ToSet(s[o])
    <3> DEFINE R(j) == ToSet(s[j])
    <3> HIDE DEF R
    <3>1. UNION {R(j) : j \in 1..o} = (UNION {R(j) : j \in 1..k}) \cup R(o)
      BY <2>6
    <3> QED
      BY <3>1 DEF R
  <2> QED
    BY <2>1, <2>4, <2>5, <2>7
<1>6. n \in S
  <2> HIDE DEF S
  <2> QED
    BY <1>4, <1>5, SetInduction
<1> QED
  BY <1>2, <1>3, <1>6

-------------------------------------------------------------------------------
(***************************************************************************)
(* Trees in which the children come before their parents.                  *)
(***************************************************************************)
Children(D, kids, n) ==
    /\ n \in Nat /\ D \in SUBSET (0..n)
    /\ \A at \in D : kids[at] \in Seq(D) /\ \A k \in 1..Len(kids[at]) : kids[at][k] < at

\* f is at each place what G makes of it and of what f is at its children.
IsTreeRecursion(f, D, kids, V, G) ==
    /\ f \in [D -> V]
    /\ \A at \in D : f[at] = G[<<at, [k \in DOMAIN kids[at] |-> f[kids[at][k]]]>>]

\* Such a function exists if G stays in V.
LEMMA TreeRecursionExists ==
    ASSUME NEW D, NEW kids, NEW n, Children(D, kids, n), NEW V, NEW G,
           \A at \in D : \A args \in Seq(V) : G[<<at, args>>] \in V
    PROVE  \E f : IsTreeRecursion(f, D, kids, V, G)
<1> DEFINE Args(f, at) == [k \in DOMAIN kids[at] |-> f[kids[at][k]]]
           Below(m) == {at \in D : at < m}
           Up(m) == \E f \in [Below(m) -> V] : \A at \in Below(m) : f[at] = G[<<at, Args(f, at)>>]
           S == {m \in Nat : Up(m)}
<1>0. /\ \A at \in D : at \in Nat
      /\ \A at \in D : kids[at] \in Seq(D) /\ DOMAIN kids[at] = 1..Len(kids[at]) /\ Len(kids[at]) \in Nat
      /\ \A at \in D : \A k \in DOMAIN kids[at] : kids[at][k] \in D /\ kids[at][k] < at
  <2>1. \A at \in D : at \in Nat
    BY DEF Children
  <2>2. \A at \in D : kids[at] \in Seq(D) /\ \A k \in 1..Len(kids[at]) : kids[at][k] < at
    BY DEF Children
  <2>3. \A at \in D : DOMAIN kids[at] = 1..Len(kids[at]) /\ Len(kids[at]) \in Nat
    BY <2>2
  <2>4. \A at \in D : \A k \in DOMAIN kids[at] : kids[at][k] \in D
    BY <2>2
  <2> QED
    BY <2>1, <2>2, <2>3, <2>4
<1>1. 0 \in S
  <2>1. Below(0) = {}
    BY <1>0
  <2>2. [at \in {} |-> 0] \in [Below(0) -> V]
    BY <2>1
  <2> QED
    BY <2>1, <2>2
<1>2. ASSUME NEW m \in Nat, NEW f \in [Below(m) -> V], NEW at \in D, at <= m
      PROVE  G[<<at, Args(f, at)>>] \in V
  <2>1. \A k \in DOMAIN kids[at] : kids[at][k] \in Below(m)
    BY <1>0, <1>2
  <2>2. Args(f, at) \in Seq(V)
    <3>1. \A k \in 1..Len(kids[at]) : f[kids[at][k]] \in V
      BY <1>0, <2>1
    <3>2. PICK c : c = Len(kids[at])
      OBVIOUS
    <3>3. c \in Nat /\ DOMAIN kids[at] = 1..c /\ \A k \in 1..c : f[kids[at][k]] \in V
      BY <1>0, <3>1, <3>2
    <3>4. [k \in 1..c |-> f[kids[at][k]]] \in Seq(V)
      BY <3>3
    <3> QED
      BY <3>3, <3>4
  <2> QED
    BY <2>2
<1>3. ASSUME NEW m \in Nat, m \in S
      PROVE  m + 1 \in S
  <2>1. PICK f \in [Below(m) -> V] : \A at \in Below(m) : f[at] = G[<<at, Args(f, at)>>]
    BY <1>3
  <2> DEFINE g == [at \in Below(m + 1) |-> IF at = m THEN G[<<at, Args(f, at)>>] ELSE f[at]]
  <2>2. \A at \in Below(m + 1) : at = m \/ at \in Below(m)
    BY <1>0
  <2>3. \A at \in Below(m) : at \in Below(m + 1) /\ g[at] = f[at]
    BY <1>0
  <2>4. \A at \in Below(m + 1) : Args(g, at) = Args(f, at)
    <3> TAKE at \in Below(m + 1)
    <3>1. \A k \in DOMAIN kids[at] : kids[at][k] \in Below(m)
      BY <1>0
    <3>2. \A k \in DOMAIN kids[at] : g[kids[at][k]] = f[kids[at][k]]
      BY <2>3, <3>1
    <3> HIDE DEF g
    <3> QED
      BY <3>2
  <2>5. ASSUME NEW at \in Below(m + 1)
        PROVE  g[at] = G[<<at, Args(f, at)>>] /\ g[at] \in V
    <3>1. CASE at = m
      <4>1. at <= m /\ at \in D
        BY <3>1
      <4>2. G[<<at, Args(f, at)>>] \in V
        <5> HIDE DEF Args, Below
        <5> QED
          BY <1>2, <4>1
      <4> QED
        BY <3>1, <4>2
    <3>2. CASE at # m
      <4>1. at \in Below(m) /\ g[at] = f[at]
        BY <2>2, <3>2
      <4> QED
        BY <2>1, <4>1
    <3> QED
      BY <3>1, <3>2
  <2>6. g \in [Below(m + 1) -> V]
    <3>1. \A at \in Below(m + 1) : g[at] \in V
      BY <2>5
    <3> QED
      BY <3>1
  <2> HIDE DEF g, Args, Below
  <2>7. Up(m + 1)
    BY <2>4, <2>5, <2>6
  <2> QED
    BY <2>7
<1>4. \A m \in Nat : Up(m)
  <2>1. \A m \in Nat : m \in S
    <3> HIDE DEF S
    <3> QED
      BY <1>1, <1>3, SetInduction
  <2> HIDE DEF Up
  <2> QED
    BY <2>1
<1>5. n + 1 \in Nat /\ Below(n + 1) = D
  <2>1. n \in Nat /\ \A at \in D : at \in 0..n
    BY DEF Children
  <2>2. \A at \in D : at < n + 1
    BY <2>1
  <2> QED
    BY <2>1, <2>2
<1>6. Up(n + 1)
  <2> HIDE DEF Up
  <2> QED
    BY <1>4, <1>5
<1>7. PICK f \in [Below(n + 1) -> V] : \A at \in Below(n + 1) : f[at] = G[<<at, Args(f, at)>>]
  BY <1>6
<1> HIDE DEF Below
<1>8. f \in [D -> V] /\ \A at \in D : f[at] = G[<<at, Args(f, at)>>]
  BY <1>5, <1>7
<1> QED
  BY <1>8 DEF IsTreeRecursion

\* b[k] is how many there are in the first k sequences.
Sizes(b, s, n) ==
    /\ b \in [0..n -> Nat] /\ b[0] = 0
    /\ \A k \in 1..n : b[k] = b[k - 1] + Len(s[k])

\* Where they are in t, which is all of them, one behind the other.
Spread(t, s, b, n) ==
    /\ Len(t) = b[n] /\ DOMAIN t = 1..b[n]
    /\ \A k \in 1..n : \A i \in 1..Len(s[k]) :
         b[k - 1] + i \in 1..b[n] /\ t[b[k - 1] + i] = s[k][i]
    /\ \A p \in 1..b[n] : \E k \in 1..n : \E i \in 1..Len(s[k]) : p = b[k - 1] + i

\* The sizes are those of what FlattenSeq makes of the first ones.
LEMMA SizesOf ==
    ASSUME NEW n \in Nat, NEW V, NEW s \in [1..n -> Seq(V)]
    PROVE  Sizes([k \in 0..n |-> Len(FlattenSeq([j \in 1..k |-> s[j]]))], s, n)
<1>1. PICK f : /\ IsFlattening(f, s, n, V)
               /\ \A k \in 0..n : FlattenSeq([j \in 1..k |-> s[j]]) = f[k]
  BY FlattenGoesOn
<1>2. f \in [0..n -> Seq(V)] /\ f[0] = <<>> /\ \A k \in 1..n : f[k] = f[k - 1] \o s[k]
  BY <1>1 DEF IsFlattening
<1>3. PICK b : /\ b = [k \in 0..n |-> Len(FlattenSeq([j \in 1..k |-> s[j]]))]
               /\ b = [k \in 0..n |-> Len(f[k])]
  BY <1>1
<1>4. b \in [0..n -> Nat] /\ b[0] = 0
  <2>1. \A k \in 0..n : Len(f[k]) \in Nat
    BY <1>2
  <2>2. 0 \in 0..n /\ Len(<<>>) = 0
    OBVIOUS
  <2>3. b = [k \in 0..n |-> Len(f[k])]
    BY <1>3
  <2> QED
    BY <1>2, <2>1, <2>2, <2>3
<1>5. ASSUME NEW k \in 1..n
      PROVE  b[k] = b[k - 1] + Len(s[k])
  <2>1. k \in 0..n /\ k - 1 \in 0..n
    OBVIOUS
  <2>2. f[k - 1] \in Seq(V) /\ f[k] = f[k - 1] \o s[k] /\ s[k] \in Seq(V)
    BY <1>2, <2>1
  <2>3. Len(f[k - 1] \o s[k]) = Len(f[k - 1]) + Len(s[k])
    BY <2>2, ConcatProperties
  <2>4. b = [i \in 0..n |-> Len(f[i])]
    BY <1>3
  <2> QED
    BY <2>1, <2>2, <2>3, <2>4
<1> QED
  BY <1>3, <1>4, <1>5 DEF Sizes

\* FlattenSeq puts each of them where the sizes say.
LEMMA FlattenSpreads ==
    ASSUME NEW n \in Nat, NEW V, NEW s \in [1..n -> Seq(V)], NEW b, Sizes(b, s, n)
    PROVE  Spread(FlattenSeq(s), s, b, n)
<1>1. PICK f : /\ IsFlattening(f, s, n, V)
               /\ \A k \in 0..n : FlattenSeq([j \in 1..k |-> s[j]]) = f[k]
  BY FlattenGoesOn
<1>2. f \in [0..n -> Seq(V)] /\ f[0] = <<>> /\ \A k \in 1..n : f[k] = f[k - 1] \o s[k]
  BY <1>1 DEF IsFlattening
<1>3. FlattenSeq(s) = f[n]
  <2>1. s = [j \in 1..n |-> s[j]] /\ n \in 0..n
    OBVIOUS
  <2> QED
    BY <1>1, <2>1, Zenon
<1>4. b \in [0..n -> Nat] /\ b[0] = 0 /\ \A k \in 1..n : b[k] = b[k - 1] + Len(s[k])
  BY DEF Sizes
<1> DEFINE S == {k \in Nat : k <= n => Spread(f[k], s, b, k)}
<1>5. 0 \in S
  <2>1. Len(f[0]) = b[0] /\ DOMAIN f[0] = 1..b[0] /\ 1..b[0] = {} /\ 1..0 = {}
    BY <1>2, <1>4
  <2>2. Spread(f[0], s, b, 0)
    BY <2>1 DEF Spread
  <2> QED
    BY <2>2
<1>6. ASSUME NEW l \in Nat, l \in S
      PROVE  l + 1 \in S
  <2> SUFFICES ASSUME l + 1 <= n
               PROVE  Spread(f[l + 1], s, b, l + 1)
    OBVIOUS
  <2>1. PICK o, c, d, t, u : /\ o = l + 1 /\ c = b[l] /\ t = f[l] /\ u = f[o] /\ d = Len(s[o])
    OBVIOUS
  <2>2. o \in 1..n /\ o - 1 = l /\ l \in 0..n /\ o \in 0..n
    BY <2>1
  <2>3. u = t \o s[o] /\ t \in Seq(V) /\ s[o] \in Seq(V) /\ b[o] = c + d /\ c \in Nat /\ d \in Nat /\ Len(t) = c
    <3>1. Spread(f[l], s, b, l)
      BY <1>6, <2>2
    <3>2. Len(f[l]) = b[l]
      BY <3>1 DEF Spread
    <3>3. t \in Seq(V) /\ s[o] \in Seq(V) /\ u = t \o s[o]
      BY <1>2, <2>1, <2>2
    <3>4. c \in Nat /\ b[o] = c + d
      BY <1>4, <2>1, <2>2
    <3>5. d \in Nat
      BY <2>1, <3>3
    <3> QED
      BY <2>1, <3>2, <3>3, <3>4, <3>5
  <2>4. /\ \A k \in 1..l : \A i \in 1..Len(s[k]) : b[k - 1] + i \in 1..c /\ t[b[k - 1] + i] = s[k][i]
        /\ \A p \in 1..c : \E k \in 1..l : \E i \in 1..Len(s[k]) : p = b[k - 1] + i
    <3>1. Spread(t, s, b, l)
      BY <1>6, <2>1, <2>2
    <3> QED
      BY <2>1, <3>1 DEF Spread
  <2>5. PICK e : e = c + d
    OBVIOUS
  <2>6. /\ Len(u) = e /\ DOMAIN u = 1..e /\ e \in Nat /\ b[o] = e
        /\ \A p \in 1..c : u[p] = t[p] /\ p \in 1..e
        /\ \A i \in 1..d : u[c + i] = s[o][i] /\ c + i \in 1..e
    <3>1. u \in Seq(V) /\ Len(u) = Len(t) + Len(s[o])
      BY <2>3, ConcatProperties
    <3>0. Len(t) = c /\ Len(s[o]) = d /\ c \in Nat /\ d \in Nat /\ e = c + d
      BY <2>1, <2>3, <2>5
    <3>2. \A p \in 1..e : u[p] = IF p <= c THEN t[p] ELSE s[o][p - c]
      <4>1. \A p \in 1..(Len(t) + Len(s[o])) : u[p] = IF p <= Len(t) THEN t[p] ELSE s[o][p - Len(t)]
        BY <2>3, ConcatProperties
      <4> QED
        BY <3>0, <4>1
    <3>3. Len(u) = e /\ DOMAIN u = 1..e
      BY <3>0, <3>1
    <3>4. \A p \in 1..c : u[p] = t[p] /\ p \in 1..e
      BY <3>0, <3>2
    <3>5. \A i \in 1..d : u[c + i] = s[o][i] /\ c + i \in 1..e
      <4> TAKE i \in 1..d
      <4>1. PICK p : p = c + i
        OBVIOUS
      <4>2. p \in 1..e /\ ~(p <= c) /\ p - c = i
        BY <2>3, <2>5, <4>1
      <4> QED
        BY <3>0, <3>2, <4>1, <4>2
    <3> QED
      BY <2>3, <2>5, <3>3, <3>4, <3>5
  <2>7. ASSUME NEW k \in 1..o, NEW i \in 1..Len(s[k])
        PROVE  b[k - 1] + i \in 1..e /\ u[b[k - 1] + i] = s[k][i]
    <3>1. CASE k = o
      <4>1. b[k - 1] = c /\ i \in 1..d
        BY <2>1, <2>2, <3>1
      <4> QED
        BY <2>6, <3>1, <4>1
    <3>2. CASE k # o
      <4>1. k \in 1..l
        BY <2>1, <3>2
      <4>2. PICK p : p = b[k - 1] + i
        OBVIOUS
      <4>3. p \in 1..c /\ t[p] = s[k][i]
        BY <2>4, <4>1, <4>2
      <4> QED
        BY <2>6, <4>2, <4>3
    <3> QED
      BY <3>1, <3>2
  <2>8. ASSUME NEW p \in 1..e
        PROVE  \E k \in 1..o : \E i \in 1..Len(s[k]) : p = b[k - 1] + i
    <3>1. CASE p <= c
      <4>1. PICK k \in 1..l : \E i \in 1..Len(s[k]) : p = b[k - 1] + i
        BY <2>3, <2>4, <3>1
      <4>2. k \in 1..o
        BY <2>1
      <4> QED
        BY <4>1, <4>2
    <3>2. CASE ~(p <= c)
      <4>1. PICK i : i = p - c
        OBVIOUS
      <4>2. i \in 1..d /\ p = c + i
        BY <2>3, <2>5, <3>2, <4>1
      <4>3. o \in 1..o /\ b[o - 1] = c
        BY <2>1, <2>2
      <4> QED
        BY <2>1, <4>2, <4>3
    <3> QED
      BY <3>1, <3>2
  <2>9. Spread(u, s, b, o)
    BY <2>6, <2>7, <2>8 DEF Spread
  <2> QED
    BY <2>1, <2>9
<1>7. n \in S
  <2> HIDE DEF S
  <2> QED
    BY <1>5, <1>6, SetInduction
<1> QED
  BY <1>3, <1>7

-------------------------------------------------------------------------------
(***************************************************************************)
(* Heaps in which the children of an element have lower places than it.    *)
(***************************************************************************)
Nodes == {node \in [op : Ops, kids : Seq(Nat), step : Steps] : IsLeaf(node) => node.kids = <<>>}

Grounded(h) ==
    /\ h \in [DOMAIN h -> Nodes]
    /\ \E n \in Nat : DOMAIN h \in SUBSET (1..n)
    /\ \A i \in DOMAIN h : /\ h[i].kids \in Seq(DOMAIN h)
                           /\ \A k \in 1..Len(h[i].kids) : h[i].kids[k] < i

\* The places are those of the heap.
Within(h) == DOMAIN h \in SUBSET (1..Places)

\* A node with as many children.
LEMMA NodeWith ==
    ASSUME NEW node \in Nodes, NEW q \in Seq(Nat), Len(q) = Len(node.kids)
    PROVE  /\ [node EXCEPT !.kids = q] \in Nodes
           /\ [node EXCEPT !.kids = q].kids = q
           /\ [node EXCEPT !.kids = q].op = node.op
           /\ [node EXCEPT !.kids = q].step = node.step
<1>1. PICK o : o = [node EXCEPT !.kids = q]
  OBVIOUS
<1>2. node \in [op : Ops, kids : Seq(Nat), step : Steps] /\ (IsLeaf(node) => node.kids = <<>>)
  BY DEF Nodes
<1>3. o \in [op : Ops, kids : Seq(Nat), step : Steps]
  BY <1>1, <1>2
<1>4. o.kids = q /\ o.op = node.op /\ o.step = node.step
  BY <1>1, <1>2
<1>5. IsLeaf(o) => o.kids = <<>>
  <2> SUFFICES ASSUME IsLeaf(o)
               PROVE  q = <<>>
    BY <1>4
  <2>1. node.kids = <<>>
    BY <1>2, <1>4 DEF IsLeaf
  <2>2. Len(q) = 0
    BY <2>1
  <2> QED
    BY <2>2
<1> QED
  BY <1>1, <1>3, <1>4, <1>5 DEF Nodes

\* What is known of the children of an element.
LEMMA KidsOf ==
    ASSUME NEW h, Grounded(h)
    PROVE  /\ DOMAIN h \in SUBSET Nat
           /\ \A i \in DOMAIN h :
                /\ h[i].kids \in Seq(DOMAIN h)
                /\ Len(h[i].kids) \in Nat /\ DOMAIN h[i].kids = 1..Len(h[i].kids)
                /\ \A k \in DOMAIN h[i].kids : h[i].kids[k] \in DOMAIN h /\ h[i].kids[k] < i
                /\ \A kid \in ToSet(h[i].kids) : kid \in DOMAIN h /\ kid < i
                /\ \A k \in DOMAIN h[i].kids : h[i].kids[k] \in ToSet(h[i].kids)
<1>1. DOMAIN h \in SUBSET Nat
  BY DEF Grounded
<1>2. \A i \in DOMAIN h : /\ h[i].kids \in Seq(DOMAIN h)
                          /\ \A k \in 1..Len(h[i].kids) : h[i].kids[k] < i
  BY DEF Grounded
<1>3. ASSUME NEW i \in DOMAIN h
      PROVE  /\ Len(h[i].kids) \in Nat /\ DOMAIN h[i].kids = 1..Len(h[i].kids)
             /\ \A k \in DOMAIN h[i].kids : h[i].kids[k] \in DOMAIN h /\ h[i].kids[k] < i
  <2>1. h[i].kids \in Seq(DOMAIN h)
    BY <1>2
  <2>2. Len(h[i].kids) \in Nat /\ DOMAIN h[i].kids = 1..Len(h[i].kids)
    BY <2>1
  <2>3. \A k \in DOMAIN h[i].kids : h[i].kids[k] \in DOMAIN h
    BY <2>1
  <2> QED
    BY <1>2, <2>2, <2>3
<1> QED
  BY <1>1, <1>2, <1>3 DEF ToSet

\* What holds of an element if it holds of its children holds of all elements.
LEMMA TreeInduction ==
    ASSUME NEW h, Grounded(h), NEW S,
           \A i \in DOMAIN h : ToSet(h[i].kids) \subseteq S => i \in S
    PROVE  DOMAIN h \subseteq S
<1> DEFINE T == {i \in Nat : i \in DOMAIN h => i \in S}
<1>1. ASSUME NEW n \in Nat, \A m \in 0..(n - 1) : m \in T
      PROVE  n \in T
  <2> SUFFICES ASSUME n \in DOMAIN h
               PROVE  n \in S
    OBVIOUS
  <2>1. ASSUME NEW kid \in ToSet(h[n].kids)
        PROVE  kid \in S
    <3>1. kid \in DOMAIN h /\ kid < n /\ kid \in Nat
      BY KidsOf
    <3>2. kid \in 0..(n - 1)
      BY <3>1
    <3> QED
      BY <1>1, <3>1, <3>2
  <2> QED
    BY <2>1
<1>2. \A n \in Nat : n \in T
  <2> HIDE DEF T
  <2> QED
    BY <1>1, StrongInduction
<1> QED
  BY <1>2, KidsOf

\* The destructor of an element is that of its children, and then it is freed.
LEMMA FreedAt ==
    ASSUME NEW h, Grounded(h)
    PROVE  \A at \in DOMAIN h :
             /\ Freed(h, at) \in Seq(DOMAIN h)
             /\ Freed(h, at) =
                  FlattenSeq([k \in DOMAIN h[at].kids |-> Freed(h, h[at].kids[k])]) \o <<at>>
<1> DEFINE D == DOMAIN h
           V == Seq(D)
           kids == [at \in D |-> h[at].kids]
           G == [p \in D \X Seq(V) |-> FlattenSeq(p[2]) \o <<p[1]>>]
           Body(r) == [at \in D |-> FlattenSeq([k \in DOMAIN h[at].kids |-> r[h[at].kids[k]]]) \o <<at>>]
           freed == CHOOSE r : r = Body(r)
<1>1. PICK bound : Children(D, kids, bound)
  <2>1. PICK bound \in Nat : D \in SUBSET (0..bound)
    BY DEF Grounded
  <2>2. \A at \in D : kids[at] \in Seq(D) /\ \A k \in 1..Len(kids[at]) : kids[at][k] < at
    BY KidsOf
  <2> QED
    BY <2>1, <2>2 DEF Children
<1>2. \A at \in D : \A args \in Seq(V) :
         G[<<at, args>>] = FlattenSeq(args) \o <<at>> /\ G[<<at, args>>] \in V
  <2> TAKE at \in D
  <2> TAKE args \in Seq(V)
  <2> HIDE DEF D
  <2>1. PICK n \in Nat : args \in [1..n -> Seq(D)]
    <3>1. Len(args) \in Nat /\ args \in [1..Len(args) -> V]
      OBVIOUS
    <3> QED
      BY <3>1
  <2>2. FlattenSeq(args) \in Seq(D)
    BY <2>1, FlattenHolds
  <2>3. <<at>> \in Seq(D)
    OBVIOUS
  <2>4. FlattenSeq(args) \o <<at>> \in Seq(D)
    BY <2>2, <2>3, ConcatProperties
  <2> QED
    BY <2>4
<1> HIDE DEF G
<1>3. PICK f : IsTreeRecursion(f, D, kids, V, G)
  <2>1. \A at \in D : \A args \in Seq(V) : G[<<at, args>>] \in V
    BY <1>2, Zenon
  <2> HIDE DEF D, kids, V
  <2> QED
    BY <1>1, <2>1, TreeRecursionExists
<1>4. f \in [D -> V] /\ \A at \in D : f[at] = G[<<at, [k \in DOMAIN kids[at] |-> f[kids[at][k]]]>>]
  BY <1>3 DEF IsTreeRecursion
<1>5. ASSUME NEW at \in D
      PROVE  f[at] = FlattenSeq([k \in DOMAIN h[at].kids |-> f[h[at].kids[k]]]) \o <<at>>
  <2>1. kids[at] = h[at].kids
    OBVIOUS
  <2>2. [k \in DOMAIN h[at].kids |-> f[h[at].kids[k]]] \in Seq(V)
    <3>1. PICK n, s : n \in Nat /\ s = h[at].kids /\ DOMAIN s = 1..n /\ \A k \in 1..n : s[k] \in D
      BY KidsOf
    <3>2. [k \in 1..n |-> f[s[k]]] \in Seq(V)
      <4>1. \A k \in 1..n : f[s[k]] \in V
        BY <1>4, <3>1
      <4> HIDE DEF V
      <4> QED
        BY <3>1, <4>1
    <3> QED
      BY <3>1, <3>2
  <2>3. f[at] = G[<<at, [k \in DOMAIN h[at].kids |-> f[h[at].kids[k]]]>>]
    BY <1>4, <2>1
  <2> QED
    BY <1>2, <2>2, <2>3
<1>6. f = Body(f)
  <2>1. f = [at \in D |-> f[at]]
    BY <1>4
  <2> HIDE DEF D
  <2> QED
    BY <1>5, <2>1, Zenon
<1>7. freed = Body(freed)
  <2> HIDE DEF Body
  <2> QED
    BY <1>6, Zenon
<1>8. \A at : Freed(h, at) = freed[at]
  BY Zenon DEF Freed
<1> HIDE DEF freed
<1>9. \A at \in D : freed[at] = FlattenSeq([k \in DOMAIN h[at].kids |-> freed[h[at].kids[k]]]) \o <<at>>
  <2>1. PICK r : r = freed /\ r = Body(r)
    BY <1>7
  <2>2. \A at \in D : r[at] = FlattenSeq([k \in DOMAIN h[at].kids |-> r[h[at].kids[k]]]) \o <<at>>
    BY <2>1
  <2> QED
    BY <2>1, <2>2
<1>10. \A at \in D : freed[at] = f[at]
  <2> DEFINE S == {at \in D : freed[at] = f[at]}
  <2>1. ASSUME NEW at \in D, ToSet(h[at].kids) \subseteq S
        PROVE  at \in S
    <3>1. \A k \in DOMAIN h[at].kids : freed[h[at].kids[k]] = f[h[at].kids[k]]
      BY <2>1, KidsOf
    <3>2. [k \in DOMAIN h[at].kids |-> freed[h[at].kids[k]]] = [k \in DOMAIN h[at].kids |-> f[h[at].kids[k]]]
      BY <3>1
    <3>3. freed[at] = f[at]
      BY <1>5, <1>9, <3>2
    <3> QED
      BY <3>3
  <2>2. D \subseteq S
    <3> HIDE DEF S
    <3> QED
      BY <2>1, TreeInduction
  <2> QED
    BY <2>2
<1>11. \A at \in D : freed[at] \in Seq(DOMAIN h)
  BY <1>4, <1>10
<1>12. \A at \in D : Freed(h, at) =
          FlattenSeq([k \in DOMAIN h[at].kids |-> Freed(h, h[at].kids[k])]) \o <<at>>
  BY <1>8, <1>9
<1> QED
  BY <1>8, <1>11, <1>12

\* The places of the elements of a tree.
InTree(h, at) == ToSet(Freed(h, at))

\* They are those of the trees of the children, and its own.
LEMMA InTreeAt ==
    ASSUME NEW h, Grounded(h), NEW at \in DOMAIN h
    PROVE  /\ InTree(h, at) = {at} \cup UNION {InTree(h, kid) : kid \in ToSet(h[at].kids)}
           /\ InTree(h, at) \subseteq DOMAIN h
<1> DEFINE D == DOMAIN h
<1>1. PICK kids, n : /\ n \in Nat /\ kids = h[at].kids /\ DOMAIN kids = 1..n
                     /\ \A k \in 1..n : kids[k] \in D
  BY KidsOf
<1> DEFINE s == [k \in 1..n |-> Freed(h, kids[k])]
<1>2. s \in [1..n -> Seq(D)]
  BY <1>1, FreedAt
<1>3. Freed(h, at) = FlattenSeq(s) \o <<at>> /\ Freed(h, at) \in Seq(D)
  BY <1>1, FreedAt
<1> HIDE DEF s, D
<1>4. /\ FlattenSeq(s) \in Seq(D)
      /\ ToSet(FlattenSeq(s)) = UNION {ToSet(s[k]) : k \in 1..n}
  BY <1>1, <1>2, FlattenHolds
<1>5. ToSet(Freed(h, at)) = ToSet(FlattenSeq(s)) \cup {at}
  <2>1. <<at>> \in Seq(D)
    BY DEF D
  <2>2. Range(FlattenSeq(s) \o <<at>>) = Range(FlattenSeq(s)) \cup Range(<<at>>)
    BY <1>4, <2>1, RangeConcatenation
  <2>3. \A x : Range(x) = ToSet(x)
    BY DEF ToSet, Range
  <2>4. ToSet(<<at>>) = {at}
    BY DEF ToSet
  <2> QED
    BY <1>3, <2>2, <2>3, <2>4
<1>6. UNION {ToSet(s[k]) : k \in 1..n} = UNION {InTree(h, kid) : kid \in ToSet(kids)}
  <2>1. \A k \in 1..n : ToSet(s[k]) = InTree(h, kids[k])
    BY DEF s, InTree
  <2>2. ToSet(kids) = {kids[k] : k \in 1..n}
    BY <1>1 DEF ToSet
  <2>3. {ToSet(s[k]) : k \in 1..n} = {InTree(h, kid) : kid \in ToSet(kids)}
    BY <2>1, <2>2
  <2> QED
    BY <2>3
<1>7. ToSet(Freed(h, at)) \subseteq DOMAIN h
  BY <1>3, RangeOfSeq DEF ToSet, Range, D
<1> QED
  BY <1>1, <1>4, <1>5, <1>6, <1>7 DEF InTree

\* A set that has with each element its children.
Closed(h, S) == S \subseteq DOMAIN h /\ \A i \in S : ToSet(h[i].kids) \subseteq S

\* The elements of a tree are such a set, and the least one with its root.
LEMMA TreeIsClosed ==
    ASSUME NEW h, Grounded(h), NEW at \in DOMAIN h
    PROVE  at \in InTree(h, at) /\ Closed(h, InTree(h, at))
<1> DEFINE S == {i \in DOMAIN h : Closed(h, InTree(h, i))}
<1>1. ASSUME NEW i \in DOMAIN h, ToSet(h[i].kids) \subseteq S
      PROVE  i \in S
  <2>1. /\ InTree(h, i) = {i} \cup UNION {InTree(h, kid) : kid \in ToSet(h[i].kids)}
        /\ InTree(h, i) \subseteq DOMAIN h
    BY InTreeAt
  <2>2. ASSUME NEW kid \in ToSet(h[i].kids)
        PROVE  kid \in InTree(h, kid) /\ Closed(h, InTree(h, kid)) /\ InTree(h, kid) \subseteq InTree(h, i)
    <3>1. kid \in DOMAIN h
      BY KidsOf
    <3>2. kid \in InTree(h, kid)
      BY <3>1, InTreeAt
    <3> QED
      BY <1>1, <2>1, <3>2
  <2>3. ASSUME NEW j \in InTree(h, i)
        PROVE  ToSet(h[j].kids) \subseteq InTree(h, i)
    <3>1. CASE j = i
      BY <2>2, <3>1
    <3>2. CASE j # i
      <4>1. PICK kid \in ToSet(h[i].kids) : j \in InTree(h, kid)
        BY <2>1, <3>2
      <4> QED
        BY <2>2, <4>1 DEF Closed
    <3> QED
      BY <3>1, <3>2
  <2> QED
    BY <2>1, <2>3 DEF Closed
<1>2. DOMAIN h \subseteq S
  <2> HIDE DEF S
  <2> QED
    BY <1>1, TreeInduction
<1> QED
  BY <1>2, InTreeAt

\* Likewise.
LEMMA TreeIsLeast ==
    ASSUME NEW h, Grounded(h), NEW T, Closed(h, T), NEW at \in T
    PROVE  at \in DOMAIN h /\ InTree(h, at) \subseteq T
<1> DEFINE S == {i \in DOMAIN h : i \in T => InTree(h, i) \subseteq T}
<1>1. ASSUME NEW i \in DOMAIN h, ToSet(h[i].kids) \subseteq S
      PROVE  i \in S
  <2> SUFFICES ASSUME i \in T
               PROVE  InTree(h, i) \subseteq T
    OBVIOUS
  <2>1. InTree(h, i) = {i} \cup UNION {InTree(h, kid) : kid \in ToSet(h[i].kids)}
    BY InTreeAt
  <2>2. \A kid \in ToSet(h[i].kids) : InTree(h, kid) \subseteq T
    BY <1>1 DEF Closed
  <2> QED
    BY <2>1, <2>2
<1>2. DOMAIN h \subseteq S
  <2> HIDE DEF S
  <2> QED
    BY <1>1, TreeInduction
<1> QED
  BY <1>2 DEF Closed

\* Two heaps in which the elements of T have the same children, and are of the
\* same kind.
Alike(h, g, T) ==
    /\ Closed(h, T) /\ T \subseteq DOMAIN g
    /\ \A i \in T : g[i].kids = h[i].kids /\ g[i].op = h[i].op

\* A tree is the same in both.
LEMMA TreeIsSame ==
    ASSUME NEW h, NEW g, Grounded(h), Grounded(g), NEW T, Alike(h, g, T), NEW at \in T
    PROVE  Freed(g, at) = Freed(h, at) /\ InTree(g, at) = InTree(h, at)
<1> DEFINE S == {i \in DOMAIN h : i \in T => Freed(g, i) = Freed(h, i)}
<1>1. ASSUME NEW i \in DOMAIN h, ToSet(h[i].kids) \subseteq S
      PROVE  i \in S
  <2> SUFFICES ASSUME i \in T
               PROVE  Freed(g, i) = Freed(h, i)
    OBVIOUS
  <2>1. i \in DOMAIN g /\ g[i].kids = h[i].kids /\ ToSet(h[i].kids) \subseteq T
    BY DEF Alike, Closed
  <2>2. PICK kids : kids = h[i].kids /\ kids = g[i].kids
    BY <2>1
  <2>3. \A k \in DOMAIN kids : Freed(g, kids[k]) = Freed(h, kids[k])
    BY <1>1, <2>1, <2>2 DEF ToSet
  <2>4. [k \in DOMAIN kids |-> Freed(g, kids[k])] = [k \in DOMAIN kids |-> Freed(h, kids[k])]
    BY <2>3
  <2>5. Freed(h, i) = FlattenSeq([k \in DOMAIN kids |-> Freed(h, kids[k])]) \o <<i>>
    BY <2>2, FreedAt
  <2>6. Freed(g, i) = FlattenSeq([k \in DOMAIN kids |-> Freed(g, kids[k])]) \o <<i>>
    BY <2>1, <2>2, FreedAt
  <2> QED
    BY <2>4, <2>5, <2>6
<1>2. DOMAIN h \subseteq S
  <2> HIDE DEF S
  <2> QED
    BY <1>1, TreeInduction
<1> QED
  BY <1>2 DEF Alike, Closed, InTree

\* The list of the leaves: a leaf alone, or those of the children.
LEMMA FlatAt ==
    ASSUME NEW h, Grounded(h)
    PROVE  \A at \in DOMAIN h :
             /\ FlatFrom(h, at) \in Seq(DOMAIN h)
             /\ FlatFrom(h, at) =
                  IF IsLeaf(h[at]) THEN <<at>>
                  ELSE FlattenSeq([k \in DOMAIN h[at].kids |-> FlatFrom(h, h[at].kids[k])])
<1> DEFINE D == DOMAIN h
           V == Seq(D)
           kids == [at \in D |-> h[at].kids]
           G == [p \in D \X Seq(V) |-> IF IsLeaf(h[p[1]]) THEN <<p[1]>> ELSE FlattenSeq(p[2])]
           Args(r, at) == [k \in DOMAIN h[at].kids |-> r[h[at].kids[k]]]
           Body(r) == [at \in D |-> IF IsLeaf(h[at]) THEN <<at>>
                                    ELSE FlattenSeq([k \in DOMAIN h[at].kids |-> r[h[at].kids[k]]])]
           flats == CHOOSE r : r = Body(r)
<1>1. PICK bound : Children(D, kids, bound)
  <2>1. PICK bound \in Nat : D \in SUBSET (0..bound)
    BY DEF Grounded
  <2>2. \A at \in D : kids[at] \in Seq(D) /\ \A k \in 1..Len(kids[at]) : kids[at][k] < at
    BY KidsOf
  <2> QED
    BY <2>1, <2>2 DEF Children
<1>2. \A at \in D : \A args \in Seq(V) :
         /\ G[<<at, args>>] = IF IsLeaf(h[at]) THEN <<at>> ELSE FlattenSeq(args)
         /\ G[<<at, args>>] \in V
  <2> TAKE at \in D
  <2> TAKE args \in Seq(V)
  <2> HIDE DEF D
  <2>1. PICK n \in Nat : args \in [1..n -> Seq(D)]
    <3>1. Len(args) \in Nat /\ args \in [1..Len(args) -> V]
      OBVIOUS
    <3> QED
      BY <3>1
  <2>2. FlattenSeq(args) \in Seq(D)
    BY <2>1, FlattenHolds
  <2>3. <<at>> \in Seq(D)
    OBVIOUS
  <2>4. G[<<at, args>>] = IF IsLeaf(h[at]) THEN <<at>> ELSE FlattenSeq(args)
    OBVIOUS
  <2> HIDE DEF G
  <2> QED
    BY <2>2, <2>3, <2>4
<1> HIDE DEF G
<1>3. PICK f : IsTreeRecursion(f, D, kids, V, G)
  <2>1. \A at \in D : \A args \in Seq(V) : G[<<at, args>>] \in V
    BY <1>2, Zenon
  <2> HIDE DEF D, kids, V
  <2> QED
    BY <1>1, <2>1, TreeRecursionExists
<1>4. f \in [D -> V] /\ \A at \in D : f[at] = G[<<at, [k \in DOMAIN kids[at] |-> f[kids[at][k]]]>>]
  BY <1>3 DEF IsTreeRecursion
<1>5. ASSUME NEW at \in D
      PROVE  f[at] = IF IsLeaf(h[at]) THEN <<at>> ELSE FlattenSeq(Args(f, at))
  <2>1. kids[at] = h[at].kids
    OBVIOUS
  <2>2. Args(f, at) \in Seq(V)
    <3>1. PICK n, s : n \in Nat /\ s = h[at].kids /\ DOMAIN s = 1..n /\ \A k \in 1..n : s[k] \in D
      BY KidsOf
    <3>2. [k \in 1..n |-> f[s[k]]] \in Seq(V)
      <4>1. \A k \in 1..n : f[s[k]] \in V
        BY <1>4, <3>1
      <4> HIDE DEF V
      <4> QED
        BY <3>1, <4>1
    <3> QED
      BY <3>1, <3>2
  <2>3. f[at] = G[<<at, Args(f, at)>>]
    BY <1>4, <2>1
  <2> QED
    BY <1>2, <2>2, <2>3
<1>6. f = Body(f)
  <2>1. f = [at \in D |-> f[at]]
    BY <1>4
  <2> HIDE DEF D
  <2> QED
    BY <1>5, <2>1, Zenon
<1>7. flats = Body(flats)
  <2> HIDE DEF Body
  <2> QED
    BY <1>6, Zenon
<1>8. \A at : FlatFrom(h, at) = flats[at]
  BY Zenon DEF FlatFrom
<1> HIDE DEF flats
<1>9. \A at \in D : flats[at] = IF IsLeaf(h[at]) THEN <<at>> ELSE FlattenSeq(Args(flats, at))
  <2>1. PICK r : r = flats /\ r = Body(r)
    BY <1>7
  <2>2. \A at \in D : r[at] = IF IsLeaf(h[at]) THEN <<at>> ELSE FlattenSeq(Args(r, at))
    BY <2>1
  <2> QED
    BY <2>1, <2>2
<1>10. \A at \in D : flats[at] = f[at]
  <2> DEFINE S == {at \in D : flats[at] = f[at]}
  <2>1. ASSUME NEW at \in D, ToSet(h[at].kids) \subseteq S
        PROVE  at \in S
    <3>1. \A k \in DOMAIN h[at].kids : flats[h[at].kids[k]] = f[h[at].kids[k]]
      BY <2>1, KidsOf
    <3>2. Args(flats, at) = Args(f, at)
      BY <3>1
    <3>3. flats[at] = f[at]
      BY <1>5, <1>9, <3>2
    <3> QED
      BY <3>3
  <2>2. D \subseteq S
    <3> HIDE DEF S
    <3> QED
      BY <2>1, TreeInduction
  <2> QED
    BY <2>2
<1>11. \A at \in D : flats[at] \in Seq(DOMAIN h)
  BY <1>4, <1>10
<1>12. \A at \in D : FlatFrom(h, at) =
          IF IsLeaf(h[at]) THEN <<at>>
          ELSE FlattenSeq([k \in DOMAIN h[at].kids |-> FlatFrom(h, h[at].kids[k])])
  BY <1>8, <1>9
<1> QED
  BY <1>8, <1>11, <1>12

\* They are leaves of the tree.
LEMMA FlatAreLeaves ==
    ASSUME NEW h, Grounded(h), NEW at \in DOMAIN h
    PROVE  /\ FlatFrom(h, at) \in Seq(DOMAIN h)
           /\ \A i \in ToSet(FlatFrom(h, at)) : i \in InTree(h, at) /\ IsLeaf(h[i])
<1> DEFINE S == {j \in DOMAIN h : \A i \in ToSet(FlatFrom(h, j)) : i \in InTree(h, j) /\ IsLeaf(h[i])}
<1>1. ASSUME NEW j \in DOMAIN h, ToSet(h[j].kids) \subseteq S
      PROVE  j \in S
  <2>1. InTree(h, j) = {j} \cup UNION {InTree(h, kid) : kid \in ToSet(h[j].kids)}
    BY <1>1, InTreeAt
  <2>2. CASE IsLeaf(h[j])
    <3>1. FlatFrom(h, j) = <<j>>
      BY <1>1, <2>2, FlatAt
    <3>2. ToSet(FlatFrom(h, j)) = {j}
      BY <3>1 DEF ToSet
    <3> QED
      BY <2>1, <2>2, <3>2
  <2>3. CASE ~IsLeaf(h[j])
    <3>1. PICK kids, n : /\ n \in Nat /\ kids = h[j].kids /\ DOMAIN kids = 1..n
                         /\ \A k \in 1..n : kids[k] \in DOMAIN h /\ kids[k] \in ToSet(h[j].kids)
      BY <1>1, KidsOf
    <3> DEFINE s == [k \in 1..n |-> FlatFrom(h, kids[k])]
               X == DOMAIN h
    <3>2. s \in [1..n -> Seq(X)]
      BY <3>1, FlatAt
    <3>3. FlatFrom(h, j) = FlattenSeq(s)
      BY <2>3, <3>1, FlatAt
    <3> HIDE DEF s, X
    <3>4. ToSet(FlatFrom(h, j)) = UNION {ToSet(s[k]) : k \in 1..n}
      BY <3>1, <3>2, <3>3, FlattenHolds
    <3>5. ASSUME NEW i \in ToSet(FlatFrom(h, j))
          PROVE  i \in InTree(h, j) /\ IsLeaf(h[i])
      <4>1. PICK k \in 1..n : i \in ToSet(s[k])
        BY <3>4
      <4>2. i \in ToSet(FlatFrom(h, kids[k])) /\ kids[k] \in S
        BY <1>1, <3>1, <4>1 DEF s
      <4>3. i \in InTree(h, kids[k]) /\ IsLeaf(h[i])
        BY <4>2
      <4> QED
        BY <2>1, <3>1, <4>3
    <3> QED
      BY <3>5
  <2> QED
    BY <2>2, <2>3
<1>2. DOMAIN h \subseteq S
  <2> HIDE DEF S
  <2> QED
    BY <1>1, TreeInduction
<1> QED
  BY <1>2, FlatAt

\* The list is the same in heaps with the same elements in the tree.
LEMMA FlatIsSame ==
    ASSUME NEW h, NEW g, Grounded(h), Grounded(g), NEW T, Alike(h, g, T), NEW at \in T
    PROVE  FlatFrom(g, at) = FlatFrom(h, at)
<1> DEFINE S == {i \in DOMAIN h : i \in T => FlatFrom(g, i) = FlatFrom(h, i)}
<1>1. ASSUME NEW i \in DOMAIN h, ToSet(h[i].kids) \subseteq S
      PROVE  i \in S
  <2> SUFFICES ASSUME i \in T
               PROVE  FlatFrom(g, i) = FlatFrom(h, i)
    OBVIOUS
  <2>1. i \in DOMAIN g /\ g[i].kids = h[i].kids /\ ToSet(h[i].kids) \subseteq T
    BY DEF Alike, Closed
  <2>2. PICK kids : kids = h[i].kids /\ kids = g[i].kids
    BY <2>1
  <2>3. \A k \in DOMAIN kids : FlatFrom(g, kids[k]) = FlatFrom(h, kids[k])
    BY <1>1, <2>1, <2>2 DEF ToSet
  <2>4. [k \in DOMAIN kids |-> FlatFrom(g, kids[k])] = [k \in DOMAIN kids |-> FlatFrom(h, kids[k])]
    BY <2>3
  <2>5. IsLeaf(g[i]) <=> IsLeaf(h[i])
    BY DEF Alike, IsLeaf
  <2>6. FlatFrom(h, i) =
          IF IsLeaf(h[i]) THEN <<i>> ELSE FlattenSeq([k \in DOMAIN kids |-> FlatFrom(h, kids[k])])
    BY <2>2, FlatAt
  <2>7. FlatFrom(g, i) =
          IF IsLeaf(g[i]) THEN <<i>> ELSE FlattenSeq([k \in DOMAIN kids |-> FlatFrom(g, kids[k])])
    BY <2>1, <2>2, FlatAt
  <2> QED
    BY <2>4, <2>5, <2>6, <2>7
<1>2. DOMAIN h \subseteq S
  <2> HIDE DEF S
  <2> QED
    BY <1>1, TreeInduction
<1> QED
  BY <1>2 DEF Alike, Closed

-------------------------------------------------------------------------------
(***************************************************************************)
(* What is put on the heap.                                                *)
(***************************************************************************)
Free(h) == (1..Places) \ DOMAIN h

\* The places for n nodes are free and in their order.
RoomFor(r, h, n) ==
    /\ r \in [1..n -> Free(h)]
    /\ \A k, l \in 1..n : k < l => r[k] < r[l]

\* As long as there is room.
LEMMA RoomIsFree ==
    ASSUME NEW h, Within(h), NEW n \in Nat, Fits(h, n)
    PROVE  RoomFor(Room(h, n), h, n)
<1> DEFINE r == Room(h, n)
           P == Free(h)
<1>1. Places \in Nat /\ P \in SUBSET (1..Places)
  BY PlacesAssumption DEF Free
<1>2. n <= Cardinality(P) /\ Cardinality(P) \in Nat
  <2>1. DOMAIN h \in SUBSET (1..Places)
    BY DEF Within
  <2>2. IsFiniteSet(1..Places) /\ Cardinality(1..Places) = Places
    BY <1>1, FS_Interval
  <2>3. /\ IsFiniteSet(DOMAIN h) /\ IsFiniteSet(P)
        /\ Cardinality(DOMAIN h) \in Nat /\ Cardinality(P) \in Nat
    BY <1>1, <2>1, <2>2, FS_Subset, FS_CardinalityType
  <2>4. Cardinality(P) = Cardinality(1..Places) - Cardinality((1..Places) \cap DOMAIN h)
    BY <2>2, FS_Difference DEF Free
  <2>5. (1..Places) \cap DOMAIN h = DOMAIN h
    BY <2>1
  <2> QED
    BY <1>1, <2>2, <2>3, <2>4, <2>5 DEF Fits
<1>3. r = [k \in 1..n |-> CHOOSE i \in P : Before(P, i) = k - 1]
  BY DEF Room, Free
<1> HIDE DEF P
<1>4. ASSUME NEW k \in 1..n
      PROVE  r[k] \in P /\ Before(P, r[k]) = k - 1
  <2>1. k \in 1..Cardinality(P)
    BY <1>2
  <2>2. \E i \in P : Before(P, i) = k - 1
    BY <1>1, <2>1, BeforeFinds
  <2>3. r[k] = CHOOSE i \in P : Before(P, i) = k - 1
    BY <1>3
  <2> HIDE DEF r
  <2> QED
    BY <2>2, <2>3
<1>5. ASSUME NEW k \in 1..n, NEW l \in 1..n, k < l
      PROVE  r[k] < r[l]
  <2>1. PICK a, b : a = r[k] /\ b = r[l]
    OBVIOUS
  <2>2. a \in P /\ b \in P /\ Before(P, a) = k - 1 /\ Before(P, b) = l - 1 /\ a \in Int /\ b \in Int
    <3> HIDE DEF r
    <3>1. a \in P /\ Before(P, a) = k - 1
      BY <1>4, <2>1
    <3>2. b \in P /\ Before(P, b) = l - 1
      BY <1>4, <2>1
    <3> QED
      BY <1>1, <3>1, <3>2
  <2>3. a # b
    BY <1>5, <2>2
  <2>4. ~(b < a)
    <3>1. b < a => Before(P, b) <= Before(P, a)
      BY <1>1, <2>2, BeforeGrows
    <3> QED
      BY <1>5, <2>2, <3>1
  <2> QED
    BY <2>1, <2>2, <2>3, <2>4
<1>6. r = [k \in 1..n |-> r[k]]
  BY <1>3
<1> HIDE DEF r
<1>7. r \in [1..n -> P]
  BY <1>4, <1>6
<1> QED
  BY <1>5, <1>7 DEF RoomFor, r, P

\* A sequence of nodes whose children come before them, and one with a root.
Sown(plan) ==
    /\ Len(plan) \in Nat /\ DOMAIN plan = 1..Len(plan)
    /\ \A i \in 1..Len(plan) : plan[i] \in Nodes /\ plan[i].kids \in Seq(1..(i - 1))

Rooted(plan) ==
    /\ Len(plan) # 0
    /\ \A i \in 1..(Len(plan) - 1) : \E j \in 1..Len(plan) : i \in ToSet(plan[j].kids)

Bare(plan) == \A i \in 1..Len(plan) : plan[i].kids = <<>>

\* What it comes to when such a sequence is put on a heap.
PutAs(h, plan, g, new, top) ==
    /\ Grounded(g) /\ Within(g)
    /\ DOMAIN g = DOMAIN h \cup new /\ new \cap DOMAIN h = {}
    /\ \A i \in DOMAIN h : g[i] = h[i]
    /\ \A i \in new : ToSet(g[i].kids) \subseteq new
    /\ Bare(plan) => \A i \in new : g[i].kids = <<>>
    /\ Rooted(plan) => top \in new /\ InTree(g, top) = new

\* The numbers of s are those of places that r maps.
Via(s, r) == [j \in DOMAIN s |-> r[s[j]]]

\* The trees of p are there again in g, and r says where.
Mirrors(p, g, r) ==
    /\ r \in [DOMAIN p -> DOMAIN g]
    /\ \A i, j \in DOMAIN p : r[i] = r[j] => i = j
    /\ \A i \in DOMAIN p : /\ g[r[i]].op = p[i].op /\ g[r[i]].step = p[i].step
                           /\ g[r[i]].kids = Via(p[i].kids, r)

\* It comes to that.
LEMMA PlacedIsPut ==
    ASSUME NEW h, Grounded(h), Within(h), NEW plan, Sown(plan), Fits(h, Len(plan))
    PROVE  /\ PutAs(h, plan, Placed(h, plan), ToSet(Room(h, Len(plan))), Last(Room(h, Len(plan))))
           /\ Mirrors(plan, Placed(h, plan), Room(h, Len(plan)))
<1>1. PICK n, r, g : n = Len(plan) /\ r = Room(h, n) /\ g = Placed(h, plan)
  OBVIOUS
<1> DEFINE new == ToSet(r)
           node(k) == [plan[k] EXCEPT !.kids = [j \in DOMAIN @ |-> r[@[j]]]]
<1>2. n \in Nat /\ \A i \in 1..n : plan[i] \in Nodes /\ plan[i].kids \in Seq(1..(i - 1))
  BY <1>1 DEF Sown
<1>3. /\ r \in [1..n -> Free(h)]
      /\ \A k, l \in 1..n : k < l => r[k] < r[l]
  BY <1>1, <1>2, RoomIsFree DEF RoomFor
<1>4. /\ DOMAIN r = 1..n /\ new = {r[k] : k \in 1..n}
      /\ new \subseteq 1..Places /\ new \cap DOMAIN h = {}
      /\ \A k \in 1..n : r[k] \in new /\ r[k] \in Int
  BY <1>3 DEF ToSet, Free
<1>5. \A k, l \in 1..n : r[k] = r[l] => k = l
  <2> SUFFICES ASSUME NEW k \in 1..n, NEW l \in 1..n, r[k] = r[l], k # l
               PROVE  FALSE
    OBVIOUS
  <2>1. k < l \/ l < k
    OBVIOUS
  <2> QED
    BY <1>3, <1>4, <2>1
<1>6. /\ DOMAIN g = DOMAIN h \cup new
      /\ \A i \in DOMAIN h : g[i] = h[i]
      /\ \A k \in 1..n : g[r[k]] = node(k)
  <2> DEFINE made(i) == [plan[CHOOSE l \in DOMAIN r : r[l] = i]
                           EXCEPT !.kids = [j \in DOMAIN @ |-> r[@[j]]]]
  <2>1. g = [i \in DOMAIN h \cup new |-> IF i \in DOMAIN h THEN h[i] ELSE made(i)]
    <3>1. r = Room(h, Len(plan))
      BY <1>1
    <3> QED
      BY <1>1, <3>1 DEF Placed
  <2>2. ASSUME NEW k \in 1..n
        PROVE  made(r[k]) = node(k)
    <3>1. (CHOOSE l \in DOMAIN r : r[l] = r[k]) = k
      <4>1. \E l \in DOMAIN r : r[l] = r[k]
        BY <1>4
      <4>2. PICK c : c = CHOOSE l \in DOMAIN r : r[l] = r[k]
        OBVIOUS
      <4>3. c \in DOMAIN r /\ r[c] = r[k]
        BY <4>1, <4>2
      <4> QED
        BY <1>4, <1>5, <4>2, <4>3
    <3>2. \A l : [plan[l] EXCEPT !.kids = [j \in DOMAIN @ |-> r[@[j]]]] = node(l)
      OBVIOUS
    <3>3. made(r[k]) = node(CHOOSE l \in DOMAIN r : r[l] = r[k])
      BY <3>2
    <3> HIDE DEF made, node
    <3> QED
      BY <3>1, <3>3
  <2> HIDE DEF made, node, new
  <2> QED
    BY <1>4, <2>1, <2>2
<1>7. ASSUME NEW k \in 1..n
      PROVE  /\ g[r[k]] \in Nodes
             /\ g[r[k]].kids \in Seq(new)
             /\ g[r[k]].op = plan[k].op /\ g[r[k]].step = plan[k].step
             /\ Len(g[r[k]].kids) = Len(plan[k].kids)
             /\ g[r[k]].kids = Via(plan[k].kids, r)
             /\ \A j \in 1..Len(plan[k].kids) : /\ g[r[k]].kids[j] = r[plan[k].kids[j]]
                                                /\ plan[k].kids[j] \in 1..n
                                                /\ g[r[k]].kids[j] < r[k]
  <2>1. PICK p, kids, c : p = plan[k] /\ kids = p.kids /\ c = Len(kids)
    OBVIOUS
  <2>2. p \in Nodes /\ kids \in Seq(1..(k - 1))
    BY <1>2, <2>1
  <2>3. /\ c \in Nat /\ DOMAIN kids = 1..c
        /\ \A j \in 1..c : kids[j] \in 1..(k - 1) /\ kids[j] \in 1..n
    <3>1. c \in Nat /\ DOMAIN kids = 1..c /\ \A j \in 1..c : kids[j] \in 1..(k - 1)
      BY <2>1, <2>2
    <3> QED
      BY <1>2, <3>1
  <2>4. PICK q : q = [j \in DOMAIN kids |-> r[kids[j]]]
    OBVIOUS
  <2>5. \A j \in 1..c : q[j] = r[kids[j]] /\ q[j] \in new /\ q[j] < r[k] /\ q[j] \in Nat
    <3> TAKE j \in 1..c
    <3>1. kids[j] \in 1..n /\ kids[j] < k
      BY <2>3
    <3>2. r[kids[j]] < r[k] /\ r[kids[j]] \in new
      BY <1>3, <1>4, <3>1
    <3>3. r[kids[j]] \in 1..Places
      BY <1>4, <3>2
    <3> QED
      BY <2>3, <2>4, <3>2, <3>3
  <2> HIDE DEF new
  <2>6. q \in Seq(new) /\ q \in Seq(Nat) /\ Len(q) = c
    <3>1. q = [j \in 1..c |-> q[j]] /\ c \in Nat
      BY <2>3, <2>4
    <3> QED
      BY <2>5, <3>1
  <2>7. g[r[k]] = [p EXCEPT !.kids = q]
    BY <1>6, <2>1, <2>4
  <2>8. g[r[k]] \in Nodes /\ g[r[k]].kids = q /\ g[r[k]].op = p.op /\ g[r[k]].step = p.step
    BY <2>1, <2>2, <2>6, <2>7, NodeWith
  <2>9. q = Via(kids, r)
    BY <2>4 DEF Via
  <2> QED
    BY <2>1, <2>3, <2>5, <2>6, <2>8, <2>9
<1> HIDE DEF new, node
<1>8. Grounded(g) /\ Within(g)
  <2>1. ASSUME NEW i \in DOMAIN g
        PROVE  /\ g[i] \in Nodes /\ g[i].kids \in Seq(DOMAIN g)
               /\ \A j \in 1..Len(g[i].kids) : g[i].kids[j] < i
    <3>1. CASE i \in DOMAIN h
      <4>1. h[i] \in Nodes /\ h[i].kids \in Seq(DOMAIN h)
            /\ \A j \in 1..Len(h[i].kids) : h[i].kids[j] < i
        BY <3>1 DEF Grounded
      <4>2. g[i] = h[i]
        BY <1>6, <3>1
      <4>3. h[i].kids \in Seq(DOMAIN g)
        BY <1>6, <4>1
      <4> QED
        BY <4>1, <4>2, <4>3
    <3>2. CASE i \in new
      <4>1. PICK k \in 1..n : i = r[k]
        BY <1>4, <3>2
      <4>2. /\ g[i] \in Nodes /\ g[i].kids \in Seq(new) /\ Len(g[i].kids) = Len(plan[k].kids)
            /\ \A j \in 1..Len(plan[k].kids) : g[i].kids[j] < i
        BY <1>7, <4>1
      <4>3. g[i].kids \in Seq(DOMAIN g)
        BY <1>6, <4>2
      <4> QED
        BY <4>2, <4>3
    <3> QED
      BY <1>6, <3>1, <3>2
  <2>2. DOMAIN g \in SUBSET (1..Places) /\ Places \in Nat
    BY <1>4, <1>6, PlacesAssumption DEF Within
  <2>3. g \in [DOMAIN g -> Nodes]
    <3>1. g = [i \in DOMAIN g |-> g[i]]
      BY <1>1 DEF Placed
    <3> QED
      BY <2>1, <3>1
  <2> QED
    BY <2>1, <2>2, <2>3 DEF Grounded, Within
<1>9. ASSUME NEW i \in new
      PROVE  ToSet(g[i].kids) \subseteq new
  <2>1. PICK k \in 1..n : i = r[k]
    BY <1>4
  <2>2. g[i].kids \in Seq(new)
    BY <1>7, <2>1
  <2> QED
    BY <2>2 DEF ToSet
<1>10. ASSUME Bare(plan), NEW i \in new
       PROVE  g[i].kids = <<>>
  <2>1. PICK k \in 1..n : i = r[k]
    BY <1>4
  <2>2. g[i].kids \in Seq(new) /\ Len(g[i].kids) = Len(plan[k].kids)
    BY <1>7, <2>1
  <2>3. Len(plan[k].kids) = 0
    BY <1>1, <1>10 DEF Bare
  <2> QED
    BY <2>2, <2>3
<1>11. ASSUME Rooted(plan)
       PROVE  Last(r) \in new /\ InTree(g, Last(r)) = new
  <2>1. n \in 1..n /\ \A i \in 1..(n - 1) : \E j \in 1..n : i \in ToSet(plan[j].kids)
    BY <1>1, <1>2, <1>11 DEF Rooted
  <2>2. Last(r) = r[n]
    <3>1. Len(r) = n
      BY <1>2, <1>3
    <3> QED
      BY <3>1 DEF Last
  <2>3. r[n] \in new /\ r[n] \in DOMAIN g
    BY <1>4, <1>6, <2>1
  <2>4. Closed(g, new)
    BY <1>6, <1>9 DEF Closed
  <2>5. InTree(g, r[n]) \subseteq new
    BY <1>8, <2>3, <2>4, TreeIsLeast
  <2>6. r[n] \in InTree(g, r[n]) /\ Closed(g, InTree(g, r[n]))
    BY <1>8, <2>3, TreeIsClosed
  <2> DEFINE T == {d \in Nat : d < n => r[n - d] \in InTree(g, r[n])}
  <2>7. ASSUME NEW d \in Nat, \A m \in 0..(d - 1) : m \in T
        PROVE  d \in T
    <3> SUFFICES ASSUME d < n
                 PROVE  r[n - d] \in InTree(g, r[n])
      OBVIOUS
    <3>1. CASE d = 0
      <4>1. n - d = n
        BY <1>2, <3>1
      <4> QED
        BY <2>6, <4>1
    <3>2. CASE d # 0
      <4>1. PICK i : i = n - d
        OBVIOUS
      <4>2. i \in 1..(n - 1)
        BY <1>2, <3>2, <4>1
      <4>3. PICK j \in 1..n : i \in ToSet(plan[j].kids)
        BY <2>1, <4>2
      <4>4. PICK l \in 1..Len(plan[j].kids) : plan[j].kids[l] = i
        <5>1. plan[j].kids \in Seq(1..(j - 1))
          BY <1>2
        <5>2. DOMAIN plan[j].kids = 1..Len(plan[j].kids)
          BY <5>1
        <5> QED
          BY <4>3, <5>2 DEF ToSet
      <4>5. i < j
        <5>1. plan[j].kids \in Seq(1..(j - 1))
          BY <1>2
        <5>2. plan[j].kids[l] \in 1..(j - 1)
          BY <5>1
        <5> QED
          BY <4>4, <5>2
      <4>6. r[i] \in ToSet(g[r[j]].kids)
        <5>1. /\ g[r[j]].kids \in Seq(new) /\ Len(g[r[j]].kids) = Len(plan[j].kids)
              /\ g[r[j]].kids[l] = r[i]
          BY <1>7, <4>4
        <5>2. l \in DOMAIN g[r[j]].kids
          BY <5>1
        <5> QED
          BY <5>1, <5>2 DEF ToSet
      <4>7. PICK m \in 0..(d - 1) : n - m = j
        <5>1. n - j \in 0..(d - 1) /\ n - (n - j) = j
          BY <1>2, <4>1, <4>5
        <5> QED
          BY <5>1
      <4>8. r[j] \in InTree(g, r[n])
        <5>1. m \in T
          BY <2>7, <4>7
        <5>2. m < n
          BY <1>2, <4>7
        <5> QED
          BY <4>7, <5>1, <5>2
      <4> QED
        BY <2>6, <4>1, <4>6, <4>8 DEF Closed
    <3> QED
      BY <3>1, <3>2
  <2>8. \A d \in Nat : d \in T
    <3> HIDE DEF T
    <3> QED
      BY <2>7, StrongInduction
  <2>9. \A k \in 1..n : r[k] \in InTree(g, r[n])
    <3> TAKE k \in 1..n
    <3>1. n - k \in Nat /\ n - k < n /\ n - (n - k) = k
      BY <1>2
    <3>2. n - k \in T
      BY <2>8, <3>1
    <3> QED
      BY <3>1, <3>2
  <2> QED
    BY <1>4, <2>2, <2>3, <2>5, <2>9
<1>12. Mirrors(plan, g, r)
  <2>1. DOMAIN plan = 1..n
    BY <1>1 DEF Sown
  <2>2. r \in [1..n -> DOMAIN g]
    BY <1>3, <1>4, <1>6
  <2> QED
    BY <1>5, <1>7, <2>1, <2>2 DEF Mirrors
<1> QED
  BY <1>1, <1>4, <1>6, <1>8, <1>9, <1>10, <1>11, <1>12 DEF PutAs, new

-------------------------------------------------------------------------------
(***************************************************************************)
(* Copies.                                                                 *)
(***************************************************************************)
\* What Plans have, and copies too.
Sound(plan) == plan \in Seq(Nodes) /\ Sown(plan) /\ Rooted(plan)

\* In a plan that is moved the numbers of the children are greater.
LEMMA MovedIs ==
    ASSUME NEW plan \in Seq(Nodes), NEW n \in Nat
    PROVE  /\ Moved(plan, n) \in Seq(Nodes)
           /\ Len(Moved(plan, n)) = Len(plan)
           /\ \A i \in 1..Len(plan) :
                /\ Moved(plan, n)[i].op = plan[i].op /\ Moved(plan, n)[i].step = plan[i].step
                /\ Len(plan[i].kids) \in Nat
                /\ Len(Moved(plan, n)[i].kids) = Len(plan[i].kids)
                /\ \A j \in 1..Len(plan[i].kids) :
                     plan[i].kids[j] \in Nat /\ Moved(plan, n)[i].kids[j] = plan[i].kids[j] + n
<1> DEFINE node(i) == [plan[i] EXCEPT !.kids = [j \in DOMAIN @ |-> @[j] + n]]
           moved == [i \in DOMAIN plan |-> node(i)]
<1>1. Moved(plan, n) = moved
  BY DEF Moved
<1>2. PICK l : l = Len(plan) /\ l \in Nat /\ DOMAIN plan = 1..l
  OBVIOUS
<1>3. ASSUME NEW i \in 1..l
      PROVE  /\ node(i) \in Nodes
             /\ node(i).op = plan[i].op /\ node(i).step = plan[i].step
             /\ Len(plan[i].kids) \in Nat
             /\ Len(node(i).kids) = Len(plan[i].kids)
             /\ \A j \in 1..Len(plan[i].kids) :
                  plan[i].kids[j] \in Nat /\ node(i).kids[j] = plan[i].kids[j] + n
  <2>1. PICK p, kids, c : p = plan[i] /\ kids = p.kids /\ c = Len(kids)
    OBVIOUS
  <2>2. p \in Nodes /\ kids \in Seq(Nat)
    <3>1. p \in Nodes
      BY <1>2, <2>1
    <3> QED
      BY <2>1, <3>1 DEF Nodes
  <2>3. c \in Nat /\ DOMAIN kids = 1..c /\ \A j \in 1..c : kids[j] \in Nat
    BY <2>1, <2>2
  <2>4. PICK q : q = [j \in DOMAIN kids |-> kids[j] + n]
    OBVIOUS
  <2>5. q \in Seq(Nat) /\ Len(q) = c /\ \A j \in 1..c : q[j] = kids[j] + n
    <3>1. q = [j \in 1..c |-> q[j]] /\ \A j \in 1..c : q[j] \in Nat
      BY <2>3, <2>4
    <3> QED
      BY <2>3, <2>4, <3>1
  <2>6. node(i) = [p EXCEPT !.kids = q]
    BY <2>1, <2>4
  <2>7. /\ [p EXCEPT !.kids = q] \in Nodes /\ [p EXCEPT !.kids = q].kids = q
        /\ [p EXCEPT !.kids = q].op = p.op /\ [p EXCEPT !.kids = q].step = p.step
    BY <2>1, <2>2, <2>5, NodeWith
  <2> HIDE DEF node
  <2> QED
    BY <2>1, <2>3, <2>5, <2>6, <2>7
<1> HIDE DEF node
<1>4. moved \in Seq(Nodes) /\ Len(moved) = l /\ \A i \in 1..l : moved[i] = node(i)
  BY <1>2, <1>3
<1> HIDE DEF moved
<1> QED
  BY <1>1, <1>2, <1>3, <1>4

\* One plan behind the other and a root for them: what CopyOf does.
Joined(s, node) ==
    LET before(k) == Len(FlattenSeq([j \in 1..k |-> s[j]]))
    IN  FlattenSeq([k \in DOMAIN node.kids |-> Moved(s[k], before(k - 1))])
          \o <<[node EXCEPT !.kids = [k \in DOMAIN @ |-> before(k)]]>>

\* Of the plans put one behind the other each node but their roots has a parent.
Lined(t, b, k) ==
    /\ t \in Seq(Nodes) /\ Len(t) = b[k]
    /\ \A l \in 1..k : b[l] \in 1..b[k]
    /\ \A i \in 1..b[k] : t[i].kids \in Seq(1..(i - 1))
    /\ \A i \in 1..b[k] : \/ \E j \in 1..b[k] : i \in ToSet(t[j].kids)
                          \/ \E l \in 1..k : i = b[l]

\* One more plan.
LEMMA LinedGoesOn ==
    ASSUME NEW k \in Nat, NEW b, b[k] \in Nat, NEW t, Lined(t, b, k),
           NEW plan, Sound(plan), NEW o, o = k + 1, b[o] = b[k] + Len(plan)
    PROVE  Lined(t \o Moved(plan, b[k]), b, o)
<1>1. PICK m, c, d, u : m = Moved(plan, b[k]) /\ c = b[k] /\ d = Len(plan) /\ u = t \o m
  OBVIOUS
<1>2. /\ d \in Nat /\ d # 0 /\ c \in Nat /\ b[o] = c + d
      /\ \A i \in 1..d : plan[i].kids \in Seq(1..(i - 1))
      /\ \A i \in 1..(d - 1) : \E j \in 1..d : i \in ToSet(plan[j].kids)
  BY <1>1 DEF Sound, Sown, Rooted
<1>3. /\ m \in Seq(Nodes) /\ Len(m) = d
      /\ \A i \in 1..d :
           /\ Len(plan[i].kids) \in Nat
           /\ Len(m[i].kids) = Len(plan[i].kids)
           /\ \A j \in 1..Len(plan[i].kids) :
                plan[i].kids[j] \in Nat /\ m[i].kids[j] = plan[i].kids[j] + c
  BY <1>1, MovedIs DEF Sound
<1>4. /\ t \in Seq(Nodes) /\ Len(t) = c
      /\ \A l \in 1..k : b[l] \in 1..c
      /\ \A i \in 1..c : t[i].kids \in Seq(1..(i - 1))
      /\ \A i \in 1..c : \/ \E j \in 1..c : i \in ToSet(t[j].kids)
                         \/ \E l \in 1..k : i = b[l]
  BY <1>1 DEF Lined
<1>5. PICK e : e = c + d
  OBVIOUS
<1>6. e \in Nat /\ b[o] = e /\ c < e
  BY <1>2, <1>5
<1>7. /\ u \in Seq(Nodes) /\ Len(u) = e
      /\ \A i \in 1..c : u[i] = t[i]
      /\ \A i \in 1..d : u[c + i] = m[i]
  <2>1. t \o m \in Seq(Nodes) /\ Len(t \o m) = Len(t) + Len(m)
    BY <1>3, <1>4, ConcatProperties
  <2>2. \A i \in 1..(Len(t) + Len(m)) :
           (t \o m)[i] = IF i <= Len(t) THEN t[i] ELSE m[i - Len(t)]
    BY <1>3, <1>4, ConcatProperties
  <2>3. \A i \in 1..c : u[i] = t[i]
    BY <1>1, <1>2, <1>3, <1>4, <2>2
  <2>4. \A i \in 1..d : u[c + i] = m[i]
    <3> TAKE i \in 1..d
    <3>1. PICK a : a = c + i
      OBVIOUS
    <3>2. a \in 1..(c + d) /\ ~(a <= c) /\ a - c = i
      BY <1>2, <3>1
    <3> QED
      BY <1>1, <1>3, <1>4, <2>2, <3>1, <3>2
  <2> QED
    BY <1>1, <1>3, <1>4, <1>5, <2>1, <2>3, <2>4
<1>8. \A i \in 1..e : i \in 1..c \/ \E a \in 1..d : i = c + a
  <2> TAKE i \in 1..e
  <2>1. i \in 1..c \/ (i - c \in 1..d /\ i = c + (i - c))
    BY <1>2, <1>5
  <2> QED
    BY <2>1
<1>9. ASSUME NEW a \in 1..d
      PROVE  /\ m[a].kids \in Seq(1..(c + a - 1))
             /\ \A l \in ToSet(plan[a].kids) : c + l \in ToSet(m[a].kids)
  <2>1. PICK kids, n, q : kids = plan[a].kids /\ n = Len(kids) /\ q = m[a].kids
    OBVIOUS
  <2>2. n \in Nat /\ DOMAIN kids = 1..n /\ \A j \in 1..n : kids[j] \in 1..(a - 1) /\ q[j] = kids[j] + c
    <3>1. kids \in Seq(1..(a - 1))
      BY <1>2, <2>1
    <3>2. n \in Nat /\ \A j \in 1..n : q[j] = kids[j] + c
      BY <1>3, <2>1
    <3> QED
      BY <2>1, <3>1, <3>2
  <2>3. q \in Seq(Nat) /\ Len(q) = n
    <3>1. m[a] \in Nodes
      BY <1>3
    <3>2. Len(q) = n
      BY <1>3, <2>1
    <3> QED
      BY <2>1, <3>1, <3>2 DEF Nodes
  <2>4. \A j \in 1..n : q[j] \in 1..(c + a - 1)
    <3> TAKE j \in 1..n
    <3>1. PICK x \in 1..(a - 1) : q[j] = x + c
      BY <2>2
    <3>2. a \in Nat /\ c \in Nat
      BY <1>2
    <3>3. x + c \in 1..(c + a - 1)
      BY <3>2
    <3> QED
      BY <3>1, <3>3
  <2>5. q \in Seq(1..(c + a - 1))
    <3> DEFINE X == 1..(c + a - 1)
    <3>1. \A j \in 1..n : q[j] \in X
      BY <2>4
    <3>2. q = [j \in 1..n |-> q[j]]
      BY <2>3
    <3> HIDE DEF X
    <3>3. [j \in 1..n |-> q[j]] \in Seq(X)
      BY <2>2, <3>1
    <3> QED
      BY <3>2, <3>3 DEF X
  <2>6. \A l \in ToSet(kids) : c + l \in ToSet(q)
    <3> TAKE l \in ToSet(kids)
    <3>1. PICK j \in 1..n : l = kids[j]
      BY <2>2 DEF ToSet
    <3>2. q[j] = c + l /\ j \in DOMAIN q
      BY <1>2, <2>2, <2>3, <3>1
    <3> QED
      BY <3>2 DEF ToSet
  <2> QED
    BY <2>1, <2>5, <2>6
<1>10. \A l \in 1..o : b[l] \in 1..b[o]
  <2> TAKE l \in 1..o
  <2>1. l = o \/ l \in 1..k
    OBVIOUS
  <2>2. l \in 1..k => b[l] \in 1..c
    BY <1>4
  <2> QED
    BY <1>2, <1>6, <2>1, <2>2
<1>11. ASSUME NEW i \in 1..e
       PROVE  u[i].kids \in Seq(1..(i - 1))
  <2>1. CASE i \in 1..c
    BY <1>4, <1>7, <2>1
  <2>2. CASE \E a \in 1..d : i = c + a
    <3>1. PICK a \in 1..d : i = c + a
      BY <2>2
    <3>2. u[i] = m[a]
      BY <1>7, <3>1
    <3>3. m[a].kids \in Seq(1..(c + a - 1))
      BY <1>9
    <3>4. c + a - 1 = i - 1
      BY <1>2, <3>1
    <3> QED
      BY <3>2, <3>3, <3>4
  <2> QED
    BY <1>8, <2>1, <2>2
<1>12. ASSUME NEW i \in 1..e
       PROVE  \/ \E j \in 1..e : i \in ToSet(u[j].kids)
              \/ \E l \in 1..o : i = b[l]
  <2>1. CASE i \in 1..c
    <3>1. \A j \in 1..c : j \in 1..e /\ u[j] = t[j]
      BY <1>2, <1>6, <1>7
    <3>2. \A l \in 1..k : l \in 1..o
      OBVIOUS
    <3> QED
      BY <1>4, <2>1, <3>1, <3>2
  <2>2. CASE \E a \in 1..d : i = c + a
    <3>1. PICK a \in 1..d : i = c + a
      BY <2>2
    <3>2. CASE a = d
      <4>1. i = b[o] /\ o \in 1..o
        BY <1>5, <1>6, <3>1, <3>2
      <4> QED
        BY <4>1
    <3>3. CASE a # d
      <4>1. a \in 1..(d - 1)
        BY <1>2, <3>3
      <4>2. PICK j \in 1..d : a \in ToSet(plan[j].kids)
        BY <1>2, <4>1
      <4>3. c + a \in ToSet(m[j].kids)
        BY <1>9, <4>2
      <4>4. PICK x : x = c + j
        OBVIOUS
      <4>5. x \in 1..e /\ u[x] = m[j]
        BY <1>2, <1>5, <1>7, <4>4
      <4> QED
        BY <3>1, <4>3, <4>5
    <3> QED
      BY <3>2, <3>3
  <2> QED
    BY <1>8, <2>1, <2>2
<1> QED
  BY <1>1, <1>6, <1>7, <1>10, <1>11, <1>12 DEF Lined

\* The copies of the children and their parent are a plan.
LEMMA JoinedIsSound ==
    ASSUME NEW node \in Nodes, NEW n \in Nat, Len(node.kids) = n, NEW s,
           DOMAIN s = 1..n, \A k \in 1..n : Sound(s[k]), s \in Seq(Seq(Nodes))
    PROVE  Sound(Joined(s, node))
<1>1. s \in [1..n -> Seq(Nodes)] /\ \A k \in 1..n : s[k] \in Seq(Nodes) /\ Len(s[k]) \in Nat
  BY DEF Sound
<1>2. PICK f : /\ IsFlattening(f, s, n, Nodes)
               /\ \A k \in 0..n : FlattenSeq([j \in 1..k |-> s[j]]) = f[k]
  BY <1>1, FlattenGoesOn
<1>3. PICK b : b = [k \in 0..n |-> Len(f[k])]
  OBVIOUS
<1>4. /\ b \in [0..n -> Nat] /\ b[0] = 0
      /\ \A k \in 1..n : b[k] = b[k - 1] + Len(s[k])
  <2>1. f \in [0..n -> Seq(Nodes)] /\ f[0] = <<>> /\ \A k \in 1..n : f[k] = f[k - 1] \o s[k]
    BY <1>2 DEF IsFlattening
  <2>2. b \in [0..n -> Nat] /\ b[0] = 0
    BY <1>3, <2>1
  <2>3. ASSUME NEW k \in 1..n
        PROVE  b[k] = b[k - 1] + Len(s[k])
    <3>1. k \in 0..n /\ k - 1 \in 0..n
      OBVIOUS
    <3>2. f[k - 1] \in Seq(Nodes) /\ f[k] = f[k - 1] \o s[k] /\ s[k] \in Seq(Nodes)
      BY <1>1, <2>1, <3>1
    <3>3. Len(f[k - 1] \o s[k]) = Len(f[k - 1]) + Len(s[k])
      BY <3>2, ConcatProperties
    <3> QED
      BY <1>3, <3>1, <3>2, <3>3
  <2> QED
    BY <2>2, <2>3
<1>5. \A k \in 0..n : Len(FlattenSeq([j \in 1..k |-> s[j]])) = b[k]
  BY <1>2, <1>3
<1> DEFINE m == [k \in 1..n |-> Moved(s[k], b[k - 1])]
<1>6. m \in [1..n -> Seq(Nodes)]
  <2>1. ASSUME NEW k \in 1..n
        PROVE  Moved(s[k], b[k - 1]) \in Seq(Nodes)
    <3>1. b[k - 1] \in Nat
      <4>1. k - 1 \in 0..n
        OBVIOUS
      <4> QED
        BY <1>4, <4>1
    <3> QED
      BY <1>1, <3>1, MovedIs
  <2> QED
    BY <2>1
<1>7. PICK g : /\ IsFlattening(g, m, n, Nodes)
               /\ \A k \in 0..n : FlattenSeq([j \in 1..k |-> m[j]]) = g[k]
  <2> HIDE DEF m
  <2> QED
    BY <1>6, FlattenGoesOn
<1>8. g \in [0..n -> Seq(Nodes)] /\ g[0] = <<>> /\ \A k \in 1..n : g[k] = g[k - 1] \o m[k]
  BY <1>7 DEF IsFlattening
<1>9. FlattenSeq(m) = g[n]
  <2>1. m = [j \in 1..n |-> m[j]] /\ n \in 0..n
    OBVIOUS
  <2> HIDE DEF m
  <2> QED
    BY <1>7, <2>1, Zenon
<1> DEFINE S == {k \in Nat : k <= n => Lined(g[k], b, k)}
<1>10. 0 \in S
  <2>1. g[0] \in Seq(Nodes) /\ Len(g[0]) = b[0] /\ 1..b[0] = {} /\ 1..0 = {}
    BY <1>4, <1>8
  <2>2. Lined(g[0], b, 0)
    BY <2>1 DEF Lined
  <2> QED
    BY <2>2
<1>11. ASSUME NEW k \in Nat, k \in S
       PROVE  k + 1 \in S
  <2> SUFFICES ASSUME k + 1 <= n
               PROVE  Lined(g[k + 1], b, k + 1)
    OBVIOUS
  <2>1. PICK o : o = k + 1
    OBVIOUS
  <2>2. o \in 1..n /\ o - 1 = k /\ k \in 0..n
    BY <2>1
  <2>3. g[o] = g[k] \o Moved(s[o], b[k]) /\ b[o] = b[k] + Len(s[o]) /\ b[k] \in Nat
    BY <1>4, <1>8, <2>2
  <2>4. Lined(g[k], b, k)
    BY <1>11, <2>2
  <2>5. Sound(s[o])
    BY <2>2
  <2>6. Lined(g[k] \o Moved(s[o], b[k]), b, o)
    BY <2>1, <2>3, <2>4, <2>5, LinedGoesOn
  <2> QED
    BY <2>1, <2>3, <2>6
<1>12. Lined(g[n], b, n)
  <2>1. n \in S
    <3> HIDE DEF S
    <3> QED
      BY <1>10, <1>11, SetInduction
  <2> QED
    BY <2>1
<1>13. PICK top, t, c : /\ top = [node EXCEPT !.kids = [k \in DOMAIN @ |-> b[k]]]
                        /\ t = g[n] /\ c = b[n]
  OBVIOUS
<1>14. Joined(s, node) = t \o <<top>>
  <2>1. node.kids \in Seq(Nat) /\ DOMAIN node.kids = 1..n
    BY DEF Nodes
  <2>2. \A k \in 1..n : k \in 0..n /\ k - 1 \in 0..n
    OBVIOUS
  <2>3. [k \in DOMAIN node.kids |-> Moved(s[k], Len(FlattenSeq([j \in 1..(k - 1) |-> s[j]])))] = m
    BY <1>5, <2>1, <2>2
  <2>4. [k \in DOMAIN node.kids |-> Len(FlattenSeq([j \in 1..k |-> s[j]]))]
          = [k \in DOMAIN node.kids |-> b[k]]
    BY <1>5, <2>1, <2>2
  <2>5. PICK q : /\ q = [k \in DOMAIN node.kids |-> Len(FlattenSeq([j \in 1..k |-> s[j]]))]
                 /\ q = [k \in DOMAIN node.kids |-> b[k]]
    BY <2>4
  <2>6. [node EXCEPT !.kids = [k \in DOMAIN @ |-> Len(FlattenSeq([j \in 1..k |-> s[j]]))]] = top
    <3>1. top = [node EXCEPT !.kids = q]
      BY <1>13, <2>5
    <3>2. [node EXCEPT !.kids = [k \in DOMAIN @ |-> Len(FlattenSeq([j \in 1..k |-> s[j]]))]]
            = [node EXCEPT !.kids = q]
      BY <2>5
    <3> QED
      BY <3>1, <3>2
  <2> HIDE DEF m
  <2>7. Joined(s, node) = FlattenSeq(m) \o <<top>>
    BY <2>3, <2>6, Zenon DEF Joined
  <2> QED
    BY <1>9, <1>13, <2>7
<1>15. /\ c \in Nat /\ t \in Seq(Nodes) /\ Len(t) = c
       /\ \A l \in 1..n : b[l] \in 1..c
       /\ \A i \in 1..c : t[i].kids \in Seq(1..(i - 1))
       /\ \A i \in 1..c : \/ \E j \in 1..c : i \in ToSet(t[j].kids)
                          \/ \E l \in 1..n : i = b[l]
  <2>1. b[n] \in Nat
    BY <1>4
  <2> QED
    BY <1>12, <1>13, <2>1 DEF Lined
<1>16. top \in Nodes /\ top.kids \in Seq(1..c) /\ \A l \in 1..n : b[l] \in ToSet(top.kids)
  <2>1. node.kids \in Seq(Nat) /\ DOMAIN node.kids = 1..n
    BY DEF Nodes
  <2>2. PICK q : q = [k \in 1..n |-> b[k]]
    OBVIOUS
  <2>3. q \in Seq(1..c) /\ q \in Seq(Nat) /\ DOMAIN q = 1..n /\ \A l \in 1..n : q[l] = b[l]
    <3> DEFINE X == 1..c
    <3>1. \A k \in 1..n : b[k] \in X /\ b[k] \in Nat
      BY <1>15
    <3> HIDE DEF X
    <3>2. q \in Seq(X) /\ q \in Seq(Nat) /\ DOMAIN q = 1..n
      BY <2>2, <3>1
    <3> QED
      BY <2>2, <3>2 DEF X
  <2>4. top = [node EXCEPT !.kids = q]
    BY <1>13, <2>1, <2>2
  <2>5. top \in Nodes /\ top.kids = q
    <3>1. Len(q) = Len(node.kids)
      BY <2>3
    <3> QED
      BY <2>3, <2>4, <3>1, NodeWith
  <2>6. \A l \in 1..n : b[l] \in ToSet(q)
    BY <2>3 DEF ToSet
  <2> QED
    BY <2>3, <2>5, <2>6
<1>17. PICK u, e : u = t \o <<top>> /\ e = c + 1
  OBVIOUS
<1>18. /\ u \in Seq(Nodes) /\ Len(u) = e /\ DOMAIN u = 1..e /\ e \in Nat /\ e # 0
       /\ \A i \in 1..c : u[i] = t[i] /\ i \in 1..e
       /\ u[e] = top /\ e \in 1..e
  <2>1. u = Append(t, top)
    BY <1>15, <1>16, <1>17
  <2>2. t \in Seq(Nodes) /\ top \in Nodes /\ Len(t) = c /\ c \in Nat /\ e = c + 1
    BY <1>15, <1>16, <1>17
  <2>3. u \in Seq(Nodes) /\ Len(u) = e /\ DOMAIN u = 1..e
    BY <2>1, <2>2
  <2>4. \A i \in 1..c : u[i] = t[i] /\ i \in 1..e
    BY <2>1, <2>2
  <2>5. u[e] = top
    BY <2>1, <2>2
  <2> QED
    BY <2>2, <2>3, <2>4, <2>5
<1>19. \A i \in 1..e : i \in 1..c \/ i = e
  BY <1>15, <1>17
<1>20. Sown(u)
  <2>1. \A i \in 1..e : u[i] \in Nodes
    BY <1>18
  <2>2. ASSUME NEW i \in 1..e
        PROVE  u[i].kids \in Seq(1..(i - 1))
    <3>1. CASE i \in 1..c
      BY <1>15, <1>18, <3>1
    <3>2. CASE i = e
      <4>1. i - 1 = c
        BY <1>15, <1>17, <3>2
      <4> QED
        BY <1>16, <1>18, <3>2, <4>1
    <3> QED
      BY <1>19, <3>1, <3>2
  <2> QED
    BY <1>18, <2>1, <2>2 DEF Sown
<1>21. Rooted(u)
  <2>1. ASSUME NEW i \in 1..(e - 1)
        PROVE  \E j \in 1..e : i \in ToSet(u[j].kids)
    <3>1. i \in 1..c
      BY <1>15, <1>17
    <3>2. CASE \E j \in 1..c : i \in ToSet(t[j].kids)
      BY <1>18, <3>2
    <3>3. CASE \E l \in 1..n : i = b[l]
      <4>1. i \in ToSet(u[e].kids)
        BY <1>16, <1>18, <3>3
      <4> QED
        BY <1>18, <4>1
    <3> QED
      BY <1>15, <3>1, <3>2, <3>3
  <2> QED
    BY <1>18, <2>1 DEF Rooted
<1> QED
  BY <1>14, <1>17, <1>18, <1>20, <1>21 DEF Sound

\* The copy of an element is that of its children and itself, and is a plan.
LEMMA CopyIsSound ==
    ASSUME NEW h, Grounded(h)
    PROVE  \A at \in DOMAIN h :
             /\ Sound(CopyOf(h, at))
             /\ CopyOf(h, at) = Joined([k \in DOMAIN h[at].kids |-> CopyOf(h, h[at].kids[k])], h[at])
<1> DEFINE D == DOMAIN h
           V == {p \in Seq(Nodes) : Sown(p) /\ Rooted(p)}
           kids == [i \in D |-> h[i].kids]
           G == [p \in D \X Seq(V) |-> IF Len(p[2]) = Len(h[p[1]].kids) THEN Joined(p[2], h[p[1]])
                                       ELSE <<[h[p[1]] EXCEPT !.kids = <<>>]>>]
           Args(r, i) == [k \in DOMAIN h[i].kids |-> r[h[i].kids[k]]]
           Past(r, i, k) == Len(FlattenSeq([j \in 1..k |-> r[h[i].kids[j]]]))
           Body(r) == [i \in D |->
                         FlattenSeq([k \in DOMAIN h[i].kids |-> Moved(r[h[i].kids[k]], Past(r, i, k - 1))])
                           \o <<[h[i] EXCEPT !.kids = [k \in DOMAIN @ |-> Past(r, i, k)]]>>]
           copy == CHOOSE r : r = Body(r)
<1>1. PICK bound : Children(D, kids, bound)
  <2>1. PICK bound \in Nat : D \in SUBSET (0..bound)
    BY DEF Grounded
  <2>2. \A i \in D : kids[i] \in Seq(D) /\ \A k \in 1..Len(kids[i]) : kids[i][k] < i
    BY KidsOf
  <2> QED
    BY <2>1, <2>2 DEF Children
<1>2. ASSUME NEW i \in D, NEW args \in Seq(V), Len(args) = Len(h[i].kids)
      PROVE  Joined(args, h[i]) \in V
  <2>1. PICK n : n = Len(h[i].kids) /\ n \in Nat /\ n = Len(args)
    BY <1>2, KidsOf
  <2>2. h[i] \in Nodes
    BY DEF Grounded
  <2>3. args \in Seq(Seq(Nodes)) /\ DOMAIN args = 1..n /\ \A k \in 1..n : Sound(args[k])
    <3>1. \A k \in 1..n : args[k] \in V
      BY <2>1
    <3>2. DOMAIN args = 1..n
      BY <2>1
    <3>3. \A k \in 1..n : args[k] \in Seq(Nodes) /\ Sound(args[k])
      BY <3>1 DEF Sound
    <3>4. args = [k \in 1..n |-> args[k]]
      BY <3>2
    <3> DEFINE X == Seq(Nodes)
    <3>5. \A k \in 1..n : args[k] \in X
      BY <3>3
    <3> HIDE DEF V, X
    <3>6. [k \in 1..n |-> args[k]] \in Seq(X)
      BY <2>1, <3>5
    <3>7. args \in Seq(X)
      BY <3>4, <3>6
    <3> QED
      BY <3>2, <3>3, <3>7 DEF X
  <2>4. Sound(Joined(args, h[i]))
    BY <2>1, <2>2, <2>3, JoinedIsSound
  <2> QED
    BY <2>4 DEF Sound
<1>3. ASSUME NEW i \in D
      PROVE  <<[h[i] EXCEPT !.kids = <<>>]>> \in V
  <2>1. PICK o : o = [h[i] EXCEPT !.kids = <<>>]
    OBVIOUS
  <2>2. h[i] \in Nodes
    BY DEF Grounded
  <2>3. o \in Nodes /\ o.kids = <<>>
    <3>1. <<>> \in Seq(Nat)
      OBVIOUS
    <3> QED
      BY <2>1, <2>2, <3>1 DEF Nodes
  <2>4. PICK p : p = <<o>> /\ Len(p) = 1 /\ DOMAIN p = 1..1 /\ p[1] = o /\ p \in Seq(Nodes)
    <3>1. Len(<<o>>) = 1 /\ <<o>>[1] = o /\ <<o>> \in Seq(Nodes)
      BY <2>3
    <3>2. DOMAIN <<o>> = 1..1
      OBVIOUS
    <3> QED
      BY <3>1, <3>2, Zenon
  <2>5. \A j \in 1..1 : j = 1
    OBVIOUS
  <2>6. Sown(p)
    <3>1. \A j \in 1..Len(p) : p[j] \in Nodes /\ p[j].kids = <<>>
      BY <2>3, <2>4, <2>5
    <3>2. \A j : <<>> \in Seq(1..(j - 1))
      OBVIOUS
    <3> QED
      BY <2>4, <3>1, <3>2 DEF Sown
  <2>7. Rooted(p)
    BY <2>4 DEF Rooted
  <2> QED
    BY <2>1, <2>4, <2>6, <2>7
<1>4. \A i \in D : \A args \in Seq(V) :
         /\ G[<<i, args>>] \in V
         /\ Len(args) = Len(h[i].kids) => G[<<i, args>>] = Joined(args, h[i])
  <2> TAKE i \in D
  <2> TAKE args \in Seq(V)
  <2>1. G[<<i, args>>] = IF Len(args) = Len(h[i].kids) THEN Joined(args, h[i])
                         ELSE <<[h[i] EXCEPT !.kids = <<>>]>>
    <3> HIDE DEF D, V
    <3> QED
      OBVIOUS
  <2> HIDE DEF G, V
  <2> QED
    BY <1>2, <1>3, <2>1
<1> HIDE DEF G
<1>5. PICK f : IsTreeRecursion(f, D, kids, V, G)
  <2>1. \A i \in D : \A args \in Seq(V) : G[<<i, args>>] \in V
    BY <1>4, Zenon
  <2> HIDE DEF D, kids, V
  <2> QED
    BY <1>1, <2>1, TreeRecursionExists
<1>6. f \in [D -> V] /\ \A i \in D : f[i] = G[<<i, [k \in DOMAIN kids[i] |-> f[kids[i][k]]]>>]
  BY <1>5 DEF IsTreeRecursion
<1>7. ASSUME NEW r, NEW i \in D
      PROVE  Joined(Args(r, i), h[i]) = Body(r)[i]
  <2>1. PICK n, s : n \in Nat /\ s = h[i].kids /\ DOMAIN s = 1..n
    BY KidsOf
  <2>2. PICK a : a = Args(r, i)
    OBVIOUS
  <2>3. a = [k \in 1..n |-> r[s[k]]]
    BY <2>1, <2>2
  <2>4. \A k \in 0..n : [j \in 1..k |-> a[j]] = [j \in 1..k |-> r[s[j]]]
    <3> TAKE k \in 0..n
    <3>1. \A j \in 1..k : a[j] = r[s[j]]
      BY <2>1, <2>3
    <3> QED
      BY <3>1
  <2> DEFINE before(k) == Len(FlattenSeq([j \in 1..k |-> a[j]]))
  <2>5. \A k \in 0..n : before(k) = Past(r, i, k)
    BY <2>1, <2>4, Zenon
  <2> HIDE DEF before, Past
  <2>6. \A k \in 1..n : k \in 0..n /\ k - 1 \in 0..n /\ a[k] = r[h[i].kids[k]]
    BY <2>1, <2>3
  <2>7. [k \in DOMAIN h[i].kids |-> Moved(a[k], before(k - 1))]
          = [k \in DOMAIN h[i].kids |-> Moved(r[h[i].kids[k]], Past(r, i, k - 1))]
    BY <2>1, <2>5, <2>6
  <2>8. [k \in DOMAIN h[i].kids |-> before(k)] = [k \in DOMAIN h[i].kids |-> Past(r, i, k)]
    BY <2>1, <2>5, <2>6
  <2>9. [h[i] EXCEPT !.kids = [k \in DOMAIN @ |-> before(k)]]
          = [h[i] EXCEPT !.kids = [k \in DOMAIN @ |-> Past(r, i, k)]]
    BY <2>8
  <2>10. Joined(a, h[i]) =
           FlattenSeq([k \in DOMAIN h[i].kids |-> Moved(a[k], before(k - 1))])
             \o <<[h[i] EXCEPT !.kids = [k \in DOMAIN @ |-> before(k)]]>>
    BY Zenon DEF Joined, before
  <2>11. Body(r)[i] =
           FlattenSeq([k \in DOMAIN h[i].kids |-> Moved(r[h[i].kids[k]], Past(r, i, k - 1))])
             \o <<[h[i] EXCEPT !.kids = [k \in DOMAIN @ |-> Past(r, i, k)]]>>
    <3> HIDE DEF D
    <3> QED
      OBVIOUS
  <2> HIDE DEF Body
  <2> QED
    BY <2>2, <2>7, <2>9, <2>10, <2>11, Zenon
<1> HIDE DEF Past
<1>8. ASSUME NEW i \in D
      PROVE  f[i] = Joined(Args(f, i), h[i])
  <2>1. kids[i] = h[i].kids
    OBVIOUS
  <2>2. Args(f, i) \in Seq(V) /\ Len(Args(f, i)) = Len(h[i].kids)
    <3>1. PICK n, s : n \in Nat /\ s = h[i].kids /\ DOMAIN s = 1..n /\ Len(s) = n /\ \A k \in 1..n : s[k] \in D
      BY KidsOf
    <3>2. [k \in 1..n |-> f[s[k]]] \in Seq(V) /\ Len([k \in 1..n |-> f[s[k]]]) = n
      <4>1. \A k \in 1..n : f[s[k]] \in V
        BY <1>6, <3>1
      <4> HIDE DEF V
      <4> QED
        BY <3>1, <4>1
    <3> QED
      BY <3>1, <3>2
  <2>3. f[i] = G[<<i, Args(f, i)>>]
    BY <1>6, <2>1
  <2> HIDE DEF Args, V
  <2> QED
    BY <1>4, <2>2, <2>3
<1>9. f = Body(f)
  <2>1. f = [i \in D |-> f[i]]
    BY <1>6
  <2>2. \A i \in D : f[i] = Body(f)[i]
    BY <1>7, <1>8, Zenon
  <2>3. Body(f) = [i \in D |-> Body(f)[i]]
    <3> HIDE DEF D
    <3> QED
      OBVIOUS
  <2> HIDE DEF Body, D
  <2>4. [i \in D |-> f[i]] = [i \in D |-> Body(f)[i]]
    BY <2>2
  <2> QED
    BY <2>1, <2>3, <2>4, Zenon
<1>10. copy = Body(copy)
  <2> HIDE DEF Body
  <2> QED
    BY <1>9, Zenon
<1>11. \A i : CopyOf(h, i) = copy[i]
  BY Zenon DEF CopyOf, Past
<1> HIDE DEF copy
<1>12. \A i \in D : copy[i] = Joined(Args(copy, i), h[i])
  <2>1. PICK r : r = copy /\ r = Body(r)
    BY <1>10
  <2> HIDE DEF Body
  <2>2. \A i \in D : r[i] = Joined(Args(r, i), h[i])
    BY <1>7, <2>1
  <2> QED
    BY <2>1, <2>2
<1>13. \A i \in D : copy[i] = f[i]
  <2> DEFINE S == {i \in D : copy[i] = f[i]}
  <2>1. ASSUME NEW i \in D, ToSet(h[i].kids) \subseteq S
        PROVE  i \in S
    <3>1. \A k \in DOMAIN h[i].kids : copy[h[i].kids[k]] = f[h[i].kids[k]]
      BY <2>1, KidsOf
    <3>2. Args(copy, i) = Args(f, i)
      BY <3>1
    <3>3. copy[i] = f[i]
      BY <1>8, <1>12, <3>2
    <3> QED
      BY <3>3
  <2>2. D \subseteq S
    <3> HIDE DEF S
    <3> QED
      BY <2>1, TreeInduction
  <2> QED
    BY <2>2
<1>14. \A i \in D : Sound(copy[i])
  BY <1>6, <1>13 DEF Sound
<1>15. \A i \in D : CopyOf(h, i) = Joined([k \in DOMAIN h[i].kids |-> CopyOf(h, h[i].kids[k])], h[i])
  BY <1>11, <1>12
<1> QED
  BY <1>11, <1>14, <1>15

-------------------------------------------------------------------------------
(***************************************************************************)
(* Every element has one owner.                                            *)
(***************************************************************************)
\* D is split between L and the sets of the members of M.
Split(D, L, M, O) ==
    /\ D = L \cup UNION {O[m] : m \in M}
    /\ \A m \in M : /\ O[m] \cap L = {}
                    /\ \A n \in M \ {m} : O[m] \cap O[n] = {}

\* It is when one of them gives up its set for another one.
LEMMA SplitTaken ==
    ASSUME NEW D, NEW L, NEW M, NEW O, Split(D, L, M, O), NEW m \in M,
           NEW new, new \cap (D \ O[m]) = {}, NEW P, P[m] = new, \A n \in M \ {m} : P[n] = O[n]
    PROVE  Split((D \ O[m]) \cup new, L, M, P)
<1>1. \A i : i \in D <=> i \in L \/ \E n \in M : i \in O[n]
  BY DEF Split
<1>2. \A n \in M : /\ O[n] \cap L = {}
                   /\ \A o \in M \ {n} : O[n] \cap O[o] = {}
  BY DEF Split
<1>3. \A i : i \in D \ O[m] <=> i \in L \/ \E n \in M \ {m} : i \in O[n]
  BY <1>1, <1>2
<1>4. \A n \in M \ {m} : O[n] \subseteq D \ O[m] /\ L \subseteq D \ O[m]
  BY <1>3
<1>5. L \cap new = {}
  BY <1>3
<1>6. \A i : i \in (D \ O[m]) \cup new <=> i \in L \/ \E n \in M : i \in P[n]
  BY <1>3
<1>7. (D \ O[m]) \cup new = L \cup UNION {P[n] : n \in M}
  BY <1>6
<1>8. ASSUME NEW n \in M
      PROVE  P[n] \cap L = {} /\ \A o \in M \ {n} : P[n] \cap P[o] = {}
  <2>1. CASE n = m
    <3>1. \A o \in M \ {n} : P[o] = O[o] /\ P[o] \subseteq D \ O[m]
      BY <1>4, <2>1
    <3> QED
      BY <1>5, <2>1, <3>1
  <2>2. CASE n # m
    <3>1. P[n] = O[n] /\ P[n] \subseteq D \ O[m]
      BY <1>4, <2>2
    <3>2. ASSUME NEW o \in M \ {n}
          PROVE  P[n] \cap P[o] = {}
      <4>1. CASE o = m
        BY <3>1, <4>1
      <4>2. CASE o # m
        BY <1>2, <3>1, <4>2
      <4> QED
        BY <4>1, <4>2
    <3> QED
      BY <1>2, <3>1, <3>2
  <2> QED
    BY <2>1, <2>2
<1> QED
  BY <1>7, <1>8 DEF Split

\* And when something is left behind.
LEMMA SplitLeft ==
    ASSUME NEW D, NEW L, NEW M, NEW O, Split(D, L, M, O), NEW new, new \cap D = {}
    PROVE  Split(D \cup new, L \cup new, M, O)
<1>1. \A m \in M : O[m] \subseteq D
  BY DEF Split
<1> QED
  BY <1>1 DEF Split
-------------------------------------------------------------------------------
\* What the destructor of the tree of m frees.
Owned == [m \in Models |-> ToSet(Tree(m))]

TreeInv ==
    /\ Grounded(heap) /\ Within(heap)
    /\ root \in [Models -> DOMAIN heap \cup {Null, Absent}]
    /\ DOMAIN flat = Models
    /\ \A m \in Models : HasTree(m) => flat[m] \in {<<>>, FlatFrom(heap, root[m])}
    /\ \A i \in leaked : heap[i].kids = <<>>
    /\ OwnedOnce

\* The trees of the models in S are not touched by a step.
Kept(S) ==
    \A n \in S :
      /\ root'[n] = root[n]
      /\ HasTree(n)' = HasTree(n)
      /\ Tree(n)' = Tree(n)
      /\ HasTree(n) => FlatFrom(heap', root'[n]) = FlatFrom(heap, root[n])

\* What OwnedOnce says of Owned.
LEMMA OwnedIsSplit ==
    OwnedOnce <=> Split(DOMAIN heap, leaked, Models, Owned)
<1>1. \A m \in Models : Owned[m] = ToSet(Tree(m))
  BY DEF Owned
<1>2. {Owned[m] : m \in Models} = {ToSet(Tree(m)) : m \in Models}
  BY <1>1
<1> QED
  BY <1>1, <1>2 DEF OwnedOnce, Split

\* The elements of a model are on the heap, with their children.
LEMMA OwnedIsClosed ==
    ASSUME TreeInv, NEW m \in Models
    PROVE  /\ HasTree(m) => /\ root[m] \in DOMAIN heap /\ root[m] \in Owned[m]
                            /\ Owned[m] = InTree(heap, root[m])
                            /\ Tree(m) = Freed(heap, root[m])
           /\ ~HasTree(m) => Owned[m] = {}
           /\ Closed(heap, Owned[m])
<1>1. CASE HasTree(m)
  <2>1. root[m] \in DOMAIN heap
    BY <1>1 DEF TreeInv, HasTree
  <2>2. Owned[m] = InTree(heap, root[m]) /\ Tree(m) = Freed(heap, root[m])
    BY <1>1 DEF Owned, Tree, InTree
  <2>3. root[m] \in InTree(heap, root[m]) /\ Closed(heap, InTree(heap, root[m]))
    BY <2>1, TreeIsClosed DEF TreeInv
  <2> QED
    BY <1>1, <2>1, <2>2, <2>3
<1>2. CASE ~HasTree(m)
  <2>1. Owned[m] = {}
    BY <1>2 DEF Owned, Tree, ToSet
  <2> QED
    BY <1>2, <2>1 DEF Closed
<1> QED
  BY <1>1, <1>2

\* Models whose elements keep their children and their kind keep their trees.
LEMMA KeptIfAlike ==
    ASSUME TreeInv, Grounded(heap'), NEW S \in SUBSET Models,
           \A n \in S : /\ root'[n] = root[n]
                        /\ Owned[n] \subseteq DOMAIN heap'
                        /\ \A i \in Owned[n] : heap'[i].kids = heap[i].kids /\ heap'[i].op = heap[i].op
    PROVE  Kept(S)
<1> SUFFICES ASSUME NEW n \in S
             PROVE  /\ root'[n] = root[n]
                    /\ HasTree(n)' = HasTree(n)
                    /\ Tree(n)' = Tree(n)
                    /\ HasTree(n) => FlatFrom(heap', root'[n]) = FlatFrom(heap, root[n])
  BY DEF Kept
<1>1. root'[n] = root[n] /\ HasTree(n)' = HasTree(n) /\ n \in Models
  BY DEF HasTree
<1>2. CASE HasTree(n)
  <2>1. /\ root[n] \in Owned[n] /\ Closed(heap, Owned[n])
        /\ Grounded(heap)
    BY <1>1, <1>2, OwnedIsClosed DEF TreeInv
  <2>2. PICK h, g, T, at : h = heap /\ g = heap' /\ T = Owned[n] /\ at = root[n]
    OBVIOUS
  <2>3. Alike(h, g, T) /\ Grounded(h) /\ Grounded(g) /\ at \in T
    BY <2>1, <2>2 DEF Alike
  <2>4. Freed(g, at) = Freed(h, at) /\ FlatFrom(g, at) = FlatFrom(h, at)
    BY <2>3, TreeIsSame, FlatIsSame
  <2>5. Tree(n) = Freed(h, at)
    BY <1>2, <2>2 DEF Tree
  <2>6. Tree(n)' = Freed(g, at)
    BY <1>1, <1>2, <2>2 DEF Tree
  <2> QED
    BY <1>1, <2>2, <2>4, <2>5, <2>6
<1>3. CASE ~HasTree(n)
  BY <1>1, <1>3 DEF Tree
<1> QED
  BY <1>2, <1>3

\* The same after a step.
LEMMA OwnedIsSplitNext ==
    OwnedOnce' <=> Split(DOMAIN heap', leaked', Models, Owned')
<1>1. \A m \in Models : Owned'[m] = ToSet(Tree(m)')
  BY DEF Owned
<1>2. {Owned'[m] : m \in Models} = {ToSet(Tree(m)') : m \in Models}
  BY <1>1
<1> QED
  BY <1>1, <1>2 DEF OwnedOnce, Split

\* The heap without the tree of m: the trees of the others and what was left
\* behind are all there.
LEMMA DeletedIs ==
    ASSUME TreeInv, NEW m \in Models
    PROVE  /\ Grounded(Deleted(m)) /\ Within(Deleted(m))
           /\ DOMAIN Deleted(m) = DOMAIN heap \ Owned[m]
           /\ \A i \in DOMAIN heap \ Owned[m] : Deleted(m)[i] = heap[i]
           /\ \A n \in Models \ {m} : Owned[n] \subseteq DOMAIN heap \ Owned[m]
           /\ leaked \subseteq DOMAIN heap \ Owned[m]
           /\ Owned[m] \subseteq DOMAIN heap
<1>1. Split(DOMAIN heap, leaked, Models, Owned) /\ Grounded(heap) /\ Within(heap)
  BY OwnedIsSplit DEF TreeInv
<1>2. PICK g : g = Deleted(m)
  OBVIOUS
<1> DEFINE E == DOMAIN heap \ Owned[m]
<1>3. g = [i \in E |-> heap[i]]
  <2>1. CASE HasTree(m)
    <3>1. Owned[m] = ToSet(Freed(heap, root[m]))
      BY <2>1, OwnedIsClosed DEF InTree
    <3> QED
      BY <1>2, <2>1, <3>1 DEF Deleted, Without, HasTree
  <2>2. CASE ~HasTree(m)
    <3>1. E = DOMAIN heap
      BY <2>2, OwnedIsClosed
    <3>2. heap = [i \in DOMAIN heap |-> heap[i]]
      BY <1>1 DEF Grounded
    <3> QED
      BY <1>2, <2>2, <3>1, <3>2 DEF Deleted, HasTree
  <2> QED
    BY <2>1, <2>2
<1>4. /\ DOMAIN heap = leaked \cup UNION {Owned[n] : n \in Models}
      /\ \A n \in Models \ {m} : Owned[n] \cap Owned[m] = {}
      /\ Owned[m] \cap leaked = {}
  BY <1>1 DEF Split
<1>5. (\A n \in Models \ {m} : Owned[n] \subseteq E) /\ leaked \subseteq E /\ Owned[m] \subseteq DOMAIN heap
  BY <1>4
<1>6. ASSUME NEW i \in E
      PROVE  ToSet(heap[i].kids) \subseteq E
  <2>1. CASE i \in leaked
    <3>1. heap[i].kids = <<>>
      BY <2>1 DEF TreeInv
    <3> QED
      BY <3>1 DEF ToSet
  <2>2. CASE i \notin leaked
    <3>1. PICK n \in Models \ {m} : i \in Owned[n]
      BY <1>4, <2>2
    <3>2. ToSet(heap[i].kids) \subseteq Owned[n]
      BY <3>1, OwnedIsClosed DEF Closed
    <3> QED
      BY <1>5, <3>2
  <2> QED
    BY <2>1, <2>2
<1>7. Grounded(g) /\ Within(g)
  <2>1. DOMAIN g = E /\ \A i \in E : g[i] = heap[i]
    BY <1>3
  <2>2. /\ g \in [DOMAIN g -> Nodes] /\ DOMAIN g \in SUBSET (1..Places)
        /\ \E n \in Nat : DOMAIN g \in SUBSET (1..n)
    BY <1>1, <1>3, <2>1 DEF Grounded, Within
  <2>3. ASSUME NEW i \in E
        PROVE  /\ g[i].kids \in Seq(E)
               /\ \A k \in 1..Len(g[i].kids) : g[i].kids[k] < i
    <3>1. PICK kids, n : kids = heap[i].kids /\ n = Len(kids)
      OBVIOUS
    <3>2. n \in Nat /\ kids \in Seq(DOMAIN heap) /\ DOMAIN kids = 1..n /\ \A k \in 1..n : kids[k] < i
      <4>1. i \in DOMAIN heap
        OBVIOUS
      <4> QED
        BY <1>1, <3>1, <4>1, KidsOf
    <3>3. \A k \in 1..n : kids[k] \in E
      BY <1>6, <3>1, <3>2 DEF ToSet
    <3>4. kids = [k \in 1..n |-> kids[k]]
      BY <3>2
    <3> HIDE DEF E
    <3>5. [k \in 1..n |-> kids[k]] \in Seq(E)
      BY <3>2, <3>3
    <3> QED
      BY <2>1, <3>1, <3>2, <3>4, <3>5
  <2> HIDE DEF E
  <2> QED
    BY <2>1, <2>2, <2>3 DEF Grounded, Within
<1> QED
  BY <1>2, <1>3, <1>5, <1>7

\* The tree of m goes and another takes its place, new with its root at top,
\* or none; and something is left behind.
Turns(m, new, top, left) ==
    /\ Grounded(heap') /\ Within(heap')
    /\ DOMAIN heap' = (DOMAIN heap \ Owned[m]) \cup new \cup left
    /\ (new \cup left) \cap (DOMAIN heap \ Owned[m]) = {}
    /\ \A i \in DOMAIN heap \ Owned[m] : heap'[i] = heap[i]
    /\ \A i \in left : heap'[i].kids = <<>>
    /\ \/ left = {} /\ top \in new /\ InTree(heap', top) = new
       \/ new = {} /\ top \in {Null, Absent}
    /\ root' = [root EXCEPT ![m] = top]
    /\ flat' = [flat EXCEPT ![m] = <<>>]
    /\ leaked' = leaked \cup left

\* Such a step keeps the invariant.
LEMMA TurnsKeeps ==
    ASSUME TreeInv, NEW m \in Models, NEW new, NEW top, NEW left, Turns(m, new, top, left)
    PROVE  TreeInv'
<1> DEFINE E == DOMAIN heap \ Owned[m]
<1>1. /\ \A n \in Models \ {m} : Owned[n] \subseteq E
      /\ leaked \subseteq E
  BY DeletedIs
<1>2. /\ Grounded(heap') /\ Within(heap')
      /\ DOMAIN heap' = E \cup new \cup left
      /\ (new \cup left) \cap E = {}
      /\ \A i \in E : heap'[i] = heap[i]
      /\ \A i \in left : heap'[i].kids = <<>>
      /\ \/ left = {} /\ top \in new /\ InTree(heap', top) = new
         \/ new = {} /\ top \in {Null, Absent}
      /\ root' = [root EXCEPT ![m] = top]
      /\ flat' = [flat EXCEPT ![m] = <<>>]
      /\ leaked' = leaked \cup left
  BY DEF Turns
<1>3. /\ Grounded(heap)
      /\ root \in [Models -> DOMAIN heap \cup {Null, Absent}]
      /\ DOMAIN flat = Models
      /\ \A n \in Models : HasTree(n) => flat[n] \in {<<>>, FlatFrom(heap, root[n])}
      /\ \A i \in leaked : heap[i].kids = <<>>
      /\ Split(DOMAIN heap, leaked, Models, Owned)
  BY OwnedIsSplit DEF TreeInv
<1>4. Kept(Models \ {m})
  <2>1. \A n \in Models \ {m} :
          /\ root'[n] = root[n]
          /\ Owned[n] \subseteq DOMAIN heap'
          /\ \A i \in Owned[n] : heap'[i].kids = heap[i].kids /\ heap'[i].op = heap[i].op
    BY <1>1, <1>2, <1>3
  <2>2. Models \ {m} \in SUBSET Models
    OBVIOUS
  <2> QED
    BY <1>2, <2>1, <2>2, KeptIfAlike
<1>5. top \in DOMAIN heap' \cup {Null, Absent} /\ root'[m] = top
  BY <1>2, <1>3
<1>6. HasTree(m)' <=> top \in new
  <2>1. DOMAIN heap' \in SUBSET (1..Places)
    BY <1>2 DEF Within
  <2>2. top \in new => top \notin {Null, Absent}
    BY <1>2, <2>1, PlacesAssumption
  <2> QED
    BY <1>2, <1>5, <2>2 DEF HasTree
<1>7. Owned'[m] = new
  <2>1. Owned'[m] = ToSet(Tree(m)')
    BY DEF Owned
  <2>2. CASE top \in new
    <3>1. Tree(m)' = Freed(heap', top)
      BY <1>5, <1>6, <2>2 DEF Tree
    <3>2. InTree(heap', top) = new
      BY <1>2, <2>2
    <3> QED
      BY <2>1, <3>1, <3>2 DEF InTree
  <2>3. CASE top \notin new
    <3>1. Tree(m)' = <<>> /\ new = {}
      BY <1>2, <1>6, <2>3 DEF Tree
    <3> QED
      BY <2>1, <3>1 DEF ToSet
  <2> QED
    BY <2>2, <2>3
<1>8. \A n \in Models \ {m} : Owned'[n] = Owned[n]
  <2> TAKE n \in Models \ {m}
  <2>1. Tree(n)' = Tree(n)
    BY <1>4 DEF Kept
  <2> QED
    BY <2>1 DEF Owned
<1>9. OwnedOnce'
  <2>1. Split(E \cup new, leaked, Models, Owned')
    <3>1. PICK P, O, D, L, M : P = Owned' /\ O = Owned /\ D = DOMAIN heap /\ L = leaked /\ M = Models
      OBVIOUS
    <3>2. P[m] = new /\ (\A n \in M \ {m} : P[n] = O[n]) /\ m \in M
      BY <1>7, <1>8, <3>1
    <3>3. Split(D, L, M, O) /\ new \cap (D \ O[m]) = {} /\ E = D \ O[m]
      BY <1>2, <1>3, <3>1
    <3> HIDE DEF E
    <3>4. Split((D \ O[m]) \cup new, L, M, P)
      BY <3>2, <3>3, SplitTaken
    <3> QED
      BY <3>1, <3>3, <3>4
  <2>2. Split(E \cup new \cup left, leaked \cup left, Models, Owned')
    <3>1. CASE left = {}
      <4>1. E \cup new \cup left = E \cup new /\ leaked \cup left = leaked
        BY <3>1
      <4> QED
        BY <2>1, <4>1
    <3>2. CASE new = {}
      <4>1. left \cap (E \cup new) = {}
        BY <1>2, <3>2
      <4> QED
        BY <2>1, <4>1, SplitLeft
    <3> QED
      BY <1>2, <3>1, <3>2
  <2> HIDE DEF E
  <2>3. Split(DOMAIN heap', leaked', Models, Owned')
    BY <1>2, <2>2
  <2> QED
    BY <2>3, OwnedIsSplitNext
<1>10. root' \in [Models -> DOMAIN heap' \cup {Null, Absent}]
  <2>1. \A n \in Models \ {m} : root'[n] \in DOMAIN heap' \cup {Null, Absent}
    <3> TAKE n \in Models \ {m}
    <3>1. root'[n] = root[n] /\ root[n] \in DOMAIN heap \cup {Null, Absent}
      BY <1>2, <1>3
    <3>2. HasTree(n) => root[n] \in Owned[n]
      BY OwnedIsClosed
    <3> QED
      BY <1>1, <1>2, <3>1, <3>2 DEF HasTree
  <2> QED
    BY <1>2, <1>3, <1>5, <2>1
<1>11. \A n \in Models : HasTree(n)' => flat'[n] \in {<<>>, FlatFrom(heap', root'[n])}
  <2> SUFFICES ASSUME NEW n \in Models, HasTree(n)'
               PROVE  flat'[n] \in {<<>>, FlatFrom(heap', root'[n])}
    OBVIOUS
  <2>1. CASE n = m
    BY <1>2, <1>3, <2>1
  <2>2. CASE n # m
    <3>1. HasTree(n) /\ FlatFrom(heap', root'[n]) = FlatFrom(heap, root[n])
      BY <1>4, <2>2 DEF Kept
    <3>2. flat'[n] = flat[n]
      BY <1>2, <1>3, <2>2
    <3> QED
      BY <1>3, <3>1, <3>2
  <2> QED
    BY <2>1, <2>2
<1>12. \A i \in leaked' : heap'[i].kids = <<>>
  BY <1>1, <1>2, <1>3
<1> QED
  BY <1>2, <1>3, <1>9, <1>10, <1>11, <1>12 DEF TreeInv

\* A circuit of the application is a plan.
LEMMA PlanIsSound ==
    ASSUME NEW plan \in Plans
    PROVE  Sound(plan)
<1>1. /\ plan \in Seq({plan[i] : i \in DOMAIN plan}) /\ plan # <<>>
      /\ \A i \in DOMAIN plan : /\ plan[i] = Node(plan[i].op, plan[i].kids)
                                /\ plan[i].kids \in Seq(1..(i - 1))
                                /\ IsLeaf(plan[i]) => plan[i].kids = <<>>
      /\ \A i \in 1..(Len(plan) - 1) : \E j \in DOMAIN plan : i \in ToSet(plan[j].kids)
  BY PlansAssumption
<1>2. Len(plan) \in Nat /\ DOMAIN plan = 1..Len(plan) /\ Len(plan) # 0
  <2> DEFINE V == {plan[i] : i \in DOMAIN plan}
  <2>1. plan \in Seq(V) /\ plan # <<>>
    BY <1>1
  <2> HIDE DEF V
  <2> QED
    BY <2>1
<1>3. ASSUME NEW i \in 1..Len(plan)
      PROVE  plan[i] \in Nodes
  <2>1. PICK op, kids : op = plan[i].op /\ kids = plan[i].kids
    OBVIOUS
  <2>2. plan[i] = [op |-> op, kids |-> kids, step |-> 0] /\ kids \in Seq(1..(i - 1))
    BY <1>1, <1>2, <2>1 DEF Node
  <2>3. op \in Ops
    BY <1>2, <2>1 DEF Ops
  <2>4. kids \in Seq(Nat)
    <3>1. \A j \in 1..Len(kids) : kids[j] \in Nat
      BY <2>2
    <3>2. Len(kids) \in Nat /\ kids = [j \in 1..Len(kids) |-> kids[j]]
      BY <2>2
    <3> QED
      BY <3>1, <3>2
  <2>5. 0 \in Steps
    BY PlacesAssumption
  <2>6. IsLeaf(plan[i]) => kids = <<>>
    BY <1>1, <1>2, <2>1
  <2> QED
    BY <2>1, <2>2, <2>3, <2>4, <2>5, <2>6 DEF Nodes
<1>4. plan \in Seq(Nodes)
  <2>1. plan = [i \in 1..Len(plan) |-> plan[i]]
    <3> DEFINE V == {plan[i] : i \in DOMAIN plan}
    <3>1. plan \in Seq(V)
      BY <1>1
    <3> HIDE DEF V
    <3> QED
      BY <3>1
  <2> QED
    BY <1>2, <1>3, <2>1
<1> QED
  BY <1>1, <1>2, <1>3, <1>4 DEF Sound, Sown, Rooted

\* The tree of m, if it has one, makes room for that of a plan.
LEMMA PutTurns ==
    ASSUME TreeInv, NEW m \in Models, NEW plan, Sown(plan), Rooted(plan),
           Fits(Deleted(m), Len(plan)),
           heap' = Placed(Deleted(m), plan),
           root' = [root EXCEPT ![m] = Last(Room(Deleted(m), Len(plan)))],
           flat' = [flat EXCEPT ![m] = <<>>],
           leaked' = leaked
    PROVE  LET r == Room(Deleted(m), Len(plan))
           IN  Turns(m, ToSet(r), Last(r), {}) /\ Mirrors(plan, heap', r)
<1>1. PICK h, g, new, top : /\ h = Deleted(m) /\ g = Placed(h, plan)
                            /\ new = ToSet(Room(h, Len(plan))) /\ top = Last(Room(h, Len(plan)))
  OBVIOUS
<1>2. Grounded(h) /\ Within(h) /\ DOMAIN h = DOMAIN heap \ Owned[m] /\ \A i \in DOMAIN h : h[i] = heap[i]
  BY <1>1, DeletedIs
<1>3. PutAs(h, plan, g, new, top) /\ Mirrors(plan, g, Room(h, Len(plan)))
  BY <1>1, <1>2, PlacedIsPut
<1>4. heap' = g /\ root' = [root EXCEPT ![m] = top]
  BY <1>1
<1>5. /\ Grounded(g) /\ Within(g) /\ DOMAIN g = DOMAIN h \cup new /\ new \cap DOMAIN h = {}
      /\ \A i \in DOMAIN h : g[i] = h[i]
      /\ top \in new /\ InTree(g, top) = new
  BY <1>3 DEF PutAs
<1>6. /\ new \cup {} = new /\ (DOMAIN h \cup new) \cup {} = DOMAIN h \cup new
      /\ leaked' = leaked \cup {} /\ flat' = [flat EXCEPT ![m] = <<>>]
  OBVIOUS
<1>7. Turns(m, new, top, {})
  <2> DEFINE E == DOMAIN heap \ Owned[m]
  <2>1. DOMAIN h = E
    BY <1>2
  <2>2. Grounded(heap') /\ Within(heap') /\ DOMAIN heap' = E \cup new \cup {}
    BY <1>4, <1>5, <1>6, <2>1
  <2>3. (new \cup {}) \cap E = {} /\ \A i \in E : heap'[i] = heap[i]
    BY <1>2, <1>4, <1>5, <1>6, <2>1
  <2>4. top \in new /\ InTree(heap', top) = new
    BY <1>4, <1>5
  <2> QED
    BY <1>4, <1>6, <2>2, <2>3, <2>4 DEF Turns
<1> QED
  BY <1>1, <1>3, <1>4, <1>7

\* What constructors leave behind that do not finish.
LEMMA LeftIsBare ==
    ASSUME NEW n \in Nat
    PROVE  LET plan == [k \in 1..n |-> Node("r", <<>>)]
           IN  Sown(plan) /\ Bare(plan) /\ Len(plan) = n
<1> DEFINE plan == [k \in 1..n |-> Node("r", <<>>)]
<1>1. Len(plan) = n /\ DOMAIN plan = 1..n
  OBVIOUS
<1>2. \A k \in 1..n : plan[k] = [op |-> "r", kids |-> <<>>, step |-> 0]
  BY DEF Node
<1>3. [op |-> "r", kids |-> <<>>, step |-> 0] \in Nodes
  <2>1. "r" \in Ops /\ 0 \in Steps
    BY PlacesAssumption DEF Ops
  <2>2. <<>> \in Seq(Nat)
    OBVIOUS
  <2> QED
    BY <2>1, <2>2 DEF Nodes
<1>4. \A k : <<>> \in Seq(1..(k - 1))
  OBVIOUS
<1> HIDE DEF plan
<1>5. \A k \in 1..n : plan[k] \in Nodes /\ plan[k].kids = <<>>
  BY <1>2, <1>3
<1>6. Sown(plan) /\ Bare(plan) /\ Len(plan) = n
  BY <1>1, <1>4, <1>5 DEF Sown, Bare
<1> QED
  BY <1>6 DEF plan

\* A model without a circuit has no elements.
LEMMA NothingOwned ==
    ASSUME TreeInv, NEW m \in Models, root[m] \in {Null, Absent}
    PROVE  Deleted(m) = heap /\ Owned[m] = {}
<1>1. ~HasTree(m)
  BY DEF HasTree
<1> QED
  BY <1>1, OwnedIsClosed DEF Deleted

\* Each constructor keeps the invariant.
LEMMA ConstructKeeps ==
    ASSUME TreeInv, NEW m \in Models, NEW plan \in Plans, Construct(m, plan)
    PROVE  TreeInv'
<1>1. Deleted(m) = heap
  BY NothingOwned DEF Construct
<1>2. Sown(plan) /\ Rooted(plan)
  BY PlanIsSound DEF Sound
<1> QED
  BY <1>1, <1>2, PutTurns, TurnsKeeps DEF Construct

\* The one that returns a null pointer leaves its elements behind.
LEMMA ConstructNullKeeps ==
    ASSUME TreeInv, NEW m \in Models, NEW left \in Nat, ConstructNull(m, left)
    PROVE  TreeInv' /\ \E r : Turns(m, {}, Null, r)
<1> DEFINE plan == [k \in 1..left |-> Node("r", <<>>)]
<1>1. /\ root[m] = Absent /\ Fits(heap, left)
      /\ heap' = Placed(heap, plan)
      /\ leaked' = leaked \cup ToSet(Room(heap, left))
      /\ root' = [root EXCEPT ![m] = Null]
      /\ flat' = [flat EXCEPT ![m] = <<>>]
  BY DEF ConstructNull
<1>2. Sown(plan) /\ Bare(plan) /\ Len(plan) = left
  BY LeftIsBare
<1> HIDE DEF plan
<1>3. Owned[m] = {} /\ Grounded(heap) /\ Within(heap)
  BY <1>1, NothingOwned DEF TreeInv
<1>4. PICK h, g, r, top : /\ h = heap /\ g = Placed(h, plan)
                          /\ r = ToSet(Room(h, Len(plan))) /\ top = Last(Room(h, Len(plan)))
  OBVIOUS
<1>5. PutAs(h, plan, g, r, top)
  BY <1>1, <1>2, <1>3, <1>4, PlacedIsPut
<1>6. heap' = g /\ leaked' = leaked \cup r
  BY <1>1, <1>2, <1>4
<1>7. DOMAIN heap \ Owned[m] = DOMAIN h
  BY <1>3, <1>4
<1>8. /\ Grounded(heap') /\ Within(heap')
      /\ DOMAIN heap' = DOMAIN h \cup {} \cup r
      /\ ({} \cup r) \cap DOMAIN h = {}
      /\ \A i \in DOMAIN h : heap'[i] = heap[i]
      /\ \A i \in r : heap'[i].kids = <<>>
  BY <1>2, <1>4, <1>5, <1>6 DEF PutAs
<1>9. Turns(m, {}, Null, r)
  BY <1>1, <1>6, <1>7, <1>8 DEF Turns
<1> QED
  BY <1>9, TurnsKeeps

\* So does the one that throws, and what is on the heap stays.
LEMMA ConstructThrowsKeeps ==
    ASSUME TreeInv, NEW left \in Nat, ConstructThrows(left)
    PROVE  TreeInv' /\ \A i \in DOMAIN heap : i \in DOMAIN heap' /\ heap'[i] = heap[i]
<1> DEFINE plan == [k \in 1..left |-> Node("r", <<>>)]
<1>1. /\ Fits(heap, left)
      /\ heap' = Placed(heap, plan)
      /\ leaked' = leaked \cup ToSet(Room(heap, left))
      /\ root' = root /\ flat' = flat
  BY DEF ConstructThrows
<1>2. Sown(plan) /\ Bare(plan) /\ Len(plan) = left
  BY LeftIsBare
<1> HIDE DEF plan
<1>3. /\ Grounded(heap) /\ Within(heap) /\ Split(DOMAIN heap, leaked, Models, Owned)
      /\ root \in [Models -> DOMAIN heap \cup {Null, Absent}] /\ DOMAIN flat = Models
      /\ \A m \in Models : HasTree(m) => flat[m] \in {<<>>, FlatFrom(heap, root[m])}
      /\ \A i \in leaked : heap[i].kids = <<>>
  BY OwnedIsSplit DEF TreeInv
<1>4. PICK h, g, r, top : /\ h = heap /\ g = Placed(h, plan)
                          /\ r = ToSet(Room(h, Len(plan))) /\ top = Last(Room(h, Len(plan)))
  OBVIOUS
<1>5. PutAs(h, plan, g, r, top)
  BY <1>1, <1>2, <1>3, <1>4, PlacedIsPut
<1>6. heap' = g /\ leaked' = leaked \cup r
  BY <1>1, <1>2, <1>4
<1>7. /\ Grounded(heap') /\ Within(heap')
      /\ DOMAIN heap' = DOMAIN heap \cup r /\ r \cap DOMAIN heap = {}
      /\ \A i \in DOMAIN heap : heap'[i] = heap[i]
      /\ \A i \in r : heap'[i].kids = <<>>
  BY <1>2, <1>4, <1>5, <1>6 DEF PutAs
<1>8. Kept(Models)
  <2>1. \A m \in Models : Owned[m] \subseteq DOMAIN heap
    BY DeletedIs
  <2>2. Models \in SUBSET Models
    OBVIOUS
  <2> QED
    BY <1>1, <1>7, <2>1, <2>2, KeptIfAlike
<1>9. OwnedOnce'
  <2>1. \A m \in Models : Owned'[m] = Owned[m]
    BY <1>8 DEF Kept, Owned
  <2>2. Owned' = Owned
    BY <2>1 DEF Owned
  <2>3. Split(DOMAIN heap \cup r, leaked \cup r, Models, Owned)
    BY <1>3, <1>7, SplitLeft
  <2>4. Split(DOMAIN heap', leaked', Models, Owned')
    BY <1>6, <1>7, <2>2, <2>3
  <2> QED
    BY <2>4, OwnedIsSplitNext
<1>10. \A i \in leaked' : heap'[i].kids = <<>>
  <2>1. leaked \subseteq DOMAIN heap
    BY <1>3 DEF Split
  <2> QED
    BY <1>3, <1>6, <1>7, <2>1
<1>11. \A m \in Models : HasTree(m)' => flat'[m] \in {<<>>, FlatFrom(heap', root'[m])}
  BY <1>1, <1>3, <1>8 DEF Kept
<1> QED
  BY <1>1, <1>3, <1>7, <1>9, <1>10, <1>11 DEF TreeInv

\* So does an assignment.
LEMMA AssignKeeps ==
    ASSUME TreeInv, NEW m \in Models, NEW n \in Models, Assign(m, n)
    PROVE  TreeInv'
<1>1. PICK plan : plan = CopyOf(heap, root[n])
  OBVIOUS
<1>2. /\ root[n] \notin {Null, Absent}
      /\ Fits(Deleted(m), Len(plan))
      /\ heap' = Placed(Deleted(m), plan)
      /\ root' = [root EXCEPT ![m] = Last(Room(Deleted(m), Len(plan)))]
      /\ flat' = [flat EXCEPT ![m] = <<>>]
      /\ leaked' = leaked
  BY <1>1 DEF Assign
<1>3. Sound(plan)
  <2>1. root[n] \in DOMAIN heap /\ Grounded(heap)
    BY <1>2 DEF TreeInv
  <2> QED
    BY <1>1, <2>1, CopyIsSound
<1> QED
  BY <1>2, <1>3, PutTurns, TurnsKeeps DEF Sound

\* And the destructor.
LEMMA DestroyKeeps ==
    ASSUME TreeInv, NEW m \in Models, Destroy(m)
    PROVE  TreeInv' /\ Turns(m, {}, Absent, {})
<1>1. /\ heap' = Deleted(m)
      /\ root' = [root EXCEPT ![m] = Absent]
      /\ flat' = [flat EXCEPT ![m] = <<>>]
      /\ leaked' = leaked
  BY DEF Destroy
<1>2. Turns(m, {}, Absent, {})
  BY <1>1, DeletedIs DEF Turns
<1> QED
  BY <1>2, TurnsKeeps

\* The list of leaves a model has is that of its tree.
LEMMA FlatOfIs ==
    ASSUME TreeInv, NEW m \in Models, HasTree(m)
    PROVE  /\ FlatOf(m) = FlatFrom(heap, root[m])
           /\ FlatOf(m) \in Seq(DOMAIN heap)
           /\ \A k \in DOMAIN FlatOf(m) :
                /\ FlatOf(m)[k] \in DOMAIN heap /\ FlatOf(m)[k] \in Owned[m]
                /\ IsLeaf(heap[FlatOf(m)[k]])
<1>1. FlatOf(m) = FlatFrom(heap, root[m])
  BY DEF TreeInv, FlatOf
<1>2. root[m] \in DOMAIN heap /\ Grounded(heap) /\ Owned[m] = InTree(heap, root[m])
  BY OwnedIsClosed DEF TreeInv
<1>3. /\ FlatFrom(heap, root[m]) \in Seq(DOMAIN heap)
      /\ \A i \in ToSet(FlatFrom(heap, root[m])) : i \in InTree(heap, root[m]) /\ IsLeaf(heap[i])
  BY <1>2, FlatAreLeaves
<1>4. PICK s, D : s = FlatFrom(heap, root[m]) /\ D = DOMAIN heap
  OBVIOUS
<1>5. \A k \in DOMAIN s : s[k] \in ToSet(s) /\ s[k] \in D
  BY <1>3, <1>4 DEF ToSet
<1> QED
  BY <1>1, <1>2, <1>3, <1>4, <1>5

\* A step of an element is its own: the trees stay.
LEMMA SetStepKeeps ==
    ASSUME TreeInv, NEW m \in Models, NEW k, NEW step \in Steps, SetStep(m, k, step)
    PROVE  TreeInv'
<1>1. PICK at : at = FlatOf(m)[k]
  OBVIOUS
<1>2. /\ HasTree(m)
      /\ flat' = [flat EXCEPT ![m] = FlatOf(m)]
      /\ k \in DOMAIN FlatOf(m)
      /\ heap' = [heap EXCEPT ![at].step = step]
      /\ root' = root /\ leaked' = leaked
  BY <1>1 DEF SetStep, HasTree
<1>3. at \in DOMAIN heap
  BY <1>1, <1>2, FlatOfIs
<1>4. /\ Grounded(heap) /\ Within(heap) /\ Split(DOMAIN heap, leaked, Models, Owned)
      /\ root \in [Models -> DOMAIN heap \cup {Null, Absent}] /\ DOMAIN flat = Models
      /\ \A n \in Models : HasTree(n) => flat[n] \in {<<>>, FlatFrom(heap, root[n])}
      /\ \A i \in leaked : heap[i].kids = <<>>
      /\ leaked \subseteq DOMAIN heap
  BY OwnedIsSplit DEF TreeInv, Split
<1>5. /\ DOMAIN heap' = DOMAIN heap
      /\ \A i \in DOMAIN heap : heap'[i] = IF i = at THEN [heap[i] EXCEPT !.step = step] ELSE heap[i]
  BY <1>2
<1>6. \A i \in DOMAIN heap : /\ heap'[i] \in Nodes /\ heap'[i].kids = heap[i].kids
                             /\ heap'[i].op = heap[i].op
  <2> TAKE i \in DOMAIN heap
  <2>1. heap[i] \in Nodes
    BY <1>4 DEF Grounded
  <2>2. /\ [heap[i] EXCEPT !.step = step] \in Nodes
        /\ [heap[i] EXCEPT !.step = step].kids = heap[i].kids
        /\ [heap[i] EXCEPT !.step = step].op = heap[i].op
    BY <2>1 DEF Nodes, IsLeaf
  <2> QED
    BY <1>5, <2>1, <2>2
<1>7. Grounded(heap') /\ Within(heap')
  <2>1. heap' = [i \in DOMAIN heap |-> heap'[i]]
    BY <1>2
  <2> QED
    BY <1>4, <1>5, <1>6, <2>1 DEF Grounded, Within
<1>8. Kept(Models)
  <2>1. \A n \in Models : Owned[n] \subseteq DOMAIN heap
    BY DeletedIs
  <2>2. Models \in SUBSET Models
    OBVIOUS
  <2> QED
    BY <1>2, <1>5, <1>6, <1>7, <2>1, <2>2, KeptIfAlike
<1>9. OwnedOnce'
  <2>1. \A n \in Models : Owned'[n] = Owned[n]
    BY <1>8 DEF Kept, Owned
  <2>2. Owned' = Owned
    BY <2>1 DEF Owned
  <2>3. Split(DOMAIN heap', leaked', Models, Owned')
    BY <1>2, <1>4, <1>5, <2>2
  <2> QED
    BY <2>3, OwnedIsSplitNext
<1>10. \A n \in Models : HasTree(n)' => flat'[n] \in {<<>>, FlatFrom(heap', root'[n])}
  <2> SUFFICES ASSUME NEW n \in Models, HasTree(n)'
               PROVE  flat'[n] \in {<<>>, FlatFrom(heap', root'[n])}
    OBVIOUS
  <2>1. HasTree(n) /\ FlatFrom(heap', root'[n]) = FlatFrom(heap, root[n])
    BY <1>8 DEF Kept
  <2>2. CASE n = m
    BY <1>2, <1>4, <2>1, <2>2, FlatOfIs
  <2>3. CASE n # m
    BY <1>2, <1>4, <2>1, <2>3
  <2> QED
    BY <2>2, <2>3
<1> QED
  BY <1>2, <1>4, <1>5, <1>6, <1>7, <1>9, <1>10 DEF TreeInv

-------------------------------------------------------------------------------
\* In the first state there is nothing.
LEMMA InitEstablishes ==
    Init => TreeInv
<1> SUFFICES ASSUME Init
             PROVE  TreeInv
  OBVIOUS
<1>1. heap = <<>> /\ root = [m \in Models |-> Absent] /\ flat = [m \in Models |-> <<>>] /\ leaked = {}
  BY DEF Init
<1>2. DOMAIN heap = {}
  BY <1>1
<1>3. \A m \in Models : ~HasTree(m)
  BY <1>1 DEF HasTree
<1>4. Grounded(heap) /\ Within(heap)
  <2>1. heap \in [DOMAIN heap -> Nodes]
    BY <1>1, <1>2
  <2> QED
    BY <1>2, <2>1 DEF Grounded, Within
<1>5. OwnedOnce
  <2>1. \A m \in Models : ToSet(Tree(m)) = {}
    BY <1>3 DEF Tree, ToSet
  <2> QED
    BY <1>1, <1>2, <2>1 DEF OwnedOnce
<1> QED
  BY <1>1, <1>3, <1>4, <1>5 DEF TreeInv

\* Every step keeps it.
LEMMA NextKeeps ==
    TreeInv /\ [Next]_vars => TreeInv'
<1> SUFFICES ASSUME TreeInv, [Next]_vars
             PROVE  TreeInv'
  OBVIOUS
<1>1. CASE UNCHANGED <<heap, root, flat, leaked>>
  <2>1. \A m \in Models : HasTree(m)' = HasTree(m) /\ Tree(m)' = Tree(m)
    BY <1>1 DEF HasTree, Tree
  <2>2. OwnedOnce'
    BY <1>1, <2>1 DEF OwnedOnce, TreeInv
  <2> QED
    BY <1>1, <2>1, <2>2 DEF TreeInv
<1>2. CASE UNCHANGED vars
  BY <1>1, <1>2 DEF vars
<1>3. ASSUME NEW m \in Models, NEW plan \in Plans, Construct(m, plan)
      PROVE  TreeInv'
  BY <1>3, ConstructKeeps
<1>4. ASSUME NEW m \in Models, NEW left \in 0..MaxLeaked, ConstructNull(m, left)
      PROVE  TreeInv'
  BY <1>4, ConstructNullKeeps, PlacesAssumption
<1>5. ASSUME NEW left \in 1..MaxLeaked, ConstructThrows(left)
      PROVE  TreeInv'
  BY <1>5, ConstructThrowsKeeps, PlacesAssumption
<1>6. ASSUME NEW m \in Models, NEW n \in Models, Assign(m, n)
      PROVE  TreeInv'
  BY <1>6, AssignKeeps
<1>7. ASSUME NEW m \in Models, NEW n \in Models, AssignNull(m, n)
      PROVE  TreeInv'
  BY <1>1, <1>7 DEF AssignNull, DiesOf
<1>8. ASSUME NEW m \in Models, AssignSelf(m)
      PROVE  TreeInv'
  BY <1>1, <1>8 DEF AssignSelf, DiesOf
<1>9. ASSUME NEW m \in Models, DeleteTwice(m)
      PROVE  TreeInv'
  BY <1>1, <1>9 DEF DeleteTwice, DiesOf
<1>10. ASSUME NEW m \in Models, Destroy(m)
       PROVE  TreeInv'
  BY <1>10, DestroyKeeps
<1>11. ASSUME NEW m \in Models, NEW k \in 1..Places, NEW step \in Steps, SetStep(m, k, step)
       PROVE  TreeInv'
  BY <1>11, SetStepKeeps
<1>12. ASSUME NEW m \in Models, UseNull(m)
       PROVE  TreeInv'
  BY <1>1, <1>12 DEF UseNull, DiesOf
<1> QED
  BY <1>2, <1>3, <1>4, <1>5, <1>6, <1>7, <1>8, <1>9, <1>10, <1>11, <1>12 DEF Next

\* Trees are put on the heap, copied and freed as wholes, whatever the
\* application does with its models.
THEOREM TreesStayWhole == Spec => []TreeInv
<1>1. Init => TreeInv
  BY InitEstablishes
<1>2. TreeInv /\ [Next]_vars => TreeInv'
  BY NextKeeps
<1> QED
  BY <1>1, <1>2, PTL DEF Spec

\* No element has two owners among the models, and none is lost but those the
\* constructors left behind.
THEOREM EveryElementIsOwnedOnce == Spec => []OwnedOnce
<1>1. TreeInv => OwnedOnce
  BY DEF TreeInv
<1> QED
  BY <1>1, TreesStayWhole, PTL

\* In every class the names that getCode appends are as many as the ranges, and
\* so are those of getTorchScript, but in the transmission lines.
LEMMA ElementsAgree ==
    \A op \in DOMAIN Elements :
      /\ Elements[op].code = Elements[op].ranges
      /\ op \notin {"t", "o"} => Elements[op].script = Elements[op].ranges
  BY DEF Elements, Element, Resistor, Cap, Inductor, Cpe, Warburg,
         TransmissionLineClosed, TransmissionLineOpen

\* What the generated code takes is what execute passes to it.
LEMMA CodeIsFlat ==
    ASSUME TreeInv, NEW m \in Models, HasTree(m)
    PROVE  /\ CodeParameters(m) = FlatParameters(m)
           /\ (\A i \in ToSet(Tree(m)) : heap[i].op \notin {"t", "o"})
                => ScriptParameters(m) = FlatParameters(m)
<1> DEFINE leaves == FlatOf(m)
           element(at) == Elements[heap[at].op]
           ranges(at) == [k \in 1..element(at).ranges |-> <<at, k - 1>>]
           code(at) == [k \in 1..element(at).code |-> <<at, k - 1>>]
           script(at) == [k \in 1..element(at).script |-> <<at, k - 1>>]
<1>1. FlatParameters(m) = FlattenSeq([k \in DOMAIN leaves |-> ranges(leaves[k])])
  BY Zenon DEF FlatParameters
<1>2. FlatFrom(heap, root[m]) = leaves
  BY FlatOfIs
<1>3. CodeParameters(m) = FlattenSeq([k \in DOMAIN leaves |-> code(leaves[k])])
  BY <1>2, Zenon DEF CodeParameters, Listed
<1>4. ScriptParameters(m) = FlattenSeq([k \in DOMAIN leaves |-> script(leaves[k])])
  BY <1>2, Zenon DEF ScriptParameters, Listed
<1>5. \A k \in DOMAIN leaves : IsLeaf(heap[leaves[k]]) /\ leaves[k] \in ToSet(Tree(m))
  BY FlatOfIs DEF Owned
<1> HIDE DEF leaves
<1>6. \A k \in DOMAIN leaves : element(leaves[k]).code = element(leaves[k]).ranges
  BY <1>5, ElementsAgree DEF IsLeaf
<1>7. \A k \in DOMAIN leaves : code(leaves[k]) = ranges(leaves[k])
  BY <1>6
<1>8. CodeParameters(m) = FlatParameters(m)
  <2> HIDE DEF code, ranges
  <2>1. [k \in DOMAIN leaves |-> code(leaves[k])] = [k \in DOMAIN leaves |-> ranges(leaves[k])]
    BY <1>7
  <2> QED
    BY <1>1, <1>3, <2>1
<1>9. ASSUME \A i \in ToSet(Tree(m)) : heap[i].op \notin {"t", "o"}
      PROVE  ScriptParameters(m) = FlatParameters(m)
  <2>1. \A k \in DOMAIN leaves : element(leaves[k]).script = element(leaves[k]).ranges
    BY <1>5, <1>9, ElementsAgree DEF IsLeaf
  <2>2. \A k \in DOMAIN leaves : script(leaves[k]) = ranges(leaves[k])
    BY <2>1
  <2> HIDE DEF script, ranges
  <2>3. [k \in DOMAIN leaves |-> script(leaves[k])] = [k \in DOMAIN leaves |-> ranges(leaves[k])]
    BY <2>2
  <2> QED
    BY <1>1, <1>4, <2>3
<1> QED
  BY <1>8, <1>9

\* For every application.
THEOREM CodeTakesWhatExecutePasses == Spec => []CodeTakesFlatParameters
<1>1. TreeInv => CodeTakesFlatParameters
  BY CodeIsFlat DEF CodeTakesFlatParameters
<1> QED
  BY <1>1, TreesStayWhole, PTL

-------------------------------------------------------------------------------
(***************************************************************************)
(* Models are values.                                                      *)
(***************************************************************************)
\* The numbers of the sequences and those of what they are mapped to.
LEMMA FlattenMaps ==
    ASSUME NEW n \in Nat, NEW V, NEW W, NEW r \in [V -> W], NEW s \in [1..n -> Seq(V)]
    PROVE  FlattenSeq([k \in 1..n |-> Via(s[k], r)]) = Via(FlattenSeq(s), r)
<1> DEFINE t == [k \in 1..n |-> Via(s[k], r)]
<1>1. \A k \in 1..n : /\ Via(s[k], r) \in Seq(W) /\ Len(Via(s[k], r)) = Len(s[k])
                      /\ Len(s[k]) \in Nat /\ DOMAIN s[k] = 1..Len(s[k])
                      /\ \A i \in 1..Len(s[k]) : Via(s[k], r)[i] = r[s[k][i]]
  <2> TAKE k \in 1..n
  <2>1. PICK q, c, m : q = s[k] /\ c = Len(q) /\ m = Via(q, r)
    OBVIOUS
  <2>2. q \in Seq(V) /\ c \in Nat /\ DOMAIN q = 1..c /\ \A i \in 1..c : q[i] \in V
    <3>1. s[k] \in Seq(V)
      OBVIOUS
    <3> QED
      BY <2>1, <3>1
  <2>3. m = [i \in 1..c |-> r[q[i]]]
    BY <2>1, <2>2 DEF Via
  <2>4. m \in Seq(W) /\ Len(m) = c
    BY <2>2, <2>3
  <2> QED
    BY <2>1, <2>2, <2>3, <2>4
<1>2. t \in [1..n -> Seq(W)] /\ \A k \in 1..n : Len(t[k]) = Len(s[k])
  BY <1>1
<1>3. PICK b : Sizes(b, s, n)
  BY SizesOf
<1>4. Sizes(b, t, n)
  BY <1>2, <1>3 DEF Sizes
<1> HIDE DEF t
<1>5. Spread(FlattenSeq(s), s, b, n)
  BY <1>3, FlattenSpreads
<1>6. Spread(FlattenSeq(t), t, b, n)
  BY <1>2, <1>4, FlattenSpreads
<1>7. PICK u, v : u = FlattenSeq(s) /\ v = FlattenSeq(t)
  OBVIOUS
<1>8. /\ u \in Seq(V) /\ v \in Seq(W)
      /\ DOMAIN u = 1..b[n] /\ DOMAIN v = 1..b[n]
  <2>1. u \in Seq(V) /\ v \in Seq(W)
    BY <1>2, <1>7, FlattenHolds
  <2> QED
    BY <1>5, <1>6, <1>7, <2>1 DEF Spread
<1>9. ASSUME NEW p \in 1..b[n]
      PROVE  v[p] = r[u[p]]
  <2>1. PICK k \in 1..n : \E i \in 1..Len(s[k]) : p = b[k - 1] + i
    BY <1>5 DEF Spread
  <2>2. PICK i \in 1..Len(s[k]) : p = b[k - 1] + i
    BY <2>1
  <2>3. u[p] = s[k][i]
    BY <1>5, <1>7, <2>2 DEF Spread
  <2>4. v[p] = t[k][i]
    BY <1>2, <1>6, <1>7, <2>2 DEF Spread
  <2> QED
    BY <1>1, <2>3, <2>4 DEF t
<1>10. v = Via(u, r)
  <2>1. v = [p \in 1..b[n] |-> v[p]]
    BY <1>8
  <2> QED
    BY <1>8, <1>9, <2>1 DEF Via
<1> QED
  BY <1>7, <1>10 DEF t

\* What is freed of a tree and of where it is again.
LEMMA MirrorFreed ==
    ASSUME NEW p, NEW g, Grounded(p), Grounded(g), NEW r, Mirrors(p, g, r)
    PROVE  \A at \in DOMAIN p : Freed(g, r[at]) = Via(Freed(p, at), r)
<1> DEFINE S == {at \in DOMAIN p : Freed(g, r[at]) = Via(Freed(p, at), r)}
<1>1. ASSUME NEW at \in DOMAIN p, ToSet(p[at].kids) \subseteq S
      PROVE  at \in S
  <2>1. PICK kids, n : /\ n \in Nat /\ kids = p[at].kids /\ DOMAIN kids = 1..n
                       /\ \A k \in 1..n : kids[k] \in DOMAIN p /\ kids[k] \in S
    BY <1>1, KidsOf
  <2>2. r \in [DOMAIN p -> DOMAIN g] /\ g[r[at]].kids = Via(kids, r)
    BY <2>1 DEF Mirrors
  <2> DEFINE V == DOMAIN p
             W == DOMAIN g
             s == [k \in 1..n |-> Freed(p, kids[k])]
             t == [k \in 1..n |-> Via(s[k], r)]
  <2>3. s \in [1..n -> Seq(V)]
    BY <2>1, FreedAt
  <2>4. Freed(p, at) = FlattenSeq(s) \o <<at>>
    BY <2>1, FreedAt
  <2>5. Freed(g, r[at]) = FlattenSeq(t) \o <<r[at]>>
    <3>1. PICK q : q = g[r[at]].kids
      OBVIOUS
    <3>2. DOMAIN q = 1..n /\ \A k \in 1..n : q[k] = r[kids[k]]
      BY <2>1, <2>2, <3>1 DEF Via
    <3>3. \A k \in 1..n : Freed(g, q[k]) = t[k]
      BY <2>1, <3>2
    <3>4. r[at] \in DOMAIN g
      BY <2>2
    <3>5. Freed(g, r[at]) = FlattenSeq([k \in DOMAIN q |-> Freed(g, q[k])]) \o <<r[at]>>
      BY <3>1, <3>4, FreedAt
    <3> HIDE DEF t
    <3>6. [k \in DOMAIN q |-> Freed(g, q[k])] = [k \in 1..n |-> t[k]]
      BY <3>2, <3>3
    <3>7. [k \in 1..n |-> t[k]] = t
      BY DEF t
    <3> QED
      BY <3>5, <3>6, <3>7
  <2>6. FlattenSeq(t) = Via(FlattenSeq(s), r)
    <3> HIDE DEF V, W, s
    <3>1. r \in [V -> W]
      BY <2>2 DEF V, W
    <3> QED
      BY <2>1, <2>3, <3>1, FlattenMaps
  <2> HIDE DEF s, t
  <2>7. FlattenSeq(s) \in Seq(V)
    <3> HIDE DEF V
    <3> QED
      BY <2>1, <2>3, FlattenHolds
  <2>8. Via(FlattenSeq(s) \o <<at>>, r) = Via(FlattenSeq(s), r) \o <<r[at]>>
    <3>1. PICK u, c : u = FlattenSeq(s) /\ c = Len(u)
      OBVIOUS
    <3>2. u \in Seq(V) /\ c \in Nat /\ DOMAIN u = 1..c /\ \A i \in 1..c : u[i] \in V
      BY <2>7, <3>1
    <3>3. PICK w, o : w = u \o <<at>> /\ o = c + 1
      OBVIOUS
    <3>4. w = Append(u, at)
      BY <3>2, <3>3
    <3>5. DOMAIN w = 1..o /\ w[o] = at /\ \A i \in 1..c : w[i] = u[i]
      <4>1. Len(w) = o /\ w \in Seq(V)
        BY <3>2, <3>3, <3>4
      <4>2. w[o] = at
        BY <3>2, <3>3, <3>4
      <4>3. \A i \in 1..c : w[i] = u[i]
        BY <3>2, <3>3, <3>4
      <4> QED
        BY <4>1, <4>2, <4>3
    <3>6. PICK x : x = Via(u, r)
      OBVIOUS
    <3>7. x \in Seq(W) /\ Len(x) = c /\ DOMAIN x = 1..c /\ \A i \in 1..c : x[i] = r[u[i]]
      <4>1. x = [i \in 1..c |-> r[u[i]]]
        BY <3>2, <3>6 DEF Via
      <4>2. \A i \in 1..c : r[u[i]] \in W
        BY <2>2, <3>2
      <4> HIDE DEF W
      <4> QED
        BY <3>2, <4>1, <4>2
    <3>8. PICK y, z : y = x \o <<r[at]>> /\ z = r[at]
      OBVIOUS
    <3>9. y = [i \in 1..o |-> y[i]] /\ DOMAIN y = 1..o /\ y[o] = z /\ \A i \in 1..c : y[i] = x[i]
      <4>1. z \in W
        BY <2>2, <3>8
      <4>2. y = Append(x, z)
        BY <3>7, <3>8, <4>1
      <4> HIDE DEF W
      <4>3. Len(y) = o /\ y \in Seq(W)
        BY <3>2, <3>3, <3>7, <4>1, <4>2
      <4>4. y[o] = z
        BY <3>2, <3>3, <3>7, <4>1, <4>2
      <4>5. \A i \in 1..c : y[i] = x[i]
        BY <3>2, <3>7, <4>1, <4>2
      <4>6. DOMAIN y = 1..o /\ y = [i \in 1..o |-> y[i]]
        BY <4>3
      <4> QED
        BY <4>4, <4>5, <4>6
    <3>10. y = Via(w, r)
      <4>1. \A i \in 1..o : i \in 1..c \/ i = o
        BY <3>2, <3>3
      <4>2. \A i \in 1..o : y[i] = r[w[i]]
        BY <3>5, <3>7, <3>8, <3>9, <4>1
      <4> QED
        BY <3>5, <3>9, <4>2 DEF Via
    <3> QED
      BY <3>1, <3>3, <3>6, <3>8, <3>10
  <2> QED
    BY <2>4, <2>5, <2>6, <2>8
<1>2. DOMAIN p \subseteq S
  <2> HIDE DEF S
  <2> QED
    BY <1>1, TreeInduction
<1> QED
  BY <1>2

\* A tree has no element twice if none is freed twice.
LEMMA OddIsNotInjective ==
    ASSUME NEW h, Grounded(h), NEW at \in DOMAIN h
    PROVE  OwnedTwice(h, at) <=> ~IsInjective(Freed(h, at))
<1>1. PICK s, n : s = Freed(h, at) /\ n = Len(s)
  OBVIOUS
<1>2. n \in Nat /\ DOMAIN s = 1..n /\ s \in [1..n -> ToSet(s)]
  <2>1. s \in Seq(DOMAIN h)
    BY <1>1, FreedAt
  <2>2. n \in Nat /\ DOMAIN s = 1..n /\ s = [i \in 1..n |-> s[i]]
    BY <1>1, <2>1
  <2> QED
    BY <2>2 DEF ToSet
<1>3. s \in Surjection(1..n, ToSet(s))
  <2>1. \A x \in ToSet(s) : \E i \in 1..n : s[i] = x
    BY <1>2 DEF ToSet
  <2> QED
    BY <1>2, <2>1 DEF Surjection
<1>4. IsFiniteSet(1..n) /\ Cardinality(1..n) = n
  BY <1>2, FS_Interval
<1>5. /\ IsFiniteSet(ToSet(s)) /\ Cardinality(ToSet(s)) <= n
      /\ Cardinality(ToSet(s)) = n <=> s \in Injection(1..n, ToSet(s))
  BY <1>3, <1>4, FS_Surjection
<1>6. Cardinality(ToSet(s)) \in Nat
  BY <1>5, FS_CardinalityType
<1>7. s \in Injection(1..n, ToSet(s)) <=> IsInjective(s)
  BY <1>2 DEF Injection, IsInjective
<1>8. OwnedTwice(h, at) <=> Cardinality(ToSet(s)) < n
  BY <1>1 DEF OwnedTwice
<1> QED
  BY <1>1, <1>2, <1>5, <1>6, <1>7, <1>8

\* A node without its place.
Bared(node) == [op |-> node.op, kids |-> Len(node.kids), step |-> node.step]

\* The value of a tree, node for node.
LEMMA ValueInIs ==
    ASSUME NEW h, NEW at
    PROVE  ValueIn(h, at) = [odd |-> OwnedTwice(h, at),
                             nodes |-> [k \in DOMAIN Freed(h, at) |-> Bared(h[Freed(h, at)[k]])]]
  BY Zenon DEF ValueIn, Bared

\* A tree that is somewhere again has the same value.
LEMMA MirrorValue ==
    ASSUME NEW p, NEW g, Grounded(p), Grounded(g), NEW r, Mirrors(p, g, r), NEW at \in DOMAIN p
    PROVE  ValueIn(g, r[at]) = ValueIn(p, at)
<1>1. PICK s, t : s = Freed(p, at) /\ t = Freed(g, r[at])
  OBVIOUS
<1>2. t = Via(s, r)
  BY <1>1, MirrorFreed
<1>3. /\ r \in [DOMAIN p -> DOMAIN g]
      /\ \A i, j \in DOMAIN p : r[i] = r[j] => i = j
      /\ \A i \in DOMAIN p : /\ g[r[i]].op = p[i].op /\ g[r[i]].step = p[i].step
                             /\ g[r[i]].kids = Via(p[i].kids, r)
  BY DEF Mirrors
<1>4. \A i \in DOMAIN s : s[i] \in DOMAIN p
  <2>1. s \in Seq(DOMAIN p)
    BY <1>1, FreedAt
  <2> QED
    BY <2>1
<1>5. DOMAIN t = DOMAIN s /\ \A i \in DOMAIN s : t[i] = r[s[i]]
  BY <1>2 DEF Via
<1>6. IsInjective(t) <=> IsInjective(s)
  BY <1>3, <1>4, <1>5 DEF IsInjective
<1>7. OwnedTwice(g, r[at]) <=> OwnedTwice(p, at)
  <2>1. r[at] \in DOMAIN g
    BY <1>3
  <2> QED
    BY <1>1, <1>6, <2>1, OddIsNotInjective
<1>8. \A i \in DOMAIN p : Bared(g[r[i]]) = Bared(p[i])
  <2> TAKE i \in DOMAIN p
  <2>1. PICK kids, n : kids = p[i].kids /\ n = Len(kids) /\ n \in Nat /\ DOMAIN kids = 1..n
    BY KidsOf
  <2>2. PICK q : q = Via(kids, r) /\ q = [j \in 1..n |-> r[kids[j]]]
    BY <2>1 DEF Via
  <2>3. Len(q) = n
    BY <2>1, <2>2
  <2> QED
    BY <1>3, <2>1, <2>2, <2>3 DEF Bared
<1>9. [k \in DOMAIN t |-> Bared(g[t[k]])] = [k \in DOMAIN s |-> Bared(p[s[k]])]
  BY <1>4, <1>5, <1>8
<1>10. OwnedTwice(g, r[at]) = OwnedTwice(p, at)
  BY <1>7 DEF OwnedTwice
<1> QED
  BY <1>1, <1>9, <1>10, ValueInIs

\* One more at the end.
Behind(w, s, x) ==
    /\ Len(s) \in Nat /\ Len(w) = Len(s) + 1 /\ DOMAIN w = 1..(Len(s) + 1)
    /\ w[Len(s) + 1] = x
    /\ \A i \in 1..Len(s) : w[i] = s[i]

\* It is where one puts it.
LEMMA OneBehind ==
    ASSUME NEW V, NEW s \in Seq(V), NEW x \in V
    PROVE  s \o <<x>> \in Seq(V) /\ Behind(s \o <<x>>, s, x)
<1>1. PICK w : w = s \o <<x>>
  OBVIOUS
<1>2. w = Append(s, x)
  BY <1>1
<1>3. w \in Seq(V) /\ Len(s) \in Nat /\ Len(w) = Len(s) + 1
  BY <1>2
<1>4. DOMAIN w = 1..(Len(s) + 1)
  BY <1>3
<1>5. w[Len(s) + 1] = x
  BY <1>2
<1>6. \A i \in 1..Len(s) : w[i] = s[i]
  BY <1>2
<1> QED
  BY <1>1, <1>3, <1>4, <1>5, <1>6 DEF Behind

\* A plan is a heap of its own.
LEMMA SoundIsGrounded ==
    ASSUME NEW plan, Sound(plan)
    PROVE  /\ Grounded(plan)
           /\ Len(plan) \in Nat /\ DOMAIN plan = 1..Len(plan) /\ Len(plan) \in 1..Len(plan)
<1>1. PICK n : n = Len(plan)
  OBVIOUS
<1>2. /\ plan \in Seq(Nodes) /\ n \in Nat /\ DOMAIN plan = 1..n /\ n # 0
      /\ \A i \in 1..n : plan[i] \in Nodes /\ plan[i].kids \in Seq(1..(i - 1))
  BY <1>1 DEF Sound, Sown, Rooted
<1>3. ASSUME NEW i \in 1..n
      PROVE  /\ plan[i].kids \in Seq(1..n)
             /\ \A k \in 1..Len(plan[i].kids) : plan[i].kids[k] < i
  <2>1. PICK kids, c : kids = plan[i].kids /\ c = Len(kids)
    OBVIOUS
  <2>2. c \in Nat /\ DOMAIN kids = 1..c /\ kids = [k \in 1..c |-> kids[k]]
        /\ \A k \in 1..c : kids[k] \in 1..(i - 1)
    <3>1. kids \in Seq(1..(i - 1))
      BY <1>2, <2>1
    <3> QED
      BY <2>1, <3>1
  <2> DEFINE X == 1..n
  <2>3. \A k \in 1..c : kids[k] \in X /\ kids[k] < i
    <3> TAKE k \in 1..c
    <3>1. kids[k] \in 1..(i - 1)
      BY <2>2
    <3> QED
      BY <1>2, <3>1
  <2> HIDE DEF X
  <2>4. [k \in 1..c |-> kids[k]] \in Seq(X)
    BY <2>2, <2>3
  <2> QED
    BY <2>1, <2>2, <2>3, <2>4 DEF X
<1>4. plan \in [DOMAIN plan -> Nodes]
  <2>1. plan = [i \in 1..n |-> plan[i]]
    BY <1>2
  <2> QED
    BY <1>2, <2>1
<1> QED
  BY <1>1, <1>2, <1>3, <1>4 DEF Grounded

\* A plan is there again where it is moved to.
MovedInto(u, plan, c) ==
    \A i \in 1..Len(plan) : c + i \in 1..Len(u) /\ u[c + i] = Moved(plan, c)[i]

\* Then it is a tree of its own there.
LEMMA MovedMirrors ==
    ASSUME NEW plan, Sound(plan), NEW u, DOMAIN u = 1..Len(u), NEW c \in Nat,
           MovedInto(u, plan, c), NEW map, map = [i \in 1..Len(plan) |-> c + i]
    PROVE  Mirrors(plan, u, map)
<1>0. \A i \in 1..Len(plan) : c + i \in 1..Len(u) /\ u[c + i] = Moved(plan, c)[i]
  BY DEF MovedInto
<1>1. PICK n, r : n = Len(plan) /\ r = [i \in 1..n |-> c + i] /\ r = map
  OBVIOUS
<1>2. n \in Nat /\ DOMAIN plan = 1..n /\ plan \in Seq(Nodes) /\ Grounded(plan)
  BY <1>1, SoundIsGrounded DEF Sound
<1>3. /\ r \in [1..n -> DOMAIN u]
      /\ \A i, j \in 1..n : r[i] = r[j] => i = j
  <2>1. \A i \in 1..n : r[i] = c + i /\ r[i] \in DOMAIN u
    BY <1>0, <1>1
  <2>2. r \in [1..n -> DOMAIN u]
    BY <1>1, <2>1
  <2> QED
    BY <2>1, <2>2
<1>4. ASSUME NEW i \in 1..n
      PROVE  /\ u[r[i]].op = plan[i].op /\ u[r[i]].step = plan[i].step
             /\ u[r[i]].kids = Via(plan[i].kids, r)
  <2>1. PICK m, kids, d : m = Moved(plan, c)[i] /\ kids = plan[i].kids /\ d = Len(kids)
    OBVIOUS
  <2>2. u[r[i]] = m
    BY <1>0, <1>1, <2>1
  <2>3. /\ m.op = plan[i].op /\ m.step = plan[i].step /\ d \in Nat /\ Len(m.kids) = d
        /\ \A j \in 1..d : kids[j] \in Nat /\ m.kids[j] = kids[j] + c
    BY <1>1, <1>2, <2>1, MovedIs
  <2>4. DOMAIN kids = 1..d /\ \A j \in 1..d : kids[j] \in 1..n
    BY <1>2, <2>1, KidsOf
  <2>5. \A j \in 1..d : r[kids[j]] = m.kids[j]
    <3> TAKE j \in 1..d
    <3>1. r[kids[j]] = c + kids[j]
      BY <1>1, <2>4
    <3> QED
      BY <2>3, <3>1
  <2>6. m.kids = [j \in 1..d |-> m.kids[j]]
    <3>1. m \in Nodes
      <4>1. Moved(plan, c) \in Seq(Nodes) /\ Len(Moved(plan, c)) = n
        BY <1>1, <1>2, MovedIs
      <4> QED
        BY <2>1, <4>1
    <3>2. m.kids \in Seq(Nat)
      BY <3>1 DEF Nodes
    <3> QED
      BY <2>3, <3>2
  <2>7. m.kids = Via(kids, r)
    BY <2>4, <2>5, <2>6 DEF Via
  <2> QED
    BY <2>1, <2>2, <2>3, <2>7
<1> QED
  BY <1>1, <1>2, <1>3, <1>4 DEF Mirrors

\* c is a copy of the tree of which f is freed: the n-th node is that of the
\* n-th element, and none is freed twice.
Copies(c, h, f) ==
    /\ Len(c) = Len(f)
    /\ \A i \in 1..Len(c) : Bared(c[i]) = Bared(h[f[i]])
    /\ Freed(c, Len(c)) = [i \in 1..Len(c) |-> i]

\* The copies of the children and their parent.
LEMMA JoinedCopies ==
    ASSUME NEW h, Grounded(h), NEW at \in DOMAIN h, NEW n, n = Len(h[at].kids), NEW s,
           DOMAIN s = 1..n, \A k \in 1..n : Sound(s[k]), s \in Seq(Seq(Nodes)),
           NEW t \in [1..n -> Seq(DOMAIN h)], \A k \in 1..n : Copies(s[k], h, t[k])
    PROVE  Copies(Joined(s, h[at]), h, FlattenSeq(t) \o <<at>>)
<1>1. PICK node : /\ node = h[at] /\ node \in Nodes /\ Len(node.kids) = n /\ n \in Nat
                  /\ DOMAIN node.kids = 1..n /\ node.kids \in Seq(Nat)
  <2>1. h[at] \in Nodes
    BY DEF Grounded
  <2>2. h[at].kids \in Seq(Nat)
    BY <2>1 DEF Nodes
  <2> QED
    BY <2>1, <2>2
<1>2. PICK b, c, e : /\ b = [k \in 0..n |-> Len(FlattenSeq([j \in 1..k |-> s[j]]))]
                     /\ c = b[n] /\ e = c + 1
  OBVIOUS
<1>3. s \in [1..n -> Seq(Nodes)]
  <2>1. \A k \in 1..n : s[k] \in Seq(Nodes)
    BY DEF Sound
  <2>2. s = [k \in 1..n |-> s[k]]
    OBVIOUS
  <2> QED
    BY <2>1, <2>2
<1>4. Sizes(b, s, n)
  BY <1>1, <1>2, <1>3, SizesOf
<1>5. /\ b \in [0..n -> Nat] /\ b[0] = 0
      /\ \A k \in 1..n : b[k] = b[k - 1] + Len(s[k]) /\ b[k - 1] \in Nat /\ b[k] \in Nat
      /\ c \in Nat /\ e \in Nat
  <2>1. b \in [0..n -> Nat] /\ b[0] = 0 /\ \A k \in 1..n : b[k] = b[k - 1] + Len(s[k])
    BY <1>4 DEF Sizes
  <2>2. n \in 0..n /\ \A k \in 1..n : k \in 0..n /\ k - 1 \in 0..n
    BY <1>1
  <2>3. \A k \in 1..n : b[k - 1] \in Nat /\ b[k] \in Nat
    BY <2>1, <2>2
  <2>4. c \in Nat /\ e \in Nat
    BY <1>2, <2>1, <2>2
  <2> QED
    BY <2>1, <2>3, <2>4
<1> DEFINE m == [k \in 1..n |-> Moved(s[k], b[k - 1])]
           top == [node EXCEPT !.kids = [k \in DOMAIN @ |-> b[k]]]
<1>6. Joined(s, node) = FlattenSeq(m) \o <<top>>
  <2>1. \A k \in 1..n : k \in 0..n /\ k - 1 \in 0..n
    BY <1>1
  <2> DEFINE past(k) == Len(FlattenSeq([j \in 1..k |-> s[j]]))
  <2>2. \A k \in 0..n : past(k) = b[k]
    BY <1>2
  <2> HIDE DEF past
  <2>3. [k \in DOMAIN node.kids |-> Moved(s[k], past(k - 1))] = m
    BY <1>1, <2>1, <2>2
  <2>4. [k \in DOMAIN node.kids |-> past(k)] = [k \in DOMAIN node.kids |-> b[k]]
    BY <1>1, <2>1, <2>2
  <2>5. [node EXCEPT !.kids = [k \in DOMAIN @ |-> past(k)]] = top
    BY <2>4
  <2> HIDE DEF m, top
  <2>6. Joined(s, node) = FlattenSeq([k \in DOMAIN node.kids |-> Moved(s[k], past(k - 1))])
                            \o <<[node EXCEPT !.kids = [k \in DOMAIN @ |-> past(k)]]>>
    BY Zenon DEF Joined, past
  <2> QED
    BY <2>3, <2>5, <2>6, Zenon
<1>7. /\ m \in [1..n -> Seq(Nodes)]
      /\ \A k \in 1..n : Len(m[k]) = Len(s[k]) /\ m[k] = Moved(s[k], b[k - 1])
  <2>1. ASSUME NEW k \in 1..n
        PROVE  Moved(s[k], b[k - 1]) \in Seq(Nodes) /\ Len(Moved(s[k], b[k - 1])) = Len(s[k])
    BY <1>3, <1>5, MovedIs
  <2> QED
    BY <2>1
<1>8. top \in Nodes /\ top.op = node.op /\ top.step = node.step /\ Len(top.kids) = n
      /\ DOMAIN top.kids = 1..n /\ \A k \in 1..n : top.kids[k] = b[k]
  <2>1. PICK q : q = [k \in 1..n |-> b[k]]
    OBVIOUS
  <2>2. q \in Seq(Nat) /\ Len(q) = Len(node.kids)
    BY <1>1, <1>5, <2>1
  <2>3. top = [node EXCEPT !.kids = q]
    BY <1>1, <2>1
  <2> HIDE DEF top
  <2>4. top \in Nodes /\ top.op = node.op /\ top.step = node.step /\ top.kids = q
    BY <1>1, <2>2, <2>3, NodeWith
  <2>5. Len(q) = n /\ DOMAIN q = 1..n /\ \A k \in 1..n : q[k] = b[k]
    BY <1>1, <2>1, <2>2
  <2> QED
    BY <2>4, <2>5
<1>9. Spread(FlattenSeq(m), m, b, n) /\ FlattenSeq(m) \in Seq(Nodes)
  <2> HIDE DEF m
  <2>1. Sizes(b, m, n)
    BY <1>4, <1>7 DEF Sizes
  <2> QED
    BY <1>1, <1>7, <2>1, FlattenSpreads, FlattenHolds
<1>10. \A k \in 1..n : Len(t[k]) = Len(s[k])
  BY DEF Copies
<1>11. Spread(FlattenSeq(t), t, b, n) /\ FlattenSeq(t) \in Seq(DOMAIN h)
  <2>1. Sizes(b, t, n)
    BY <1>4, <1>10 DEF Sizes
  <2> DEFINE V == DOMAIN h
  <2> HIDE DEF V
  <2>2. t \in [1..n -> Seq(V)]
    BY DEF V
  <2>3. Spread(FlattenSeq(t), t, b, n) /\ FlattenSeq(t) \in Seq(V)
    BY <1>1, <2>1, <2>2, FlattenSpreads, FlattenHolds
  <2> QED
    BY <2>3 DEF V
<1>12. PICK u, f : u = Joined(s, node) /\ f = FlattenSeq(t) \o <<at>>
  OBVIOUS
<1>13. /\ Len(u) = e /\ DOMAIN u = 1..e /\ u[e] = top
       /\ \A i \in 1..c : u[i] = FlattenSeq(m)[i]
       /\ \A i \in 1..e : i \in 1..c \/ i = e
  <2> HIDE DEF m, top
  <2>1. FlattenSeq(m) \in Seq(Nodes) /\ Len(FlattenSeq(m)) = c /\ top \in Nodes
    BY <1>2, <1>8, <1>9 DEF Spread
  <2>2. u = FlattenSeq(m) \o <<top>>
    BY <1>6, <1>12
  <2>3. Behind(u, FlattenSeq(m), top)
    BY <2>1, <2>2, OneBehind
  <2>4. \A i \in 1..e : i \in 1..c \/ i = e
    BY <1>2, <1>5
  <2> QED
    BY <1>2, <2>1, <2>3, <2>4 DEF Behind
<1>14. /\ Len(f) = e /\ f[e] = at
       /\ \A i \in 1..c : f[i] = FlattenSeq(t)[i]
  <2>1. FlattenSeq(t) \in Seq(DOMAIN h) /\ Len(FlattenSeq(t)) = c
    BY <1>2, <1>11 DEF Spread
  <2>2. Behind(f, FlattenSeq(t), at)
    BY <1>12, <2>1, OneBehind
  <2> QED
    BY <1>2, <2>1, <2>2 DEF Behind
<1> HIDE DEF m, top
<1>15. ASSUME NEW k \in 1..n, NEW i \in 1..Len(s[k])
       PROVE  /\ b[k - 1] + i \in 1..c
              /\ u[b[k - 1] + i] = Moved(s[k], b[k - 1])[i]
              /\ f[b[k - 1] + i] = t[k][i]
  <2>1. b[k - 1] + i \in 1..c /\ FlattenSeq(m)[b[k - 1] + i] = m[k][i]
    <3>1. i \in 1..Len(m[k])
      BY <1>7
    <3> QED
      BY <1>2, <1>9, <3>1 DEF Spread
  <2>2. FlattenSeq(t)[b[k - 1] + i] = t[k][i]
    <3>1. i \in 1..Len(t[k])
      BY <1>10
    <3> QED
      BY <1>11, <3>1 DEF Spread
  <2> QED
    BY <1>7, <1>13, <1>14, <2>1, <2>2
<1>16. \A p \in 1..c : \E k \in 1..n : \E i \in 1..Len(s[k]) : p = b[k - 1] + i
  <2>1. \A p \in 1..b[n] : \E k \in 1..n : \E i \in 1..Len(m[k]) : p = b[k - 1] + i
    BY <1>9 DEF Spread
  <2>2. c = b[n] /\ \A k \in 1..n : Len(m[k]) = Len(s[k])
    BY <1>2, <1>7
  <2> SUFFICES ASSUME NEW p \in 1..c
               PROVE  \E k \in 1..n : \E i \in 1..Len(s[k]) : p = b[k - 1] + i
    OBVIOUS
  <2>3. PICK k \in 1..n : \E i \in 1..Len(m[k]) : p = b[k - 1] + i
    BY <2>1, <2>2
  <2>4. PICK i \in 1..Len(m[k]) : p = b[k - 1] + i
    BY <2>3
  <2>5. i \in 1..Len(s[k])
    BY <2>2
  <2> QED
    BY <2>4, <2>5
<1>17. ASSUME NEW p \in 1..e
       PROVE  Bared(u[p]) = Bared(h[f[p]])
  <2>1. CASE p \in 1..c
    <3>1. PICK k \in 1..n : \E i \in 1..Len(s[k]) : p = b[k - 1] + i
      BY <1>16, <2>1
    <3>2. PICK i \in 1..Len(s[k]) : p = b[k - 1] + i
      BY <3>1
    <3>3. u[p] = Moved(s[k], b[k - 1])[i] /\ f[p] = t[k][i]
      BY <1>15, <3>2
    <3>4. Bared(Moved(s[k], b[k - 1])[i]) = Bared(s[k][i])
      <4>1. s[k] \in Seq(Nodes) /\ b[k - 1] \in Nat
        BY <1>3, <1>5
      <4> QED
        BY <4>1, MovedIs DEF Bared
    <3>5. Bared(s[k][i]) = Bared(h[t[k][i]])
      BY DEF Copies
    <3> QED
      BY <3>3, <3>4, <3>5
  <2>2. CASE p = e
    BY <1>1, <1>8, <1>13, <1>14, <2>2 DEF Bared
  <2> QED
    BY <1>13, <2>1, <2>2
<1>18. Sound(u)
  BY <1>1, <1>12, JoinedIsSound
<1> DEFINE x == [k \in 1..n |-> [i \in 1..Len(s[k]) |-> b[k - 1] + i]]
<1>19. ASSUME NEW k \in 1..n
       PROVE  Freed(u, b[k]) = x[k]
  <2>1. PICK plan, d, a, r : plan = s[k] /\ d = Len(plan) /\ a = b[k - 1] /\ r = [i \in 1..d |-> a + i]
    OBVIOUS
  <2>2. /\ Sound(plan) /\ Grounded(plan) /\ DOMAIN plan = 1..d /\ d \in Nat /\ d \in 1..d
        /\ Freed(plan, d) = [i \in 1..d |-> i]
    <3>1. Sound(plan) /\ Freed(plan, d) = [i \in 1..d |-> i]
      BY <2>1 DEF Copies
    <3> QED
      BY <2>1, <3>1, SoundIsGrounded
  <2>3. a \in Nat /\ b[k] = a + d
    BY <1>5, <2>1
  <2>4. \A i \in 1..d : a + i \in 1..Len(u) /\ u[a + i] = Moved(plan, a)[i]
    <3> TAKE i \in 1..d
    <3>1. i \in 1..Len(s[k])
      BY <2>1
    <3>2. a + i \in 1..c /\ u[a + i] = Moved(plan, a)[i]
      BY <1>15, <2>1, <3>1
    <3>3. 1..c \subseteq 1..e
      BY <1>2, <1>5
    <3> QED
      BY <1>13, <3>2, <3>3
  <2>5. DOMAIN u = 1..Len(u)
    BY <1>13
  <2>6. Mirrors(plan, u, r)
    <3>1. MovedInto(u, plan, a)
      BY <2>1, <2>4 DEF MovedInto
    <3>2. r = [i \in 1..Len(plan) |-> a + i]
      BY <2>1
    <3> QED
      BY <2>2, <2>3, <2>5, <3>1, <3>2, MovedMirrors
  <2>7. Freed(u, r[d]) = Via(Freed(plan, d), r)
    <3>1. Grounded(u)
      BY <1>18, SoundIsGrounded
    <3>2. \A i \in DOMAIN plan : Freed(u, r[i]) = Via(Freed(plan, i), r)
      BY <2>2, <2>6, <3>1, MirrorFreed
    <3> QED
      BY <2>2, <3>2
  <2>8. Via([i \in 1..d |-> i], r) = r
    BY <2>1 DEF Via
  <2>9. r[d] = b[k]
    BY <2>1, <2>2, <2>3
  <2> QED
    BY <2>1, <2>2, <2>7, <2>8, <2>9
<1>20. PICK y : y = FlattenSeq(x) /\ y \in Seq(Nat) /\ Len(y) = c /\ \A p \in 1..c : y[p] = p
  <2>1. x \in [1..n -> Seq(Nat)] /\ \A k \in 1..n : Len(x[k]) = Len(s[k])
    <3>1. ASSUME NEW k \in 1..n
          PROVE  x[k] \in Seq(Nat) /\ Len(x[k]) = Len(s[k])
      <4>0. s[k] \in Seq(Nodes) /\ b[k - 1] \in Nat
        BY <1>3, <1>5
      <4>1. PICK d, a : d = Len(s[k]) /\ a = b[k - 1]
        OBVIOUS
      <4>3. d \in Nat /\ a \in Nat
        BY <4>0, <4>1
      <4>2. [i \in 1..d |-> a + i] \in Seq(Nat) /\ Len([i \in 1..d |-> a + i]) = d
        BY <4>3
      <4> QED
        BY <4>1, <4>2
    <3> QED
      BY <3>1
  <2>2. \A k \in 1..n : \A i \in 1..Len(s[k]) : x[k][i] = b[k - 1] + i
    OBVIOUS
  <2> HIDE DEF x
  <2>3. Sizes(b, x, n)
    BY <1>4, <2>1 DEF Sizes
  <2>4. Spread(FlattenSeq(x), x, b, n) /\ FlattenSeq(x) \in Seq(Nat)
    BY <1>1, <2>1, <2>3, FlattenSpreads, FlattenHolds
  <2>5. ASSUME NEW p \in 1..c
        PROVE  FlattenSeq(x)[p] = p
    <3>1. PICK k \in 1..n : \E i \in 1..Len(s[k]) : p = b[k - 1] + i
      BY <1>16
    <3>2. PICK i \in 1..Len(s[k]) : p = b[k - 1] + i
      BY <3>1
    <3>3. FlattenSeq(x)[p] = x[k][i]
      <4>1. i \in 1..Len(x[k])
        BY <2>1
      <4> QED
        BY <2>4, <3>2, <4>1 DEF Spread
    <3> QED
      BY <2>2, <3>2, <3>3
  <2>6. Len(FlattenSeq(x)) = c
    BY <1>2, <2>4 DEF Spread
  <2> QED
    BY <2>4, <2>5, <2>6
<1>21. Freed(u, e) = y \o <<e>>
  <2>1. e \in DOMAIN u /\ u[e] = top /\ Grounded(u)
    BY <1>5, <1>13, <1>18, SoundIsGrounded
  <2>2. Freed(u, e) = FlattenSeq([k \in DOMAIN u[e].kids |-> Freed(u, u[e].kids[k])]) \o <<e>>
    BY <2>1, FreedAt
  <2>3. [k \in DOMAIN u[e].kids |-> Freed(u, u[e].kids[k])] = [k \in 1..n |-> x[k]]
    <3>1. DOMAIN u[e].kids = 1..n /\ \A k \in 1..n : u[e].kids[k] = b[k]
      BY <1>8, <2>1
    <3>2. \A k \in 1..n : Freed(u, u[e].kids[k]) = x[k]
      BY <1>19, <3>1
    <3> HIDE DEF x
    <3> QED
      BY <3>1, <3>2
  <2>4. [k \in 1..n |-> x[k]] = x
    OBVIOUS
  <2> HIDE DEF x
  <2> QED
    BY <1>20, <2>2, <2>3, <2>4
<1>22. Freed(u, e) = [i \in 1..e |-> i]
  <2>1. PICK w : w = y \o <<e>> /\ w \in Seq(Nat) /\ Behind(w, y, e)
    BY <1>5, <1>20, OneBehind
  <2>2. DOMAIN w = 1..e /\ w[e] = e /\ \A i \in 1..c : w[i] = y[i]
    BY <1>2, <1>20, <2>1 DEF Behind
  <2>3. \A i \in 1..e : w[i] = i
    BY <1>13, <1>20, <2>2
  <2>4. w = [i \in 1..e |-> w[i]]
    BY <2>1, <2>2
  <2> QED
    BY <1>21, <2>1, <2>3, <2>4
<1> QED
  BY <1>1, <1>12, <1>13, <1>14, <1>17, <1>22 DEF Copies

\* Every copy is one.
LEMMA CopyCopies ==
    ASSUME NEW h, Grounded(h)
    PROVE  \A at \in DOMAIN h : Copies(CopyOf(h, at), h, Freed(h, at))
<1> DEFINE S == {at \in DOMAIN h : Copies(CopyOf(h, at), h, Freed(h, at))}
<1>1. ASSUME NEW at \in DOMAIN h, ToSet(h[at].kids) \subseteq S
      PROVE  at \in S
  <2>1. PICK kids, n : /\ n \in Nat /\ kids = h[at].kids /\ DOMAIN kids = 1..n /\ n = Len(h[at].kids)
                       /\ \A k \in 1..n : kids[k] \in DOMAIN h /\ kids[k] \in S
    BY <1>1, KidsOf
  <2> DEFINE s == [k \in 1..n |-> CopyOf(h, kids[k])]
             t == [k \in 1..n |-> Freed(h, kids[k])]
             V == DOMAIN h
             W == Seq(Nodes)
  <2>2. \A k \in 1..n : /\ Sound(s[k]) /\ Copies(s[k], h, t[k])
                        /\ s[k] \in W /\ t[k] \in Seq(V)
    <3> TAKE k \in 1..n
    <3>1. Sound(CopyOf(h, kids[k])) /\ Freed(h, kids[k]) \in Seq(V)
      BY <2>1, CopyIsSound, FreedAt
    <3>2. Copies(CopyOf(h, kids[k]), h, Freed(h, kids[k]))
      BY <2>1
    <3> QED
      BY <3>1, <3>2 DEF Sound
  <2>3. CopyOf(h, at) = Joined(s, h[at])
    <3>1. CopyOf(h, at) = Joined([k \in DOMAIN h[at].kids |-> CopyOf(h, h[at].kids[k])], h[at])
      BY CopyIsSound
    <3> QED
      BY <2>1, <3>1
  <2>4. Freed(h, at) = FlattenSeq(t) \o <<at>>
    <3>1. Freed(h, at) = FlattenSeq([k \in DOMAIN h[at].kids |-> Freed(h, h[at].kids[k])]) \o <<at>>
      BY FreedAt
    <3> QED
      BY <2>1, <3>1
  <2>5. DOMAIN s = 1..n /\ s = [k \in 1..n |-> s[k]] /\ t = [k \in 1..n |-> t[k]]
    OBVIOUS
  <2> HIDE DEF s, t, V, W
  <2>6. s \in Seq(W) /\ t \in [1..n -> Seq(V)]
    <3>1. [k \in 1..n |-> s[k]] \in Seq(W)
      BY <2>1, <2>2
    <3>2. [k \in 1..n |-> t[k]] \in [1..n -> Seq(V)]
      BY <2>2
    <3> QED
      BY <2>5, <3>1, <3>2
  <2>7. Copies(Joined(s, h[at]), h, FlattenSeq(t) \o <<at>>)
    BY <2>1, <2>2, <2>5, <2>6, JoinedCopies DEF V, W
  <2> QED
    BY <2>3, <2>4, <2>7
<1>2. DOMAIN h \subseteq S
  <2> HIDE DEF S
  <2> QED
    BY <1>1, TreeInduction
<1> QED
  BY <1>2

\* A copy has the value of what is copied, but each element has one owner.
LEMMA CopyValue ==
    ASSUME NEW h, Grounded(h), NEW at \in DOMAIN h
    PROVE  ValueIn(CopyOf(h, at), Len(CopyOf(h, at))) = [ValueIn(h, at) EXCEPT !.odd = FALSE]
<1>1. PICK c, s, n : c = CopyOf(h, at) /\ s = Freed(h, at) /\ n = Len(c)
  OBVIOUS
<1>2. /\ n = Len(s) /\ Freed(c, n) = [i \in 1..n |-> i]
      /\ \A i \in 1..n : Bared(c[i]) = Bared(h[s[i]])
  BY <1>1, CopyCopies DEF Copies
<1>3. Grounded(c) /\ n \in DOMAIN c
  BY <1>1, CopyIsSound, SoundIsGrounded
<1>4. ~OwnedTwice(c, n)
  <2>1. IsInjective(Freed(c, n))
    BY <1>2 DEF IsInjective
  <2> QED
    BY <1>3, <2>1, OddIsNotInjective
<1>5. DOMAIN s = 1..n
  <2>1. s \in Seq(DOMAIN h)
    BY <1>1, FreedAt
  <2> QED
    BY <1>2, <2>1
<1>6. [k \in DOMAIN Freed(c, n) |-> Bared(c[Freed(c, n)[k]])] = [k \in DOMAIN s |-> Bared(h[s[k]])]
  BY <1>2, <1>5
<1>7. OwnedTwice(c, n) = FALSE
  BY <1>4 DEF OwnedTwice
<1>8. PICK nodes : nodes = [k \in DOMAIN s |-> Bared(h[s[k]])]
  OBVIOUS
<1>9. ValueIn(c, n) = [odd |-> FALSE, nodes |-> nodes]
  BY <1>6, <1>7, <1>8, ValueInIs
<1>10. ValueIn(h, at) = [odd |-> OwnedTwice(h, at), nodes |-> nodes]
  BY <1>1, <1>8, ValueInIs
<1>11. [ValueIn(h, at) EXCEPT !.odd = FALSE] = [odd |-> FALSE, nodes |-> nodes]
  <2>1. PICK x : x = OwnedTwice(h, at)
    OBVIOUS
  <2>2. PICK v : v = [odd |-> x, nodes |-> nodes]
    OBVIOUS
  <2>3. v \in [odd : {x}, nodes : {nodes}]
    BY <2>2
  <2>4. PICK w : w = [v EXCEPT !.odd = FALSE]
    OBVIOUS
  <2>5. w \in [odd : {FALSE}, nodes : {nodes}]
    BY <2>3, <2>4
  <2>6. w = [odd |-> FALSE, nodes |-> nodes]
    BY <2>5
  <2> QED
    BY <1>10, <2>1, <2>2, <2>4, <2>6, Zenon
<1> QED
  BY <1>1, <1>9, <1>11

\* Values are as ModelValues has them.
LEMMA ValueInTyped ==
    ASSUME NEW h, Grounded(h), NEW at \in DOMAIN h
    PROVE  ValueIn(h, at) \notin {Absent, Null}
<1>1. PICK s, n : s = Freed(h, at) /\ n = Len(s) /\ n \in Nat /\ DOMAIN s = 1..n /\ \A k \in 1..n : s[k] \in DOMAIN h
  <2>1. Freed(h, at) \in Seq(DOMAIN h)
    BY FreedAt
  <2> QED
    BY <2>1
<1> DEFINE X == [op : Ops, kids : Nat, step : Steps]
           nodes == [k \in DOMAIN s |-> Bared(h[s[k]])]
<1>2. \A i \in DOMAIN h : Bared(h[i]) \in X
  <2> TAKE i \in DOMAIN h
  <2>1. h[i] \in Nodes /\ Len(h[i].kids) \in Nat
    BY KidsOf DEF Grounded
  <2> QED
    BY <2>1 DEF Bared, Nodes
<1>3. nodes \in Seq(X)
  <2>1. \A k \in 1..n : nodes[k] \in X
    BY <1>1, <1>2
  <2>2. nodes = [k \in 1..n |-> nodes[k]]
    BY <1>1
  <2> HIDE DEF nodes, X
  <2>3. [k \in 1..n |-> nodes[k]] \in Seq(X)
    BY <1>1, <2>1
  <2> QED
    BY <2>2, <2>3
<1>4. OwnedTwice(h, at) \in BOOLEAN
  BY DEF OwnedTwice
<1>5. ValueIn(h, at) = [odd |-> OwnedTwice(h, at), nodes |-> nodes]
  BY <1>1, ValueInIs
<1> HIDE DEF nodes
<1>6. ValueIn(h, at) \in [odd : BOOLEAN, nodes : Seq(X)]
  <2> HIDE DEF X
  <2> QED
    BY <1>3, <1>4, <1>5
<1> QED
  BY <1>6, ValuesAssumption

\* What a model is as a value.
Val == [m \in Models |-> IF HasTree(m) THEN ValueIn(heap, root[m]) ELSE root[m]]

\* A model whose elements are not touched keeps its value.
LEMMA ValueStays ==
    ASSUME TreeInv, Grounded(heap'), NEW n \in Models, root'[n] = root[n], Owned[n] \subseteq DOMAIN heap',
           \A i \in Owned[n] : /\ heap'[i].kids = heap[i].kids /\ heap'[i].op = heap[i].op
                               /\ heap'[i].step = heap[i].step
    PROVE  Val'[n] = Val[n]
<1>1. Kept({n})
  BY KeptIfAlike
<1>2. HasTree(n)' = HasTree(n) /\ Tree(n)' = Tree(n)
  BY <1>1 DEF Kept
<1>3. Val'[n] = IF HasTree(n)' THEN ValueIn(heap', root'[n]) ELSE root'[n]
  BY DEF Val
<1>4. Val[n] = IF HasTree(n) THEN ValueIn(heap, root[n]) ELSE root[n]
  BY DEF Val
<1>5. CASE ~HasTree(n)
  BY <1>2, <1>3, <1>4, <1>5
<1>6. CASE HasTree(n)
  <2>1. PICK s, at : s = Freed(heap, at) /\ at = root[n] /\ s = Freed(heap', at)
    BY <1>2, <1>6 DEF Tree
  <2>2. \A k \in DOMAIN s : s[k] \in Owned[n]
    BY <1>6, <2>1 DEF Owned, Tree, ToSet
  <2>3. \A k \in DOMAIN s : Bared(heap'[s[k]]) = Bared(heap[s[k]])
    BY <2>2 DEF Bared
  <2>4. OwnedTwice(heap', at) = OwnedTwice(heap, at)
    BY <2>1 DEF OwnedTwice
  <2>5. [k \in DOMAIN s |-> Bared(heap'[s[k]])] = [k \in DOMAIN s |-> Bared(heap[s[k]])]
    BY <2>3
  <2>6. ValueIn(heap', at) = ValueIn(heap, at)
    BY <2>1, <2>4, <2>5, ValueInIs
  <2> QED
    BY <1>2, <1>3, <1>4, <1>6, <2>1, <2>6
<1> QED
  BY <1>5, <1>6

\* Where one tree takes the place of another only its model gets another value.
LEMMA TurnsValue ==
    ASSUME TreeInv, NEW m \in Models, NEW new, NEW top, NEW left, Turns(m, new, top, left)
    PROVE  Val' = [Val EXCEPT ![m] = IF top \in {Null, Absent} THEN top ELSE ValueIn(heap', top)]
<1> DEFINE E == DOMAIN heap \ Owned[m]
<1>1. /\ Grounded(heap') /\ root' = [root EXCEPT ![m] = top]
      /\ DOMAIN heap' = E \cup new \cup left /\ \A i \in E : heap'[i] = heap[i]
  BY DEF Turns
<1>2. \A n \in Models \ {m} : Owned[n] \subseteq E
  BY DeletedIs
<1>3. DOMAIN root = Models
  BY DEF TreeInv
<1>4. \A n \in Models \ {m} : Val'[n] = Val[n]
  <2> TAKE n \in Models \ {m}
  <2>1. root'[n] = root[n] /\ Owned[n] \subseteq DOMAIN heap' /\ \A i \in Owned[n] : heap'[i] = heap[i]
    BY <1>1, <1>2, <1>3
  <2> QED
    BY <1>1, <2>1, ValueStays
<1>5. Val'[m] = IF top \in {Null, Absent} THEN top ELSE ValueIn(heap', top)
  <2>1. root'[m] = top
    BY <1>1, <1>3
  <2>2. Val'[m] = IF HasTree(m)' THEN ValueIn(heap', root'[m]) ELSE root'[m]
    BY DEF Val
  <2> QED
    BY <2>1, <2>2 DEF HasTree
<1>6. DOMAIN Val = Models /\ DOMAIN Val' = Models /\ Val' = [n \in Models |-> Val'[n]]
  BY DEF Val
<1> HIDE DEF E
<1>7. PICK v, w : v = Val /\ w = Val'
  OBVIOUS
<1>8. w = [v EXCEPT ![m] = IF top \in {Null, Absent} THEN top ELSE ValueIn(heap', top)]
  BY <1>4, <1>5, <1>6, <1>7
<1> QED
  BY <1>7, <1>8

\* A model takes another value, and the others keep theirs.
LEMMA BecomesIs ==
    ASSUME NEW m, NEW v, fate = "alive", fate' = fate, Val' = [Val EXCEPT ![m] = v]
    PROVE  Values!Becomes(m, v)
  BY DEF Values!Becomes, Val

\* What a model has when a plan was put on the heap for it is the plan.
LEMMA PutValue ==
    ASSUME TreeInv, NEW m \in Models, NEW plan, Sound(plan), NEW r,
           Turns(m, ToSet(r), Last(r), {}), Mirrors(plan, heap', r)
    PROVE  Val' = [Val EXCEPT ![m] = ValueIn(plan, Len(plan))]
<1>1. PICK n : n = Len(plan)
  OBVIOUS
<1>2. Grounded(plan) /\ n \in Nat /\ DOMAIN plan = 1..n /\ n \in 1..n
  BY <1>1, SoundIsGrounded
<1>3. DOMAIN r = 1..n /\ r \in [1..n -> DOMAIN heap']
  BY <1>2 DEF Mirrors
<1>4. Last(r) = r[n]
  <2>1. Len(r) = n
    BY <1>2, <1>3
  <2> QED
    BY <2>1 DEF Last
<1>5. r[n] \in DOMAIN heap' /\ Grounded(heap') /\ Within(heap')
  BY <1>2, <1>3 DEF Turns
<1>6. Last(r) \notin {Null, Absent}
  BY <1>4, <1>5, PlacesAssumption DEF Within
<1>7. ValueIn(heap', r[n]) = ValueIn(plan, n)
  BY <1>2, <1>5, MirrorValue
<1>8. Val' = [Val EXCEPT ![m] = IF Last(r) \in {Null, Absent} THEN Last(r) ELSE ValueIn(heap', Last(r))]
  BY TurnsValue
<1> QED
  BY <1>1, <1>4, <1>6, <1>7, <1>8

\* What Val is of a model.
LEMMA ValOf ==
    ASSUME TreeInv, NEW m \in Models
    PROVE  /\ HasTree(m) => /\ Val[m] = ValueIn(heap, root[m]) /\ Val[m] \notin {Null, Absent}
                            /\ Val[m].odd = TwoOwners(m)
           /\ ~HasTree(m) => Val[m] = root[m] /\ Val[m] \in {Null, Absent} /\ ~TwoOwners(m)
<1>1. Val[m] = IF HasTree(m) THEN ValueIn(heap, root[m]) ELSE root[m]
  BY DEF Val
<1>2. ASSUME HasTree(m)
      PROVE  /\ Val[m] = ValueIn(heap, root[m]) /\ Val[m] \notin {Null, Absent}
             /\ Val[m].odd = TwoOwners(m)
  <2>1. root[m] \in DOMAIN heap /\ Grounded(heap)
    BY <1>2, OwnedIsClosed DEF TreeInv
  <2>2. ValueIn(heap, root[m]) \notin {Null, Absent}
    BY <2>1, ValueInTyped
  <2>3. ValueIn(heap, root[m]).odd = OwnedTwice(heap, root[m])
    BY ValueInIs
  <2>4. TwoOwners(m) = OwnedTwice(heap, root[m])
    BY <1>2 DEF TwoOwners, HasTree, OwnedTwice
  <2> QED
    BY <1>1, <1>2, <2>2, <2>3, <2>4
<1>3. ASSUME ~HasTree(m)
      PROVE  Val[m] = root[m] /\ Val[m] \in {Null, Absent} /\ ~TwoOwners(m)
  BY <1>1, <1>3 DEF HasTree, TwoOwners
<1> QED
  BY <1>2, <1>3

\* Each constructor makes a model of one of the circuits, or one without.
LEMMA ConstructMaps ==
    ASSUME TreeInv, NEW m \in Models, NEW plan \in Plans, Construct(m, plan)
    PROVE  Values!Construct(m)
<1>1. Deleted(m) = heap /\ root[m] = Absent /\ fate = "alive" /\ fate' = fate
  BY NothingOwned DEF Construct
<1>2. Sound(plan)
  BY PlanIsSound
<1>3. PICK r : Turns(m, ToSet(r), Last(r), {}) /\ Mirrors(plan, heap', r)
  BY <1>1, <1>2, PutTurns DEF Construct, Sound
<1>4. Val' = [Val EXCEPT ![m] = ValueIn(plan, Len(plan))]
  BY <1>2, <1>3, PutValue
<1>5. Val[m] = Absent
  BY <1>1, ValOf DEF HasTree
<1>6. Values!Becomes(m, ValueIn(plan, Len(plan)))
  BY <1>1, <1>4, BecomesIs
<1> QED
  BY <1>5, <1>6 DEF Values!Construct, Val

\* A bracket that is not closed makes a model without a circuit.
LEMMA ConstructNullMaps ==
    ASSUME TreeInv, NEW m \in Models, NEW left \in Nat, ConstructNull(m, left)
    PROVE  Values!Construct(m)
<1>1. root[m] = Absent /\ fate = "alive" /\ fate' = fate
  BY DEF ConstructNull
<1>2. PICK r : Turns(m, {}, Null, r)
  BY ConstructNullKeeps
<1>3. Val' = [Val EXCEPT ![m] = Null]
  BY <1>2, TurnsValue
<1>4. Val[m] = Absent
  BY <1>1, ValOf DEF HasTree
<1>5. Values!Becomes(m, Null)
  BY <1>1, <1>3, BecomesIs
<1> QED
  BY <1>4, <1>5 DEF Values!Construct, Val

\* An assignment is a copy.
LEMMA AssignMaps ==
    ASSUME TreeInv, NEW m \in Models, NEW n \in Models, Assign(m, n)
    PROVE  Values!Copy(m, n)
<1>1. PICK plan : plan = CopyOf(heap, root[n])
  OBVIOUS
<1>2. /\ fate = "alive" /\ fate' = fate /\ m # n /\ HasTree(n) /\ ~TwoOwners(m)
      /\ Fits(Deleted(m), Len(plan))
      /\ heap' = Placed(Deleted(m), plan)
      /\ root' = [root EXCEPT ![m] = Last(Room(Deleted(m), Len(plan)))]
      /\ flat' = [flat EXCEPT ![m] = <<>>]
      /\ leaked' = leaked
  BY <1>1 DEF Assign, HasTree
<1>3. root[n] \in DOMAIN heap /\ Grounded(heap)
  BY <1>2, OwnedIsClosed DEF TreeInv
<1>4. Sound(plan)
  BY <1>1, <1>3, CopyIsSound
<1>5. PICK r : Turns(m, ToSet(r), Last(r), {}) /\ Mirrors(plan, heap', r)
  BY <1>2, <1>4, PutTurns DEF Sound
<1>6. Val' = [Val EXCEPT ![m] = [Val[n] EXCEPT !.odd = FALSE]]
  <2>1. Val' = [Val EXCEPT ![m] = ValueIn(plan, Len(plan))]
    BY <1>4, <1>5, PutValue
  <2>2. ValueIn(plan, Len(plan)) = [ValueIn(heap, root[n]) EXCEPT !.odd = FALSE]
    BY <1>1, <1>3, CopyValue
  <2>3. Val[n] = ValueIn(heap, root[n])
    BY <1>2, ValOf
  <2> QED
    BY <2>1, <2>2, <2>3
<1>7. Values!Becomes(m, [Val[n] EXCEPT !.odd = FALSE])
  <2>1. PICK v : v = [Val[n] EXCEPT !.odd = FALSE]
    OBVIOUS
  <2>2. Val' = [Val EXCEPT ![m] = v]
    BY <1>6, <2>1, Zenon
  <2>3. Values!Becomes(m, v)
    BY <1>2, <2>2, BecomesIs
  <2> QED
    BY <2>1, <2>3 DEF Values!Becomes
<1>8. Val[n] \notin {Absent, Null} /\ (Val[m] \notin {Absent, Null} => ~Val[m].odd)
  BY <1>2, ValOf
<1>9. Values!IsValue(Val[n]) /\ (Values!IsValue(Val[m]) => ~Val[m].odd)
  BY <1>8 DEF Values!IsValue
<1> QED
  BY <1>2, <1>7, <1>9 DEF Values!Copy, Val

\* The destructor takes the value away.
LEMMA DestroyMaps ==
    ASSUME TreeInv, NEW m \in Models, Destroy(m)
    PROVE  Values!Destroy(m)
<1>1. fate = "alive" /\ fate' = fate /\ root[m] # Absent /\ ~TwoOwners(m)
  BY DEF Destroy
<1>2. Val' = [Val EXCEPT ![m] = Absent]
  BY DestroyKeeps, TurnsValue
<1>3. Values!Becomes(m, Absent)
  BY <1>1, <1>2, BecomesIs
<1>4. Val[m] # Absent /\ (Values!IsValue(Val[m]) => ~Val[m].odd)
  BY <1>1, ValOf DEF Values!IsValue
<1> QED
  BY <1>3, <1>4 DEF Values!Destroy, Val

\* What a constructor that throws leaves behind is no value.
LEMMA ConstructThrowsMaps ==
    ASSUME TreeInv, NEW left \in Nat, ConstructThrows(left)
    PROVE  Val' = Val /\ fate' = fate
<1>1. root' = root /\ fate' = fate
  BY DEF ConstructThrows
<1>2. TreeInv' /\ \A i \in DOMAIN heap : i \in DOMAIN heap' /\ heap'[i] = heap[i]
  BY ConstructThrowsKeeps
<1>3. Grounded(heap')
  BY <1>2 DEF TreeInv
<1>4. \A n \in Models : Owned[n] \subseteq DOMAIN heap
  BY DeletedIs
<1>5. \A n \in Models : Val'[n] = Val[n]
  <2> TAKE n \in Models
  <2>1. root'[n] = root[n] /\ Owned[n] \subseteq DOMAIN heap' /\ \A i \in Owned[n] : heap'[i] = heap[i]
    BY <1>1, <1>2, <1>4
  <2> QED
    BY <1>3, <2>1, ValueStays
<1> QED
  BY <1>1, <1>5 DEF Val

\* A node with another step.
LEMMA NodeWithStep ==
    ASSUME NEW node \in Nodes, NEW step \in Steps
    PROVE  Bared([node EXCEPT !.step = step]) = [Bared(node) EXCEPT !.step = step]
<1>1. PICK o : o = [node EXCEPT !.step = step]
  OBVIOUS
<1>2. o.op = node.op /\ o.kids = node.kids /\ o.step = step
  BY <1>1 DEF Nodes
<1>3. PICK a, b, c : a = node.op /\ b = Len(node.kids) /\ c = node.step
  OBVIOUS
<1>4. PICK v, w : v = [op |-> a, kids |-> b, step |-> c] /\ w = [v EXCEPT !.step = step]
  OBVIOUS
<1>5. w = [op |-> a, kids |-> b, step |-> step]
  <2>1. v \in [op : {a}, kids : {b}, step : {c}]
    BY <1>4
  <2>2. w \in [op : {a}, kids : {b}, step : {step}]
    BY <1>4, <2>1
  <2> QED
    BY <2>2
<1>6. Bared(o) = w
  BY <1>2, <1>3, <1>5 DEF Bared
<1>7. Bared(node) = v
  BY <1>3, <1>4 DEF Bared
<1> QED
  BY <1>1, <1>4, <1>6, <1>7, Zenon

\* The step of an element changes wherever the tree has it, which is once
\* unless the circuit is odd.
LEMMA SetStepMaps ==
    ASSUME TreeInv, NEW m \in Models, NEW k, NEW step \in Steps, SetStep(m, k, step)
    PROVE  Values!SetStep(m)
<1>1. PICK at, top : at = FlatOf(m)[k] /\ top = root[m]
  OBVIOUS
<1>2. /\ HasTree(m) /\ fate = "alive" /\ fate' = fate
      /\ k \in DOMAIN FlatOf(m)
      /\ heap' = [heap EXCEPT ![at].step = step]
      /\ root' = root
  BY <1>1 DEF SetStep, HasTree
<1>3. at \in DOMAIN heap /\ at \in Owned[m] /\ IsLeaf(heap[at])
  BY <1>1, <1>2, FlatOfIs
<1>4. /\ DOMAIN heap' = DOMAIN heap /\ heap'[at] = [heap[at] EXCEPT !.step = step]
      /\ \A i \in DOMAIN heap \ {at} : heap'[i] = heap[i]
  BY <1>2, <1>3
<1>5. Grounded(heap) /\ Grounded(heap') /\ top \in DOMAIN heap
  <2>1. TreeInv'
    BY SetStepKeeps
  <2> QED
    BY <1>1, <1>2, <2>1, OwnedIsClosed DEF TreeInv
<1>6. \A i \in DOMAIN heap : /\ heap[i] \in Nodes
                             /\ heap'[i].kids = heap[i].kids /\ heap'[i].op = heap[i].op
  <2> TAKE i \in DOMAIN heap
  <2>1. heap[i] \in Nodes
    BY <1>5 DEF Grounded
  <2>2. /\ [heap[i] EXCEPT !.step = step].kids = heap[i].kids
        /\ [heap[i] EXCEPT !.step = step].op = heap[i].op
    BY <2>1 DEF Nodes
  <2> QED
    BY <1>4, <2>1, <2>2
<1>7. Kept({m})
  <2>1. Owned[m] \subseteq DOMAIN heap
    BY DeletedIs
  <2> QED
    BY <1>2, <1>4, <1>5, <1>6, <2>1, KeptIfAlike
<1>8. PICK s, d : s = Freed(heap, top) /\ d = OwnedTwice(heap, top)
  OBVIOUS
<1>9. Freed(heap', top) = s
  BY <1>1, <1>2, <1>7, <1>8 DEF Kept, Tree
<1>10. \A i \in DOMAIN s : s[i] \in DOMAIN heap
  <2>1. s \in Seq(DOMAIN heap)
    BY <1>5, <1>8, FreedAt
  <2> QED
    BY <2>1
<1>11. PICK j \in DOMAIN s : s[j] = at
  <2>1. at \in ToSet(s)
    BY <1>1, <1>2, <1>3, <1>8 DEF Owned, Tree
  <2> QED
    BY <2>1 DEF ToSet
<1>12. ~d => IsInjective(s)
  BY <1>5, <1>8, OddIsNotInjective
<1> DEFINE old == [i \in DOMAIN s |-> Bared(heap[s[i]])]
           new == [i \in DOMAIN s |-> Bared(heap'[s[i]])]
           same == IF d THEN {i \in DOMAIN s : s[i] = at} ELSE {}
<1>13. Val[m] = [odd |-> d, nodes |-> old]
  BY <1>1, <1>2, <1>8, ValueInIs DEF Val
<1>14. Val'[m] = [odd |-> d, nodes |-> new]
  <2>1. OwnedTwice(heap', top) = d
    BY <1>8, <1>9 DEF OwnedTwice
  <2>2. Val'[m] = ValueIn(heap', top)
    BY <1>1, <1>2 DEF Val, HasTree
  <2>3. ValueIn(heap', top) = [odd |-> OwnedTwice(heap', top),
                               nodes |-> [i \in DOMAIN Freed(heap', top) |-> Bared(heap'[Freed(heap', top)[i]])]]
    BY ValueInIs
  <2> QED
    BY <1>9, <2>1, <2>2, <2>3
<1>15. \A i \in DOMAIN s : s[i] = at => old[i].kids = 0
  <2>1. Len(heap[at].kids) = 0
    BY <1>3, <1>6 DEF Nodes
  <2> QED
    BY <2>1 DEF Bared
<1>16. \A i \in DOMAIN s : s[i] = at <=> i = j \/ (i \in same /\ old[i].kids = 0)
  BY <1>11, <1>12, <1>15 DEF IsInjective
<1>17. \A i \in DOMAIN s : new[i] = IF s[i] = at THEN [old[i] EXCEPT !.step = step] ELSE old[i]
  <2>1. Bared(heap'[at]) = [Bared(heap[at]) EXCEPT !.step = step]
    BY <1>3, <1>4, <1>6, NodeWithStep
  <2> QED
    BY <1>4, <1>10, <2>1
<1>18. DOMAIN old = DOMAIN s /\ new = [i \in DOMAIN s |-> new[i]]
  OBVIOUS
<1> HIDE DEF old, new, same
<1>19. new = Values!WithStep(old, j, same, step)
  BY <1>16, <1>17, <1>18 DEF Values!WithStep
<1>20. \A n \in Models \ {m} : Val'[n] = Val[n]
  <2> TAKE n \in Models \ {m}
  <2>1. Owned[n] \cap Owned[m] = {} /\ Owned[n] \subseteq DOMAIN heap
    BY DeletedIs, OwnedIsSplit DEF Split, TreeInv
  <2>2. root'[n] = root[n] /\ Owned[n] \subseteq DOMAIN heap' /\ \A i \in Owned[n] : heap'[i] = heap[i]
    BY <1>2, <1>3, <1>4, <2>1
  <2> QED
    BY <1>5, <2>2, ValueStays
<1>21. Val' = [Val EXCEPT ![m] = [odd |-> d, nodes |-> new]]
  <2>1. DOMAIN Val = Models /\ DOMAIN Val' = Models /\ Val' = [n \in Models |-> Val'[n]]
    BY DEF Val
  <2>2. PICK v, w : v = Val /\ w = Val'
    OBVIOUS
  <2>3. w = [v EXCEPT ![m] = [odd |-> d, nodes |-> new]]
    BY <1>14, <1>20, <2>1, <2>2
  <2> QED
    BY <2>2, <2>3
<1>22. Values!IsValue(Val[m])
  BY <1>2, ValOf DEF Values!IsValue
<1>23. PICK u : u = Val[m]
  OBVIOUS
<1>24. u.nodes = old /\ u.odd = d /\ u \in [odd : {d}, nodes : {old}]
  BY <1>13, <1>23
<1>25. [u EXCEPT !.nodes = Values!WithStep(@, j, same, step)] = [odd |-> d, nodes |-> new]
  <2>1. PICK w : w = [u EXCEPT !.nodes = new]
    OBVIOUS
  <2>2. w \in [odd : {d}, nodes : {new}]
    BY <1>24, <2>1
  <2>3. w = [odd |-> d, nodes |-> new]
    BY <2>2
  <2> QED
    BY <1>19, <1>24, <2>1, <2>3
<1>26. j \in DOMAIN u.nodes /\ u.nodes[j].kids = 0 /\ same \in IF u.odd THEN SUBSET DOMAIN u.nodes ELSE {{}}
  BY <1>11, <1>15, <1>18, <1>24 DEF same
<1>27. Val' = [Val EXCEPT ![m] = [u EXCEPT !.nodes = Values!WithStep(@, j, same, step)]]
  BY <1>21, <1>25
<1>28. \E i \in DOMAIN u.nodes, t \in Steps, e \in IF u.odd THEN SUBSET DOMAIN u.nodes ELSE {{}} :
         /\ u.nodes[i].kids = 0
         /\ Val' = [Val EXCEPT ![m] = [u EXCEPT !.nodes = Values!WithStep(@, i, e, t)]]
  BY <1>26, <1>27, Zenon
<1>29. \E i \in DOMAIN Val[m].nodes, t \in Steps,
          e \in IF Val[m].odd THEN SUBSET DOMAIN Val[m].nodes ELSE {{}} :
         /\ Val[m].nodes[i].kids = 0
         /\ fate = "alive"
         /\ Val' = [Val EXCEPT ![m] = [Val[m] EXCEPT !.nodes = Values!WithStep(@, i, e, t)]]
         /\ UNCHANGED fate
  BY <1>2, <1>23, <1>28, Zenon
<1> QED
  BY <1>22, <1>29, Zenon DEF Values!SetStep, Values!Becomes, Val

\* Where the models are as they were their values are, too.
LEMMA ValuesUnchanged ==
    heap' = heap /\ root' = root => Val' = Val
<1> SUFFICES ASSUME heap' = heap, root' = root
             PROVE  Val' = Val
  OBVIOUS
<1>1. \A m \in Models : Val'[m] = Val[m]
  <2> TAKE m \in Models
  <2>1. HasTree(m)' = HasTree(m)
    BY DEF HasTree
  <2> QED
    BY <2>1 DEF Val
<1> QED
  BY <1>1 DEF Val

\* The application dies of what ModelValues says it may die of.
LEMMA DeathMaps ==
    ASSUME TreeInv, NEW m \in Models,
           \/ AssignSelf(m) \/ DeleteTwice(m) \/ UseNull(m)
           \/ \E n \in Models : AssignNull(n, m)
    PROVE  Values!Die(m)
<1>1. fate = "alive" /\ heap' = heap /\ root' = root
  BY DEF AssignSelf, DeleteTwice, UseNull, AssignNull, DiesOf
<1>2. Val' = Val
  BY <1>1, ValuesUnchanged
<1>3. \/ root[m] # Absent /\ fate' = "assigned to itself"
      \/ root[m] = Null /\ fate' = "no circuit"
      \/ TwoOwners(m) /\ fate' = "two owners"
  BY DEF AssignSelf, DeleteTwice, UseNull, AssignNull, DiesOf
<1>4. root[m] # Absent => Val[m] # Absent
  BY ValOf
<1>5. root[m] = Null => Val[m] = Null
  BY ValOf DEF HasTree
<1>6. TwoOwners(m) => Values!IsValue(Val[m]) /\ Val[m].odd
  BY ValOf DEF Values!IsValue
<1>7. \/ Val[m] # Absent /\ fate' = "assigned to itself"
      \/ Val[m] = Null /\ fate' = "no circuit"
      \/ Values!IsValue(Val[m]) /\ Val[m].odd /\ fate' = "two owners"
  BY <1>3, <1>4, <1>5, <1>6
<1> QED
  BY <1>1, <1>2, <1>7, Zenon DEF Values!Die, Val

\* Each step is one of values, or one they do not see.
LEMMA NextMaps ==
    TreeInv /\ [Next]_vars => [Values!Next]_<<Val, fate>>
<1> SUFFICES ASSUME TreeInv, [Next]_vars
             PROVE  Values!Next \/ (Val' = Val /\ fate' = fate)
  OBVIOUS
<1>1. CASE UNCHANGED vars
  BY <1>1, ValuesUnchanged DEF vars
<1>2. ASSUME NEW m \in Models, NEW plan \in Plans, Construct(m, plan)
      PROVE  Values!Next
  BY <1>2, ConstructMaps DEF Values!Next
<1>3. ASSUME NEW m \in Models, NEW left \in 0..MaxLeaked, ConstructNull(m, left)
      PROVE  Values!Next
  BY <1>3, ConstructNullMaps, PlacesAssumption DEF Values!Next
<1>4. ASSUME NEW left \in 1..MaxLeaked, ConstructThrows(left)
      PROVE  Val' = Val /\ fate' = fate
  BY <1>4, ConstructThrowsMaps, PlacesAssumption
<1>5. ASSUME NEW m \in Models, NEW n \in Models, Assign(m, n)
      PROVE  Values!Next
  BY <1>5, AssignMaps DEF Values!Next
<1>6. ASSUME NEW m \in Models, NEW n \in Models, AssignNull(m, n)
      PROVE  Values!Next
  BY <1>6, DeathMaps DEF Values!Next
<1>7. ASSUME NEW m \in Models, AssignSelf(m) \/ DeleteTwice(m) \/ UseNull(m)
      PROVE  Values!Next
  BY <1>7, DeathMaps DEF Values!Next
<1>8. ASSUME NEW m \in Models, Destroy(m)
      PROVE  Values!Next
  BY <1>8, DestroyMaps DEF Values!Next
<1>9. ASSUME NEW m \in Models, NEW k \in 1..Places, NEW step \in Steps, SetStep(m, k, step)
      PROVE  Values!Next
  BY <1>9, SetStepMaps DEF Values!Next
<1> QED
  BY <1>1, <1>2, <1>3, <1>4, <1>5, <1>6, <1>7, <1>8, <1>9 DEF Next

\* Trees on the heap, whoever shares, copies, assigns and frees them, are values
\* to the application.
THEOREM ModelsAreValues == Spec => ImplementsValues
<1>1. Init => Values!Init
  <2> SUFFICES ASSUME Init
               PROVE  Values!Init
    OBVIOUS
  <2>1. fate = "alive" /\ \A m \in Models : root[m] = Absent /\ ~HasTree(m)
    BY DEF Init, HasTree
  <2>2. Val = [m \in Models |-> Absent]
    BY <2>1 DEF Val
  <2> QED
    BY <2>1, <2>2, Zenon DEF Values!Init, Val
<1>2. TreeInv /\ [Next]_vars =>
        [Values!Next]_<<[m \in Models |-> IF HasTree(m) THEN ValueIn(heap, root[m]) ELSE root[m]], fate>>
  BY NextMaps, Zenon DEF Val
<1> QED
  BY <1>1, <1>2, TreesStayWhole, PTL DEF Spec, ImplementsValues, Values!Spec
===============================================================================
