-------------------------------- MODULE Spectra --------------------------------
(***************************************************************************)
(* src/basicmath.cpp, src/normalize.cpp and src/linearregession.cpp: what  *)
(* is done to a spectrum after it has been computed.  Here a spectrum is a *)
(* sequence of points with an omega and one part of an impedance, real or  *)
(* imaginary; the other is 0.  The parts are treated alike everywhere but  *)
(* in normalize.  Indices count from 0, as in the source.  A read or an    *)
(* erase outside of the vector has no defined result; it is kept apart as  *)
(* Outside.                                                                *)
(***************************************************************************)
EXTENDS Fvalue, FiniteSets, SequencesExt

CONSTANTS
    Inputs,         \* the spectra to begin with
    Frequencies,    \* sequences of omegas to fit to
    Sizes,          \* sizes to rescale to
    Factors,        \* gradThreshFactor
    Tiny,           \* the threshold of the second derivative, with a factor of 1
    Coarseness,     \* the numbers around x are x/Coarseness apart
    Refused         \* std::invalid_argument

\* No sequence: its one index lies before the first.
Outside == [index \in {0} |-> Nan]

Points == [omega : Finites, im : Fvalues]
ASSUME InputsAssumption ==
    /\ Inputs \subseteq Seq(Points)
    /\ \A omegas \in Frequencies : omegas \in Seq({Whole(10 ^ e) : e \in 0..9})
    /\ Sizes \subseteq Nat /\ Coarseness \in Nat
    /\ Factors \subseteq Finites /\ Tiny \in Finites /\ Tiny[1] > 0

Point(omega, im) == [omega |-> omega, im |-> im]
Size(data) == Len(data)
At(data, i) == data[i + 1]
Indices(data) == 0..(Size(data) - 1)
Impedances(data) == [k \in DOMAIN data |-> data[k].im]

GradIndex(n, i) == IF i = 0 THEN 1 ELSE IF i > n - 2 THEN n - 2 ELSE i

Slope(at(_), omega(_), n, i) ==
    LET k == GradIndex(n, i)
    IN  Over(Difference(at(k + 1), at(k - 1)), Difference(omega(k + 1), omega(k - 1)))

AbsGrad(data, i) ==
    IF Size(data) < 3 THEN Whole(1)
    ELSE LET im(k) == At(data, k).im
             omega(k) == At(data, k).omega
         IN  Magnitude(Slope(im, omega, Size(data), i))

FvalueEq(a, b) ==
    ~Less(Magnitude(Plus(a, b)), Times(Magnitude(Difference(a, b)), Whole(Coarseness)))

\* The orders std::sort may leave what has these keys in: next is any that none
\* of the rest is before, as nothing is said of equal keys.
Orders(keys) ==
    LET rest(order) == DOMAIN keys \ ToSet(order)
        next(order) == {k \in rest(order) : \A l \in rest(order) : ~Less(keys[l], keys[k])}
        orders[n \in 0..Len(keys)] ==
          IF n = 0 THEN {<<>>}
          ELSE UNION {{Append(order, k) : k \in next(order)} : order \in orders[n - 1]}
    IN  orders[Len(keys)]

\* What it puts at a place: fewer are less, enough are not more.
Ranked(values, place) ==
    CHOOSE x \in ToSet(values) :
      /\ Cardinality({k \in DOMAIN values : Less(values[k], x)}) < place
      /\ place <= Cardinality({k \in DOMAIN values : ~Less(x, values[k])})

Median(values) ==
    LET n == Len(values)
    IN  IF n = 0 THEN Whole(0)
        ELSE IF n % 2 = 0 THEN Middle(Ranked(values, n \div 2), Ranked(values, n \div 2 + 1))
        ELSE Ranked(values, n \div 2 + 1)

-------------------------------------------------------------------------------
(***************************************************************************)
(* normalize.cpp                                                           *)
(***************************************************************************)
Steep(data, i) == Less(Whole(10), AbsGrad(data, i))

\* The walks away from a singular point, which stop one short of the ends.
LeftOf(data, i) ==
    CHOOSE k \in 0..(i - 1) :
      /\ k <= 1 \/ ~Steep(data, k)
      /\ \A l \in (k + 1)..(i - 1) : l > 1 /\ Steep(data, l)

\* Variant: it walks to the end.
RightOf_ToEnd(data, i) ==
    CHOOSE k \in (i + 1)..Size(data) :
      /\ k >= Size(data) \/ ~Steep(data, k)
      /\ \A l \in (i + 1)..(k - 1) : Steep(data, l)

RightOf(data, i) ==
    CHOOSE k \in (i + 1)..Size(data) :
      /\ k >= Size(data) - 2 \/ ~Steep(data, k)
      /\ \A l \in (i + 1)..(k - 1) : l < Size(data) - 2 /\ Steep(data, l)

\* Variant: the points from the singular one on are left alone.
EraseSingularity_UpToIt(data, i) ==
    LET left == LeftOf(data, i)
        right == RightOf(data, i)
        mean == Middle(At(data, left).im, At(data, right).im)
    IN  IF i = 0 \/ right = Size(data) THEN Outside
        ELSE [k \in DOMAIN data |->
                IF k - 1 \in left..(i - 1) THEN Point(data[k].omega, mean) ELSE data[k]]

EraseSingularity(data, i) ==
    LET left == LeftOf(data, i)
        right == RightOf(data, i)
        mean == Middle(At(data, left).im, At(data, right).im)
    IN  IF i = 0 \/ right = Size(data) THEN Outside
        ELSE [k \in DOMAIN data |->
                IF k - 1 \in left..(right - 1) THEN Point(data[k].omega, mean)
                ELSE data[k]]

EraseSingularites(data) ==
    LET after[i \in 0..Size(data)] ==
          IF i = 0 THEN data
          ELSE IF after[i - 1] = Outside \/ Finite(At(after[i - 1], i - 1).im)
               THEN after[i - 1]
          ELSE EraseSingularity(after[i - 1], i - 1)
    IN  after[Size(data)]

Largest(S) == CHOOSE x \in S : \A y \in S : ~Less(x, y)
Smallest(S) == CHOOSE x \in S : \A y \in S : ~Less(y, x)

Parts == {"real", "imaginary"}

\* Variant: the real part is not shifted either.
Base_Zero(values, part) == Whole(0)

\* What is taken from each value: the imaginary part is not shifted.
Base(values, part) == IF part = "real" THEN Smallest(values) ELSE Whole(0)

\* What is not a number loses every comparison, and stays as it is.
Normalize(data, part) ==
    LET values == ToSet(Impedances(data)) \ {Nan}
        max == Largest({Magnitude(x) : x \in values})
        base == Base(values, part)
        range == IF Same(max, base) THEN Whole(1) ELSE Difference(max, base)
    IN  IF values = {} THEN data
        ELSE [k \in DOMAIN data |->
                Point(data[k].omega, Over(Difference(data[k].im, base), range))]

\* The second derivative replaces the first in place: at i it is taken from
\* what has already been replaced at i - 1.
Grads(data, second) ==
    LET n == Size(data)
        first == [i \in Indices(data) |-> AbsGrad(data, i)]
        omega(k) == At(data, k).omega
        after[i \in 0..n] ==
          IF i = 0 THEN first
          ELSE LET grad(k) == after[i - 1][k]
               IN  [after[i - 1] EXCEPT ![i - 1] = Magnitude(Slope(grad, omega, n, i - 1))]
    IN  IF second THEN after[n] ELSE first

Threshold(grads, second, factor) ==
    IF second THEN Times(Tiny, factor)
    ELSE Times(Median([k \in 1..Cardinality(DOMAIN grads) |-> grads[k - 1]]), factor)

Below(grads, second, factor) ==
    {i \in DOMAIN grads : Less(grads[i], Threshold(grads, second, factor))}

\* Variant: a front that is below the threshold is erased with the point after it.
RegionStart_AndNext(n, below) ==
    IF 1 \notin below THEN 0
    ELSE CHOOSE i \in 2..(n - 1) : 1..(i - 1) \subseteq below /\ (i = n - 1 \/ i \notin below)

\* The leading and the trailing run of indices below the threshold.
RegionStart(n, below) ==
    CHOOSE i \in 0..(n - 2) : 1..i \subseteq below /\ (i = n - 2 \/ i + 1 \notin below)

RegionEnd(n, below) ==
    IF n - 1 \notin below THEN n - 1
    ELSE CHOOSE i \in 2..(n - 1) :
           i..(n - 1) \subseteq below /\ (i = 2 \/ i - 1 \notin below)

ReduceRegion(data, part, second, factor) ==
    LET n == Size(data)
        normalized == Normalize(data, part)
        below == Below(Grads(normalized, second), second, factor)
        start == RegionStart(n, below)
        end == RegionEnd(n, below)
    IN  IF n < 3 THEN data
        ELSE IF end + 1 < start THEN Outside
        ELSE SubSeq(normalized, start + 1, end + 1)

-------------------------------------------------------------------------------
(***************************************************************************)
(* basicmath.cpp: resampling                                               *)
(***************************************************************************)
\* Variant: as many steps as points, which does not reach the end.
Position_ShortOfEnd(n, size, i) == Over(Whole((n - 1) * i), Whole(size))

Position(n, size, i) == Over(Whole((n - 1) * i), Whole(size - 1))

\* The results there may be.  To one point the position is 0/0, and undefined
\* as an index: the last point is taken, or one that is not a number.
Rescale(data, size) ==
    LET n == Size(data)
        mix(a, b, frac) == Plus(Times(a, Difference(Whole(1), frac)), Times(b, frac))
        point(i) ==
          LET position == Position(n, size, i)
              source == position[1] \div position[2]
              frac == Difference(position, Whole(source))
              a == At(data, source)
              b == At(data, source + 1)
          IN  IF source >= n - 1 THEN At(data, n - 1)
              ELSE Point(mix(a.omega, b.omega, frac), mix(a.im, b.im, frac))
    IN  IF size = 0 THEN {<<>>}
        ELSE IF n = 0 THEN {Outside}
        ELSE IF size = 1 THEN {<<At(data, n - 1)>>, <<Point(Nan, Nan)>>}
        ELSE {[k \in 1..size |-> point(k - 1)]}

Sorted(data) ==
    {[k \in DOMAIN data |-> data[order[k]]] :
       order \in Orders([k \in DOMAIN data |-> data[k].omega])}

\* Variant: only neighbours in the input are compared.
WithoutDuplicates_OnePass(data) ==
    LET keep == {k \in DOMAIN data :
                   k % 2 = 1 \/ ~FvalueEq(data[k].omega, data[k - 1].omega)}
        order == SetToSortSeq(keep, <)
    IN  [k \in DOMAIN order |-> data[order[k]]]

\* The first of two equal neighbours is erased, until there are none.
WithoutDuplicates(data) ==
    LET equal(d) == {k \in 1..(Len(d) - 1) : FvalueEq(d[k].omega, d[k + 1].omega)}
        after[erased \in 0..Len(data)] ==
          IF erased = 0 THEN data
          ELSE LET d == after[erased - 1]
               IN  IF equal(d) = {} THEN d
                   ELSE RemoveAt(d, CHOOSE k \in equal(d) : \A l \in equal(d) : k <= l)
    IN  after[Len(data)]

RemoveDuplicates(data) == {WithoutDuplicates(d) : d \in Sorted(data)}

\* Variant: the last point on the right is taken, as in sorted data on the left.
LrClosest_LastRight(data, omega) ==
    LET left == {k \in DOMAIN data : Less(data[k].omega, omega)}
        right == {k \in DOMAIN data : Less(omega, data[k].omega)}
        equal == {k \in DOMAIN data : FvalueEq(data[k].omega, omega)}
        last(side) == IF side = {} THEN 0 ELSE CHOOSE k \in side : \A l \in side : k >= l
    IN  IF equal # {} THEN <<last(equal), last(equal)>> ELSE <<last(left), last(right)>>

\* The nearest point on either side, or the first that has the omega for both;
\* 0 where there is none.
LrClosest(data, omega) ==
    LET equal == {k \in DOMAIN data : FvalueEq(data[k].omega, omega)}
        dist(k) == Magnitude(Difference(data[k].omega, omega))
        nearest(side) ==
          IF side = {} THEN 0
          ELSE CHOOSE k \in side :
                 \A l \in side : ~Less(dist(l), dist(k)) /\ (l < k => Less(dist(k), dist(l)))
        first == CHOOSE k \in equal : \A l \in equal : k <= l
    IN  IF equal # {} THEN <<first, first>>
        ELSE <<nearest({k \in DOMAIN data : Less(data[k].omega, omega)}),
               nearest({k \in DOMAIN data : Less(omega, data[k].omega)})>>

LinearInterpolatePoint(omega, left, right) ==
    LET slope == Over(Difference(right.im, left.im), Difference(right.omega, left.omega))
    IN  Point(omega, Plus(left.im, Times(slope, Difference(omega, left.omega))))

\* Omegas to extrapolate to and from are powers of 10.
Log10(omega) == Whole(CHOOSE k \in 0..9 : Whole(10 ^ k) = omega)

Sum(values) ==
    LET sum[k \in 0..Len(values)] ==
          IF k = 0 THEN Whole(0) ELSE Plus(sum[k - 1], values[k])
    IN  sum[Len(values)]

\* The line through the points, or Refused when its standard error is above 3.
Regression(xs, ys) ==
    LET n == Whole(Len(xs))
        products(a, b) == Sum([k \in DOMAIN a |-> Times(a[k], b[k])])
        moment(a, b) ==             \* n times the sum less the product of the sums
          Difference(Times(n, products(a, b)), Times(Sum(a), Sum(b)))
        slope == Over(moment(xs, ys), moment(xs, xs))
        offset == Over(Difference(Sum(ys), Times(slope, Sum(xs))), n)
        error == Over(Difference(moment(ys, ys), Times(Times(slope, slope), moment(xs, xs))),
                      Times(n, Difference(n, Whole(2))))
        stdErrorSq == Over(Times(Times(error, error), n), moment(xs, xs))
    IN  IF Less(Whole(9), stdErrorSq) THEN Refused
        ELSE [slope |-> slope, offset |-> offset]

OnLine(omega, line) ==
    IF line = Refused THEN Refused
    ELSE Point(omega, Plus(Times(line.slope, Log10(omega)), line.offset))

\* From the nearest six points, or from all.
LinearExtrapoloatePoint(omega, data) ==
    LET n == IF Size(data) < 6 THEN Size(data) ELSE 6
        xs(order) == [k \in 1..n |-> Log10(data[order[k]].omega)]
        ys(order) == [k \in 1..n |-> data[order[k]].im]
        dists == [k \in DOMAIN data |-> Magnitude(Difference(data[k].omega, omega))]
    IN  IF Size(data) < 3 THEN {Refused}
        ELSE {OnLine(omega, Regression(xs(order), ys(order))) : order \in Orders(dists)}

UnlessRefused(point, end) == IF point = Refused THEN end ELSE point

FitBetween(omega, data, lr, linearExtrapolation) ==
    LET end == Point(omega, data[IF lr[1] = 0 THEN lr[2] ELSE lr[1]].im)
    IN  IF lr[1] = lr[2] THEN {Point(omega, data[lr[1]].im)}
        ELSE IF 0 \notin {lr[1], lr[2]}
             THEN {LinearInterpolatePoint(omega, data[lr[1]], data[lr[2]])}
        ELSE IF ~linearExtrapolation THEN {end}
        ELSE {UnlessRefused(point, end) : point \in LinearExtrapoloatePoint(omega, data)}

FitPoint(omega, data, linearExtrapolation) ==
    FitBetween(omega, data, LrClosest(data, omega), linearExtrapolation)

FitToFrequencies(omegas, data, linearExtrapolation) ==
    LET fits == [k \in DOMAIN omegas |-> FitPoint(omegas[k], data, linearExtrapolation)]
    IN  IF data = <<>> /\ omegas # <<>> THEN {Outside}
        ELSE {out \in [DOMAIN omegas -> UNION Range(fits)] :
                \A k \in DOMAIN omegas : out[k] \in fits[k]}

-------------------------------------------------------------------------------
VARIABLES
    data,       \* the spectrum, or Outside
    before,     \* what it was before the call
    call        \* the call that was made

vars == <<data, before, call>>

Init ==
    /\ data \in Inputs
    /\ before = data
    /\ call = [fn |-> "none", with |-> <<>>]

Call(fn, with, results) ==
    /\ call.fn = "none"
    /\ before' = data
    /\ call' = [fn |-> fn, with |-> with]
    /\ data' \in results

AllFinite == \A k \in DOMAIN data : Finite(data[k].im)

CallEraseSingularites == Call("eraseSingularites", <<>>, {EraseSingularites(data)})

CallNormalize ==
    \E part \in Parts : Call("normalize", [part |-> part], {Normalize(data, part)})

\* The sort of the gradients has no defined order when some are not a number,
\* and others are.
CallReduceRegion ==
    /\ call.fn = "none" /\ AllFinite
    /\ \E part \in Parts, second \in BOOLEAN, factor \in Factors :
         /\ second \/ LET grads == ToSet(Grads(Normalize(data, part), FALSE))
                      IN  Nan \in grads => grads = {Nan}
         /\ Call("reduceRegion", [part |-> part, second |-> second, factor |-> factor],
                 {ReduceRegion(data, part, second, factor)})

CallRemoveDuplicates == Call("removeDuplicates", <<>>, RemoveDuplicates(data))

CallRescale == \E size \in Sizes : Call("rescale", size, Rescale(data, size))

\* Interpolation is linear in omega, extrapolation in its logarithm.
CallFit ==
    /\ call.fn = "none" /\ \A k \in DOMAIN data : \E e \in 0..9 : data[k].omega = Whole(10 ^ e)
    /\ \E omegas \in Frequencies, linear \in BOOLEAN :
         Call("fitToFrequencies", [omegas |-> omegas, linear |-> linear],
              FitToFrequencies(omegas, data, linear))

Next ==
    \/ CallEraseSingularites \/ CallNormalize \/ CallReduceRegion
    \/ CallRemoveDuplicates \/ CallRescale \/ CallFit

Spec == Init /\ [][Next]_vars
===============================================================================
