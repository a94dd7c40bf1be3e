----------------------------- MODULE SpectraProps -----------------------------
(***************************************************************************)
(* What the functions on spectra promise.                                  *)
(***************************************************************************)
EXTENDS Spectra, FiniteSetsExt

Singular(d) == {i \in Indices(d) : ~Finite(At(d, i).im)}

\* The points reduceRegion finds below the threshold.
FlatPoints(d, with) ==
    Below(Grads(Normalize(d, with.part), with.second), with.second, with.factor)

\* The index arithmetic leaves the vector only for these: a singular point at
\* an end; 6 points or more that are all below the threshold from the second
\* on, which the first derivative never is of a factor up to 1, as not all are
\* below the median; and no points at all (eraseSingularites, reduceRegion,
\* fitToFrequencies, rescale).
OnlyTheseReadOutside ==
    data = Outside =>
      \/ call.fn = "eraseSingularites"
         /\ Singular(before) \cap {0, Size(before) - 1} # {}
      \/ /\ call.fn = "reduceRegion"
         /\ Size(before) >= 6
         /\ 1..(Size(before) - 1) \subseteq FlatPoints(before, call.with)
         /\ call.with.second \/ Less(Whole(1), call.with.factor)
      \/ call.fn \in {"fitToFrequencies", "rescale"} /\ before = <<>>

Hull(d, x) ==
    \E y, z \in {v \in ToSet(Impedances(d)) : Finite(v)} : ~Less(x, y) /\ ~Less(z, x)

\* Infinite values do not spread, and what is not a number goes if it has
\* numbers for neighbours; what comes instead lies between other values
\* (eraseSingularites walks from each singular point to where it is flat).
SingularitiesErased ==
    call.fn = "eraseSingularites" /\ data # Outside
    /\ (\/ Cardinality(Singular(before)) = 1
        \/ \A i \in Singular(before) :
             At(before, i).im = Nan /\ i + 1 \notin Singular(before))
      => \A i \in Indices(data) :
           /\ Finite(At(data, i).im) /\ Hull(before, At(data, i).im)
           /\ At(data, i).omega = At(before, i).omega

\* What is left is the normalized spectrum, a real part in 0 to 1 and an
\* imaginary one in -1 to 1 (src/eisgenerator/normalize.h:38 says "[0,1]"), from one point before the first inner point above
\* the threshold to one after the last; and without such a point it is the
\* second derivative or a factor above 1 (reduceRegion erases the front first,
\* and then an end that has moved).
RegionIsTheSteepPoints ==
    call.fn = "reduceRegion" /\ data # Outside /\ Size(before) >= 3 =>
      LET all == Normalize(before, call.with.part)
          steep == (1..(Size(before) - 2)) \ FlatPoints(before, call.with)
          least == IF call.with.part = "real" THEN Whole(0) ELSE Whole(-1)
      IN  /\ steep # {} => data = SubSeq(all, Min(steep), Max(steep) + 2)
          /\ steep = {} => call.with.second \/ Less(Whole(1), call.with.factor)
          /\ \A p \in ToSet(data) : ~Less(p.im, least) /\ ~Less(Whole(1), p.im)

\* Omegas come out in order with none twice, each with an impedance it had;
\* none is lost but in a chain, where equality is not transitive
\* (removeDuplicates, fvalueEq).
DuplicatesRemoved ==
    call.fn = "removeDuplicates" =>
      LET eq(p, q) == FvalueEq(p.omega, q.omega)
          olds == ToSet(before)
      IN  /\ ToSet(data) \subseteq olds
          /\ \A k \in 2..Len(data) : Less(data[k - 1].omega, data[k].omega)
          /\ \A k \in 2..Len(data) : ~eq(data[k - 1], data[k])
          /\ (\A p, q, r \in olds : eq(p, q) /\ eq(q, r) => eq(p, r))
               => \A p \in olds : \E q \in ToSet(data) : eq(p, q)

\* What comes between points is between their impedances, and the ends stay
\* (rescale walks over the indices with fractions of them as weights).
RescaledBetweenPoints ==
    call.fn = "rescale" /\ data # Outside /\ call.with > 1 /\ Singular(before) = {} =>
      /\ \A p \in ToSet(data) : Hull(before, p.im)
      /\ Same(data[1].im, before[1].im) /\ data[call.with] = Last(before)

\* One impedance; six points at one omega, or all, have no slope.
Constant(d) ==
    /\ \A k, l \in DOMAIN d : d[k].im = d[l].im
    /\ \A k \in DOMAIN d :
         LET there == Cardinality({l \in DOMAIN d : d[l].omega = d[k].omega})
         IN  there < 6 /\ there < Len(d)

\* A point that is fitted has the impedance of one close by or lies between
\* those next to it on either side; a constant spectrum goes on as it is; and
\* unless linearExtrapolation is set what lies beyond the points is the end of
\* them, where src/eisgenerator/basicmath.h:178 announces "base 10 logarithmic
\* extrapolation" (getLrClosest takes points in any order; fitToFrequencies
\* chooses between lines and ends).
FittedBetweenPoints ==
    call.fn = "fitToFrequencies" /\ data # Outside /\ Singular(before) = {} =>
      \A p \in ToSet(data) :
        LET points == ToSet(before)
            close == {q \in points : FvalueEq(q.omega, p.omega)}
            below == {q \in points : ~Less(p.omega, q.omega)}
            above == {q \in points : ~Less(q.omega, p.omega)}
            lows == {q \in below : \A r \in below : ~Less(q.omega, r.omega)}
            highs == {q \in above : \A r \in above : ~Less(r.omega, q.omega)}
            ends == IF close # {} THEN close ELSE lows \cup highs
        IN  /\ \/ close # {} \/ (below # {} /\ above # {})
               \/ ~call.with.linear \/ Len(before) < 3
                 => \E q, r \in ends : ~Less(p.im, q.im) /\ ~Less(r.im, p.im)
            /\ Constant(before) => Same(p.im, before[1].im)

\* Neither of the two that resample leaves the points there are.
ResampledBetweenPoints == RescaledBetweenPoints /\ FittedBetweenPoints

\* src/eisgenerator/normalize.h:50 says of reduceRegion: "@return The reduced
\* data."
DocReduced == call.fn = "reduceRegion" => data # Outside
===============================================================================
