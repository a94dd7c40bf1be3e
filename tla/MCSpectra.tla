------------------------------- MODULE MCSpectra -------------------------------
(***************************************************************************)
(* Short spectra over few values.  Steps of 1 and 300 are on either side   *)
(* of the thresholds, on a linear axis; two omegas in a row are equal or   *)
(* nearly so; the decades are in any order, for the fit.                   *)
(***************************************************************************)
EXTENDS SpectraProps

Over1(n, values) ==
    {[k \in 1..n |-> Point(Whole(k), s[k])] : s \in [1..n -> values]}

Steps == UNION {Over1(n, {Whole(-1), Whole(0), Whole(300)}) : n \in 0..5}
Ramps == Over1(6, {Whole(0), Whole(1), Whole(3)})
Singulars == UNION {Over1(n, {Whole(0), Whole(64), Nan, Inf}) : n \in 3..6}

Nears ==
    {[k \in 1..4 |-> Point(o[k], Whole(k))] :
       o \in [1..4 -> {Whole(80), Whole(84), Whole(88)}]}

Decades ==
    UNION {{[k \in 1..n |-> Point(o[k], s[k])] :
              o \in [1..n -> {Whole(1), Whole(10), Whole(1000)}],
              s \in [1..n -> {Whole(0), Whole(4)}]} : n \in 1..3}

\* Six of seven are the nearest to whatever lies outside.
Longs ==
    {[k \in 1..7 |-> Point(Whole(10 ^ (k \div 3)), s[k])] :
       s \in {[k \in 1..7 |-> Whole(4)], [k \in 1..7 |-> Whole(k \div 2)]}}

\* On a line over the logarithm.
Line == {[k \in 1..3 |-> Point(Whole(10 ^ (k - 1)), Whole(k))]}

MCInputs == Steps \cup Ramps \cup Singulars \cup Nears \cup Decades \cup Longs \cup Line
\* 1e-12 is below every second derivative of these but 0, as is a 10000th.
MCTiny == <<1, 10000>>
MCFactors == {<<1, 100>>, Whole(1), Whole(2)}
MCFrequencies == {<<>>, <<Whole(1), Whole(100), Whole(10000)>>}
================================================================================
