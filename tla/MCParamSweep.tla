---------------------------- MODULE MCParamSweep ----------------------------
(***************************************************************************)
(* A model of two elements, "rp": the resistor r has one parameter, the    *)
(* constant phase element p has two.                                       *)
(***************************************************************************)
EXTENDS ParamSweepProps

CONSTANTS r, p

MCComponants == {r, p}
MCOwner == [i \in 1..3 |-> IF i = 1 THEN r ELSE p]

\* The word has 7 bits.  The products of the small counts fit; 8 * 16 wraps
\* to 0, also as a place magnitude, and 5 * 5 * 8 and others wrap to something
\* else.  64 is the first total for which pow() falls short.
MCCounts == {0, 1, 2, 3, 5, 8, 16}
MCTotals == {0, 1, 2, 7, 8, 9, 26, 27, 64, 100}
MCIndices == {0, 1, 2, 4, 7, 26, 63, 71, 100, 127}
MeasuredPowShort == {<<64, 3>>}

\* In place of totals from 2^53 on.
MCPowOver == {<<100, 1>>}

MCGivenRanges == {<<0, 0>>, <<1, 0>>, <<3, 0>>, <<5, 4>>, <<16, 0>>}
=============================================================================
