----------------------------- MODULE SweepIndex -----------------------------
(***************************************************************************)
(* The index of a parameter sweep (src/model.cpp).                         *)
(*                                                                         *)
(* Every circuit element owns a fixed number of parameters; the model sees *)
(* them as one flat list, numbered here 1..NumParams (the code counts from *)
(* 0).  A parameter is a Range of which two fields matter: "count", how    *)
(* many values the sweep visits, and "step", the value in use.  A          *)
(* parameter combination is addressed by one number, the sweep index,      *)
(* which resolveSteps decodes as a number written in mixed radix: the      *)
(* counts are the radices and the first parameter is the fastest digit.    *)
(*                                                                         *)
(* All products are taken in size_t, so they wrap modulo Word (2^64 in the *)
(* program, a small power of two here).                                    *)
(***************************************************************************)
EXTENDS Integers, Counting

CONSTANTS
    NumParams,      \* length of the flat parameter list
    Word            \* size_t arithmetic is modulo Word

Params == 1..NumParams

ASSUME IndexAssumption ==
    /\ NumParams \in Nat \ {0}
    /\ Word \in Nat \ {0, 1}

\* Variant: only the parameters that are swept are counted.
RequiredSteps_SweptOnly(c) ==
    WordProducts([p \in Params |-> IF c[p] > 1 THEN c[p] ELSE 1], NumParams,
                 Word)[NumParams]

\* getRequiredStepsForSweeps: the product of all counts, in size_t.
RequiredSteps(c) == WordProducts(c, NumParams, Word)[NumParams]

\* Variant: the magnitude of a digit takes its own count in.
PlaceMagnitude_OwnCount(c) ==
    [p \in Params |-> WordProducts(c, NumParams, Word)[p]]

\* placeMagnitude: the weight of each digit, the product of the counts before
\* it, in size_t.
PlaceMagnitude(c) == [p \in Params |-> WordProducts(c, NumParams, Word)[p - 1]]

\* Variant: the index is not reduced from one digit to the next.
Remainder_NotReduced(c, index) == [p \in Params |-> index]

\* What is left of the index when the loop, which runs from the last
\* parameter to the first, comes to parameter p.
Remainder(c, index) ==
    LET left[p \in Params] ==
            IF p = NumParams THEN index
                             ELSE left[p + 1] % PlaceMagnitude(c)[p + 1]
    IN  left

\* The steps that resolveSteps(index) leaves behind.
Steps(c, index) ==
    IF index = 0
    THEN [p \in Params |-> 0]
    ELSE [p \in Params |-> Remainder(c, index)[p] \div PlaceMagnitude(c)[p]]

\* Variant: the shortcut for index 0 is missing.
DividesByZero_AtZeroToo(c, index) == \E p \in Params : PlaceMagnitude(c)[p] = 0

\* The loop divides by every place magnitude, unless the index is 0.
DividesByZero(c, index) ==
    index # 0 /\ \E p \in Params : PlaceMagnitude(c)[p] = 0
=============================================================================
