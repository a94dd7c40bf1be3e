----------------------------- MODULE ParamSweep -----------------------------
(***************************************************************************)
(* The parameter sweep of a Model (src/model.cpp, declared in              *)
(* src/eisgenerator/model.h).                                              *)
(*                                                                         *)
(* The counts and steps of the parameters, and the calls that change them. *)
(* How a sweep index selects them is in SweepIndex.                        *)
(***************************************************************************)
EXTENDS SweepIndex

CONSTANTS
    Componants,     \* the circuit elements
    Owner,          \* Owner[p]: the element that parameter p belongs to
    SweepCounts,    \* values given to the constructor as paramSweepCount
    GivenRanges,    \* <<count, step>> of the ranges given to setParamRanges
    Totals,         \* values given to setParamSweepCountClosestTotal
    Indices,        \* sweep indices given to resolveSteps
    PowShort,       \* <<total, active>> for which pow() lands below the root
    PowOver         \* <<total, active>> for which pow() lands above the root

ASSUME SweepAssumption ==
    /\ Owner \in [Params -> Componants]
    /\ SweepCounts \subseteq 0..(Word - 1)
    /\ GivenRanges \subseteq (0..(Word - 1)) \X (0..(Word - 1))
    /\ Totals \subseteq 0..(Word - 1)
    /\ Indices \subseteq 0..(Word - 1)
    /\ PowShort \subseteq (Nat \ {0}) \X (Nat \ {0})
    /\ PowOver \subseteq ((Nat \ {0}) \X (Nat \ {0})) \ PowShort

VARIABLES
    count,          \* count[p]: Range::count of parameter p
    step,           \* step[p]: Range::step of parameter p
    call            \* the last call made on the model, and what it returned

vars == <<count, step, call>>
-----------------------------------------------------------------------------
(***************************************************************************)
(* The arithmetic of the sweep.                                            *)
(***************************************************************************)
\* getActiveParameterCount: the parameters that are swept.
Active(c) == {p \in Params : c[p] > 1}

\* std::pow of whole numbers.
Power(base, exponent) ==
    LET power[n \in 0..exponent] == IF n = 0 THEN 1 ELSE base * power[n - 1]
    IN  power[exponent]

\* Variant: the root is rounded up.
CountPerParam_RoundedUp(total, active) ==
    CHOOSE k \in 0..total :
        Power(k, active) >= total /\ \A j \in 0..(k - 1) : Power(j, active) < total

\* The integer root that pow(total, 1.0/active) is truncated to.  In binary
\* floating point 1.0/active is not exact, and for some exact powers the
\* result lies just below the root, 64 and 3 for one: those are PowShort.  Nor
\* is every total exact as a double: from 2^53 on pow may land above the root,
\* 2^53 + 3 with one parameter giving 2^53 + 4: those are PowOver.
CountPerParam(total, active) ==
    LET roots == {k \in 0..total : Power(k, active) <= total}
        root  == CHOOSE k \in roots : \A j \in roots : j <= k
    IN  IF <<total, active>> \in PowShort THEN root - 1
        ELSE IF <<total, active>> \in PowOver THEN root + 1
        ELSE root

\* For powers of 1 and 2 the result is exact (measured up to 2^63); a total
\* that pow rounds up does not wrap.
ASSUME PowAssumption ==
    /\ \A pair \in PowShort : Power(3, pair[2]) <= pair[1]
    /\ \A pair \in PowOver : pair[1] + 1 < Word
-----------------------------------------------------------------------------
(***************************************************************************)
(* The operations.                                                         *)
(***************************************************************************)

\* A parameter given as one value has count 1, any other gets paramSweepCount
\* from the constructor; the elements set their ranges up with step 0.
Init ==
    \E n \in SweepCounts :
        /\ count \in [Params -> {1, n}]
        /\ step = [p \in Params |-> 0]
        /\ call = [op |-> "Model", arg |-> n, ret |-> 0]

\* A division by zero kills the process: nothing is called after it.
Running == call.op # "SIGFPE"

\* Model::resolveSteps, also reached through execute, executeSweep and
\* getModelStrWithParam(index).
ResolveSteps(index) ==
    /\ Running
    /\ ~DividesByZero(count, index)
    /\ step' = Steps(count, index)
    /\ call' = [op |-> "resolveSteps", arg |-> index, ret |-> 0]
    /\ UNCHANGED count

ResolveStepsDies(index) ==
    /\ Running
    /\ DividesByZero(count, index)
    /\ call' = [op |-> "SIGFPE", arg |-> index, ret |-> 0]
    /\ UNCHANGED <<count, step>>

\* Model::setParamSweepCountClosestTotal: gives every swept parameter the
\* same count; it leaves the steps alone.
SetParamSweepCountClosestTotal(total) ==
    LET active == Cardinality(Active(count))
        each   == CountPerParam(total, active)
    IN  /\ Running
        /\ active >= 1
        /\ count' = [p \in Params |-> IF count[p] > 1 THEN each ELSE count[p]]
        /\ call' = [op |-> "setTotal", arg |-> total, ret |-> Power(each, active)]
        /\ UNCHANGED step

\* The early return of the same function: no parameter is swept.
SetTotalIgnored(total) ==
    /\ Running
    /\ Active(count) = {}
    /\ call' = [op |-> "setTotal", arg |-> total, ret |-> 1]
    /\ UNCHANGED <<count, step>>

\* Componant::setParamRanges: one element gets new ranges, each with a count
\* and a step of its own.
SetParamRanges(c) ==
    LET own == {p \in Params : Owner[p] = c}
    IN  /\ Running
        /\ \E range \in [own -> GivenRanges] :
              /\ count' = [p \in Params |->
                             IF p \in own THEN range[p][1] ELSE count[p]]
              /\ step' = [p \in Params |->
                            IF p \in own THEN range[p][2] ELSE step[p]]
        /\ call' = [op |-> "setParamRanges", arg |-> 0, ret |-> 0]

Next ==
    \/ \E index \in Indices : ResolveSteps(index)
    \/ \E index \in Indices : ResolveStepsDies(index)
    \/ \E total \in Totals : SetParamSweepCountClosestTotal(total)
    \/ \E total \in Totals : SetTotalIgnored(total)
    \/ \E c \in Componants : SetParamRanges(c)

Spec == Init /\ [][Next]_vars
=============================================================================
