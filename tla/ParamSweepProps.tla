--------------------------- MODULE ParamSweepProps ---------------------------
(***************************************************************************)
(* What the parameter sweep has to get right.                              *)
(***************************************************************************)
EXTENDS ParamSweep

\* Every variable keeps its type; counts and steps are size_t.
TypeOK ==
    /\ count \in [Params -> 0..(Word - 1)]
    /\ step \in [Params -> 0..(Word - 1)]
    /\ call \in [op : {"Model", "resolveSteps", "SIGFPE", "setTotal",
                       "setParamRanges"},
                 arg : 0..(Word - 1), ret : Nat]

\* The product of the counts, not reduced to a word.
Product(c) ==
    LET product[p \in 0..NumParams] ==
            IF p = 0 THEN 1 ELSE product[p - 1] * c[p]
    IN  product[NumParams]

\* The number of combinations the counts describe, and whether it fits.
Combinations == Product(count)
Fits == Combinations < Word

\* The indices below getRequiredStepsForSweeps decode to different steps, all
\* in range, and there are as many of them as combinations: executeAllSweeps,
\* which runs over those indices, generates each spectrum of the sweep once.
EverySpectrumOnce ==
    Fits =>
        LET visited == {Steps(count, i) : i \in 0..(RequiredSteps(count) - 1)}
        IN  /\ Cardinality(visited) = Combinations
            /\ \A s \in visited : \A p \in Params : s[p] < count[p]

\* After resolveSteps with an index below the required number every step
\* selects a value of its range, even when the products have wrapped.
ResolvedStepsInRange ==
    call.op = "resolveSteps" /\ call.arg < RequiredSteps(count)
        => \A p \in Params : step[p] < count[p]

\* The division by zero in resolveSteps is out of reach of every caller that
\* keeps to the indices below getRequiredStepsForSweeps, whatever the counts.
OnlyStrayIndexDies ==
    call.op = "SIGFPE" => call.arg >= RequiredSteps(count)

\* The sweep comes as close to the requested total as it can from below: the
\* total is not exceeded, unless pow() lands above the root, and, unless it
\* falls short, would be with one step more for every swept parameter.  What
\* the call returns is the number of spectra the sweep generates from then on,
\* if they fit and no count is 0.
ClosestFromBelow ==
    call'.op = "setTotal" /\ Active(count) # {} =>
        LET swept == Active(count)
            more  == [p \in Params |->
                        IF p \in swept THEN count'[p] + 1 ELSE 1]
        IN  /\ <<call'.arg, Cardinality(swept)>> \notin PowOver
                  => Combinations' <= call'.arg
            /\ <<call'.arg, Cardinality(swept)>> \notin PowShort
                  => Product(more) > call'.arg
            /\ Fits' /\ (\A p \in Params : count'[p] >= 1)
                  => call'.ret = RequiredSteps(count')

\* What can leave a parameter at a step past its values, where
\* getModelStrWithParam and getFlatParameters read it: a total that lowers the
\* count of a swept parameter which is not at its first value (or a total of
\* 0), an index that is not below the required number, and ranges given that
\* way.  A model left at index 0 can be given any total but 0.
StepStrandedOnlyByCaller ==
    [][ \A p \in Params : step[p] < count[p] /\ step'[p] >= count'[p] =>
            \/ /\ call'.op = "setTotal"
               /\ p \in Active(count)
               /\ step[p] # 0 \/ call'.arg = 0
            \/ call'.op = "resolveSteps" /\ call'.arg >= RequiredSteps(count)
            \/ call'.op = "setParamRanges" ]_vars

\* A request for at least two values of every swept parameter keeps all of
\* them in the sweep, and no request turns a fixed parameter into a swept one.
SweptSetKept ==
    call'.op = "setTotal" =>
        /\ Active(count)' \subseteq Active(count)
        /\ call'.arg >= Power(2, Cardinality(Active(count)))
             => Active(count)' = Active(count)

\* setParamSweepCountClosestTotal keeps to the total it was given, by fewer
\* values of each parameter and not by fewer parameters.
TotalHonoured == [][ClosestFromBelow /\ SweptSetKept]_vars
=============================================================================
