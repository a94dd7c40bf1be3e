------------------------------ MODULE CommandLine ------------------------------
(***************************************************************************)
(* eisgenerator_export: main and its modes (src/main.cpp), and the indices *)
(* that the library recommends (src/model.cpp).  Of the spectrum at an     *)
(* index of the sweep the model keeps what the program looks at.           *)
(***************************************************************************)
EXTENDS Getopt, SequencesExt

CONSTANTS
    Circuits,       \* function from model strings to the circuits they are
    Translations,   \* function from <<input type, model string>> to model strings
    Largest         \* numeric_limits::max of fvalue

Complex == Int \X Int

\* The spectra of a sweep are of the same omegas, and so of one length; the
\* parameters at each step are as many, and are numbers of the type.
ASSUME CircuitsAssumption ==
    \A name \in DOMAIN Circuits :
      LET points == Circuits[name].points
      IN  /\ points \in Seq({points[k] : k \in DOMAIN points})
          /\ \A k \in DOMAIN points :
               /\ points[k].nan \in BOOLEAN
               /\ points[k].spectrum \in Seq(Complex)
               /\ Len(points[k].spectrum) = Len(points[1].spectrum)
               /\ points[k].values \in [DOMAIN points[1].values -> Int]
               /\ \A i \in DOMAIN points[k].values : points[k].values[i] <= Largest

ASSUME LargestAssumption == Largest \in Nat

VARIABLES
    step,           \* the index that the ranges of the model stand at
    index,          \* i of the loops
    kept,           \* the indices whose spectra are in sweeps
    values,         \* the parameters recorded with them
    out,            \* the indices that outputRanges prints
    ranges,         \* what findRanges makes of the parameters' ranges
    files           \* the spectra on disk

modelVars == <<step, index, kept, values, out, ranges, files>>
vars == <<getoptVars, modelVars>>

None == -1
Circuit == Circuits[config.modelStr]
Count == Len(Circuit.points)
At(i) == Circuit.points[i + 1]
IsParamSweep == Count > 1

-------------------------------------------------------------------------------
(***************************************************************************)
(* Which spectra are chosen                                                *)
(***************************************************************************)
\* normalize, maximumNyquistJump and pearsonCorrelation.
Meaningful(i) == ~At(i).jumps /\ ~At(i).linear

Square(x) == x * x
SquaredAbs(z) == Square(z[1]) + Square(z[2])
Minus(y, z) == <<y[1] - z[1], y[2] - z[2]>>

\* accum of eisDistance, over the omegas.
Differences(i, j) ==
    [w \in DOMAIN At(i).spectrum |-> SquaredAbs(Minus(At(j).spectrum[w], At(i).spectrum[w]))]
Accumulated(differences) ==
    LET accum[w \in 0..Len(differences)] ==
          IF w = 0 THEN 0 ELSE accum[w - 1] + differences[w]
    IN  accum[Len(differences)]

\* eisDistance < rangeDistance, both squared.  A spectrum with an infinite impedance
\* has NaN in it once it is normalized, and no comparison with NaN is true.
Near(i, j) ==
    /\ ~At(i).nan /\ ~At(j).nan
    /\ config.rangeDistance > 0
    /\ Accumulated(Differences(i, j)) < Len(At(i).spectrum) * Square(config.rangeDistance)

IsNew_Last(i) == kept = <<>> \/ ~Near(i, Last(kept))
                                            \* Variant: only the last one is compared
IsNew(i) == \A k \in DOMAIN kept : ~Near(i, kept[k])

\* Not threaded, executeSweep sets the ranges to the index; the copies that the
\* threads of executeAllSweeps have do not touch this model.
SweptStep == IF config.threaded THEN step ELSE index

KeptStep_NotResolved(new) == SweptStep      \* Variant: resolveSteps is not called

\* With threads the ranges are set when a spectrum is kept.
KeptStep(new) == IF config.threaded /\ new THEN index ELSE SweptStep

\* numeric_limits::min is the smallest positive number: 0 for these values.
Greatest(i) ==
    LET max[k \in 0..Len(values)] ==
          IF k = 0 THEN 0
          ELSE IF values[k][i] > max[k - 1] THEN values[k][i] ELSE max[k - 1]
    IN  max[Len(values)]

Least(i) ==
    LET min[k \in 0..Len(values)] ==
          IF k = 0 THEN Largest
          ELSE IF values[k][i] < min[k - 1] THEN values[k][i] ELSE min[k - 1]
    IN  min[Len(values)]

\* var < 0.1, where var = (max - min)^2 / mean^2: 0/0 is not.
FixedOrRange(i) ==
    LET spread == Greatest(i) - Least(i)
        twiceMean == Greatest(i) + Least(i)
    IN  IF 40 * spread * spread < twiceMean * twiceMean
        THEN [fixed |-> TRUE, start |-> twiceMean \div 2, end |-> twiceMean \div 2]
        ELSE [fixed |-> FALSE, start |-> Least(i), end |-> Greatest(i)]

-------------------------------------------------------------------------------
(***************************************************************************)
(* Contribution: impedances[w][c] is the impedance of the c-th member of   *)
(* the outermost combination at the w-th omega, a complex number.  The     *)
(* flat list of elements has no combination in it, so that no inner one is *)
(* looked at.                                                              *)
(***************************************************************************)
Omegas(i) == DOMAIN At(i).impedances
ImpedancesAt(i, w) == At(i).impedances[w]

\* |y| / |z| > 0.01 and |y| / |z| < 0.1, squared; both fail for 0/0.
OverHundredth(y, z) == 10000 * SquaredAbs(y) > SquaredAbs(z)
UnderTenth(y, z) == 100 * SquaredAbs(y) < SquaredAbs(z)

\* contributionRatio: a small member of a series and a large one of a parallel
\* combination do not contribute.
Contributes(i, w, c) ==
    LET all == ImpedancesAt(i, w)
    IN  \A d \in DOMAIN all : IF Circuit.kind = "serial" THEN OverHundredth(all[c], all[d])
                              ELSE OverHundredth(all[d], all[c])

AllElementsContribute(i) ==
    Circuit.kind # "leaf" =>
      \A c \in DOMAIN ImpedancesAt(i, 1) : \E w \in Omegas(i) : Contributes(i, w, c)

HasSeriesDifference(i) ==
    \E w \in Omegas(i) :
      Circuit.kind = "serial" =>
        LET all == ImpedancesAt(i, w)
        IN  \A c, d \in DOMAIN all : c < d => ~UnderTenth(Minus(all[c], all[d]), all[c])

-------------------------------------------------------------------------------
(***************************************************************************)
(* main                                                                    *)
(***************************************************************************)
Exit(code) == exit' = code /\ pc' = "ended"
Go(to) == pc' = to /\ UNCHANGED exit
Unscanned == UNCHANGED <<scanVars, nextchar, environment>>

InHertz(range) == [range EXCEPT !.start = @ * 6, !.end = @ * 6]     \* 2 * M_PI
IsSane(range) == range.start <= range.end /\ (range.log => range.start > 0)

\* Translating is not inside the try block of main.
Prepare ==
    /\ pc = "parsed"
    /\ LET omega == IF config.hertz THEN InHertz(config.omegaRange) ELSE config.omegaRange
           source == <<config.inputType, config.modelStr>>
       IN  IF ~IsSane(omega) \/ config.inputType = "unknown"
           THEN Exit(1) /\ UNCHANGED config
           ELSE IF config.inputType = "eis"
           THEN Go("construct") /\ config' = [config EXCEPT !.omegaRange = omega]
           ELSE IF source \notin DOMAIN Translations
           THEN Exit(Aborted) /\ UNCHANGED config
           ELSE /\ Go("construct")
                /\ config' = [config EXCEPT !.omegaRange = omega,
                                            !.modelStr = Translations[source]]
    /\ Unscanned
    /\ UNCHANGED modelVars

\* A string the constructor does not take, or one without an element in it.
Construct ==
    /\ pc = "construct"
    /\ IF config.modelStr \in DOMAIN Circuits THEN Go("run") ELSE Exit(1)
    /\ Unscanned
    /\ UNCHANGED <<config, modelVars>>

RunMode ==
    /\ pc = "run"
    /\ CASE config.mode = "invalid" -> Exit(1)
         [] config.mode = "find-range" -> IF IsParamSweep THEN Go("find") ELSE Exit(1)
         [] config.mode = "export-ranges" -> Go("recommend")
         [] config.mode \in {"code", "script"} -> Exit(IF Circuit.hasCode THEN 0 ELSE 2)
         [] OTHER -> Go(IF IsParamSweep THEN "start" ELSE "sweep")
    /\ Unscanned
    /\ UNCHANGED <<config, modelVars>>

Look(new) ==
    /\ index' = index + 1
    /\ kept' = IF new THEN Append(kept, index) ELSE kept
    /\ Unscanned
    /\ UNCHANGED <<config, exit, pc, out, ranges, files>>

\* One round of getRangeValuesForModel.
FindStep ==
    /\ pc = "find" /\ index < Count
    /\ LET new == Meaningful(index) /\ IsNew(index)
       IN  /\ Look(new)
           /\ step' = KeptStep(new)
           /\ values' = IF new THEN Append(values, At(step').values) ELSE values

FindRanges ==
    /\ pc = "find" /\ index = Count
    /\ ranges' = IF values = <<>> THEN <<>> ELSE [i \in DOMAIN values[1] |-> FixedOrRange(i)]
    /\ Exit(0)
    /\ Unscanned
    /\ UNCHANGED <<config, step, index, kept, values, out, files>>

\* One round of the first loop of getRecommendedParamIndices, and the second.
RecommendStep ==
    /\ pc = "recommend" /\ index < Count
    /\ LET new == Meaningful(index) /\ IsNew(index)
       IN  Look(new) /\ step' = KeptStep(new) /\ UNCHANGED values

OutputRanges ==
    /\ pc = "recommend" /\ index = Count
    /\ out' = SelectSeq(kept, LAMBDA i : AllElementsContribute(i) /\ HasSeriesDifference(i))
    /\ step' = IF out' # <<>> THEN Last(out') ELSE IF kept # <<>> THEN Last(kept) ELSE step
    /\ Exit(0)
    /\ Unscanned
    /\ UNCHANGED <<config, index, kept, values, ranges, files>>

-------------------------------------------------------------------------------
\* create_directory and compile may throw what main does not catch.
StartParamSweep ==
    /\ pc = "start"
    /\ \/ Go("sweeps")
       \/ (config.saveFileName # "" \/ ~config.noCompile) /\ Exit(Aborted)
    /\ Unscanned
    /\ UNCHANGED <<config, modelVars>>

Skipped(i) ==
    \/ config.reduce /\ At(i).dull
    \/ config.skipLinear /\ i > 0 /\ At(i).straight

File(name, spectrum, model) == [name |-> name, spectrum |-> spectrum, model |-> model]

ParamSweepStep ==
    /\ pc = "sweeps" /\ index < Count
    /\ index' = index + 1
    /\ IF config.saveFileName # "" /\ ~Skipped(index)
       THEN files' = files \cup {File(index, index, index)} /\ step' = index
       ELSE step' = SweptStep /\ UNCHANGED files
    /\ Unscanned
    /\ UNCHANGED <<config, exit, pc, kept, values, out, ranges>>

EndParamSweep ==
    /\ pc = "sweeps" /\ index = Count
    /\ Exit(0)
    /\ Unscanned
    /\ UNCHANGED <<config, modelVars>>

RunSweep ==
    /\ pc = "sweep"
    /\ step' = 0
    /\ files' = IF config.saveFileName = "" THEN {} ELSE {File(None, 0, 0)}
    /\ Exit(0)
    /\ Unscanned
    /\ UNCHANGED <<config, index, kept, values, out, ranges>>

MainInit ==
    /\ Init
    /\ step = 0 /\ index = 0
    /\ kept = <<>> /\ values = <<>> /\ out = <<>> /\ ranges = <<>>
    /\ files = {}

Main == \/ Prepare \/ Construct \/ RunMode \/ FindStep \/ FindRanges
        \/ RecommendStep \/ OutputRanges \/ StartParamSweep \/ ParamSweepStep
        \/ EndParamSweep \/ RunSweep

Parsing == UNCHANGED modelVars

Next ==
    \/ Advance /\ Parsing
    \/ Continue /\ Parsing
    \/ LongOption /\ Parsing
    \/ ShortOption /\ Parsing
    \/ Finalize /\ Parsing
    \/ Main

Spec == MainInit /\ [][Next]_vars
================================================================================
