# eisgenerator: a TLA+ model with proofs

libeisgenerator calculates the impedance spectra of electric circuits that are
given as strings such as `r{10~1000}-cr`. This directory holds TLA+ modules
that model its threads, processes, files and pipes, the objects it owns, and the
sequential code in which indices and strings are easy to get wrong; TLC
configurations that check them on small instances; and proofs, checked by
TLAPS, of what matters most for instances of any size. Paths and line numbers
refer to the source tree.

## The system

| component | state | operations | how it interacts |
|---|---|---|---|
| Parameter sweep (`model.cpp:312-353, 450-504`, `componant.cpp:38-51`) | per parameter a `Range`: `count`, `step`, start, end | `setParamRanges`, `setParamSweepCountClosestTotal`, `resolveSteps`, `getRequiredStepsForSweeps` | `execute`, `executeSweep` and the command line call `resolveSteps`; the threaded sweeps take their size from `getRequiredStepsForSweeps` |
| Threaded sweeps (`model.cpp:355-448`) | vectors of threads, of model copies, of results | `executeSweeps`, `executeAllSweeps`, `sweepThreadFn`, `executeSweep` | worker threads share the vector of results with the caller; each has a model of its own |
| Cache of compiled models (`model.cpp:641-689`, `compcache.cpp`) | map from uuid to `CompiledObject`, the pointers the models keep, a directory of shared objects | `compile`, `dropCompiled`, `dropAllObjects`, `getTempdir` | models point into the heap of the cache; all processes of a user share the directory |
| Compiler pipe (`compile.cpp`) | two pipes, a child process | `compile_code` | started by `compile`; talks to g++ through its standard streams |
| Model life cycle (`model.cpp:172-224, 273-310`, `componant.cpp`, `paralellseriel.cpp`) | tree of elements on the heap, flat list built on demand | constructors, assignment, destructor, `copy`, `getFlatComponants` | everything else walks the flat list |
| Circuit parser and printer (`model.cpp:48-177, 538-545`, `strops.cpp`) | the string it rewrites, list of bracket elements | `processBrackets`, `processBracket`, `getParamStr`, `tokenize`, `deepestBraket`, `opposingBraket`, `getModelStrWithParam`, `eisRemoveUnneededBrackets` | called by the constructor; exports carry the printed string |
| Series resistance (`model.cpp:746-775`) | the circuit string | `removeSeriesResitance` | a static function for users of the library |
| Recommended indices, contribution (`model.cpp:557-634, 777-856`) | none of their own | `getRecommendedParamIndices`, `allElementsContribute`, `hasSeriesDifference` | run sweeps and compare spectra |
| Circuit elements (`componant/`) | their ranges | `execute`, `getCode`, `copy`, `compileable` | nodes of the tree |
| Code generation (`model.cpp:691-744`, `componant/`) | none | `getCode`, `getTorchScript` | input of `compile_code`; the compiled function takes the parameters in the order of the flat list |
| Translators (`translators.cpp`) | none | `cdcToEis`, `eisToCdc`, `relaxisToEis`, `eisToRelaxis`, `madapToEis` | string to string |
| Normalisation (`normalize.cpp`, `linearregession.cpp`), basic math (`basicmath.cpp`) | none | `normalize`, `eraseSingularites`, `reduceRegion`, `removeDuplicates`, `rescale`, `fitToFrequencies` | work on finished spectra |
| Command line (`main.cpp`, `options.h`) | the options, the ranges of the model, the spectra it keeps | `parse_opt`, `runSweep`, `runParamSweep`, `findRanges`, `outputRanges` | uses all of the above |
| Argument parser (`argp/`, vendored) | the permuted `argv`, `optind`, what is left of a cluster | `argp_parse`, `getopt_long` | calls `parse_opt` for one option after another |

What is hard in it:

* **Threads.** `executeSweeps` and `executeAllSweeps` split the result among
  threads that write to it without a lock. The split is a truncating division
  whose remainder goes to the last thread, the threads work on copies of a
  model whose parameter steps are changed by every evaluation, and a thread
  that cannot be started leaves joinable threads behind.
* **Numbers.** A sweep index is a number in mixed radix. Its decoding and the
  number of indices are computed in two places, in `size_t`, from counts that
  may be 0; the number of spectra a user asks for goes through a floating
  point root.
* **Shared files and pointers.** A compiled model is a file with a name that
  depends on the circuit only, in a directory all processes share; the model
  holds a plain pointer to an object that the cache may free.
* **Text.** The parser rewrites the string it reads: brackets are replaced by
  one character each, deepest first, and looked up again later. Other functions
  erase from a string while they walk over it.
* **Ownership.** Trees are owned through plain pointers and copied by hand; the
  list of leaves is a cache of pointers into the tree; a digit in the circuit
  string can give an element two owners.
* **Indices.** The functions on spectra look for neighbours of a point in
  vectors of any length, including none, with values that may be infinite or
  undefined, and erase what they have looked at.
* **Order.** Options change the same settings, `getopt` moves words behind
  options while both are read, and the program reads a model's parameters after
  threads have computed its spectra with other models.
* **Processes.** The compiler is a child process connected by two pipes; either
  side can block on the other, end early, or be killed.

What makes each component correct is stated property by property below.

## Modules

| module | what it is |
|---|---|
| `SweepIndex` | how a sweep index is decoded, in words of a size; `ParamSweep` and `ParallelSweep` extend it |
| `ParamSweep`, `ParamSweepProps`, `MCParamSweep` | the parameter sweep, its properties, the instance for TLC |
| `SweepCall` | abstract: what a caller of a sweep function can rely on |
| `ParallelSweep`, `ParallelSweepProps`, `MCParallelSweep` | the threaded sweep functions; implement `SweepCall` |
| `ParallelSweep_proofs` | theorems about `ParallelSweep` for all values of its constants |
| `CompileCache`, `CompileCacheProps`, `MCCompileCache` | `Model::compile` and the cache, several processes |
| `CompilePipe`, `CompilePipeProps`, `MCCompilePipe` | `compile_code` and the compiler it talks to |
| `Compile_proofs`, `ParamSweep_proofs` | theorems about `CompileCache` and `CompilePipe`, and about `ParamSweep` |
| `ModelValues` | abstract: what an application may believe of a `Model` |
| `Elements`, `ModelTree`, `ModelTreeProps`, `MCModelTree` | the element classes and their parameters; models, their trees on one heap, and the parameters of the code generated from them; implement `ModelValues` |
| `Strops` | the string helpers of `strops.cpp` as operators |
| `ModelText`, `ModelTextProps` | the constructor's parser as a state machine on top of `Strops`, and what it promises of every string |
| `ModelText_proofs` | theorems about the parser, for strings of any length |
| `Printer`, `PrinterProps`, `MCModelText` | how trees are printed, `eisRemoveUnneededBrackets`, `removeSeriesResitance`; parser against printer; the instance for TLC |
| `Translators`, `TranslatorsProps` | the translators from and to CDC and Relaxis and from MADAP, against circuits as trees; checked with `MCModelText` |
| `Fvalue`, `Spectra`, `SpectraProps`, `MCSpectra` | the numbers of the library, and what is done to finished spectra |
| `Options`, `Getopt`, `CommandLine`, `CommandLineProps`, `MCCommandLine` | the options, the argument parser that finds them, and `main` with its modes; each extends the one before |
| `ModelTree_proofs`, `Spectra_proofs`, `CommandLine_proofs` | theorems about these three |
| `Counting`, `Induction` | how many of some places come before another, and products of numbers in order, in a word; induction over the naturals and the existence of recursive functions, for the proofs |

Each component module has VARIABLES for the state, one action per operation or
step, `Next` and `Spec`. A definition marked *Variant* is what the definition
below it would be after a plausible mistake; `Next` does not use it. It is
there to show, put in the place of the original, that a property notices.

### ParamSweep

`count[p]` and `step[p]` are `Range::count` and `Range::step` of the parameter
at position p of the flat list, `call` is the last call with its argument and
result. Values of parameters (start, end, logarithmic or not) are left out: no
operation of the sweep looks at them. `setParamRanges` takes a range for each
parameter of an element, with a count and a step of its own (`GivenRanges`).
`SweepIndex` has the arithmetic: all products wrap modulo `Word`, which
stands for 2^64; `PlaceMagnitude`, `Remainder` and `Steps` are the two loops of
`resolveSteps`, `DividesByZero` says when it divides by a place magnitude of 0,
which `ResolveStepsDies` is.

`pow(total, 1.0/active)` is the integer root, except for the pairs in
`PowShort`, for which floating point ends up below it, 64 and 3 being the first
(`pow(64, 1.0/3)` is 3.9999999999999996), and for those in `PowOver`, for which
the total is not exact as a double and it ends up above (from 2^53 on; the
instance has a small total in their place).

Properties: an index below `getRequiredStepsForSweeps` addresses each
combination once (`EverySpectrumOnce`); such an index resolves to steps in
range, and cannot divide by zero, even when products wrap
(`ResolvedStepsInRange`, `OnlyStrayIndexDies`); the size chosen for a total is
the largest that does not exceed it, and is what the call returns, unless a
count is 0 (`ClosestFromBelow`), and the call takes parameters out of the sweep
only for totals below 2^active (`SweptSetKept`; the two are `TotalHonoured`);
and the steps, which `setParamSweepCountClosestTotal` leaves as they are, can be
past the values of their parameter only after such a call on a model that was
not at index 0, a total of 0, a stray index or ranges given so
(`StepStrandedOnlyByCaller`).

### ParallelSweep and SweepCall

The caller's thread is at `pc`; `thread[t]`, `slot[t]`, `model[t]`, `done[t]`
and `results[t]` are worker t's position, its loop counter, the index its copy
of the model is resolved to, and the spectrum under construction. `data` is the
shared result. A spectrum is represented by the set of the indices its points
were computed at: the right one for slot k is {k}, and any sharing of a model or
a buffer shows as a set with another or a second member. With an uncompiled
model, steps are resolved again for every frequency (`execute`), with a compiled
one once (`executeSweep`); both are in `Resolve` and `Compute`. `counts` are the
counts of the model's parameters: `executeAllSweeps` asks for as many spectra as
`SweepIndex` says they have, and resolving slot k divides by zero
(`ResolveDies`) where `SweepIndex` says so. That is what `executeSweeps` can do
in a thread: a model with a count of 0, as `setParamSweepCountClosestTotal(0)`
leaves it if two of its parameters were swept, has no sweep, but `executeSweeps`
of two indices or more still resolves slot 1.

The number of hardware threads is any number from 0 to `MaxHardware` at every
call, 0 being what the standard allows for *unknown*. `std::thread` may fail.

`SweepCall` knows nothing of threads: slots are filled one by one in any order,
each once and with its own spectrum, the call returns when all are, throws when
none is, or takes the process down. `ParallelSweep` implements it under the
mapping `Abstract`. `DiesOnlyOfThese` says of what the process dies: a thread that
cannot be started behind others, a hardware concurrency of 0, and a slot other than
the first of a sweep without combinations, which is never one of
`executeAllSweeps`.

### CompileCache

Per process: the map `objects`, the heap it points into, and the position `at`
in `compile`; per model: its circuit and its pointer `compiledModel`; shared:
the directory `dir` and the files `so`. A circuit stands for its description
string. Compilers are processes of their own: `Child(p)` is the one p waits
for, and becomes `Orphan(p)` when p is killed. The linker replaces its output
file and then fills it, so `so[u]` is the file that has the name now, and says
whose it is and whether it is complete. How the compiler does that is not in
this repository: those actions are modelled from how `compile` uses it.

`compile_code`, which `CompilePipe` looks into, is here what `compile` sees of it:
it throws (`StartFails`), or starts a compiler and reports how it ended. With
`Signals` the application has handlers that interrupt it: it may then report
anything of a compiler that is still at work, which becomes an orphan
(`CollectInterrupted`), and the compiler may have been given a part of the
code; what it makes of that, or of what a killed process left it, is
`Truncated`, a file that loads but lacks the symbol.

Besides what must hold of pointers, map, heap and results (`ExecutesItsCircuit`,
and `CacheKept`, which is `CacheExact` and `CompiledOnce`) there is what makes
`compile` throw once its compiler has ended: a process that has the directory to
itself, and no signals, finds and loads its file (`AloneLoadsItsFile`); any other
only fails to if another compiler took the name or the code was cut off
(`LoadsItsFile`).

`dropAllObjects` leaves dangling pointers by design; its only user,
`src/bench.cpp:50-51`, has its model drop the pointer at once. `Disciplined`
says that every user does: until all models of the process have dropped their
pointers nothing else is called.

### CompilePipe

`fds` and `childFds` are the descriptors of pipes that caller and child have
open, so that *end of file* and *broken pipe* are not inputs but follow from
who has which end open; calls follow one another, so what one leaves open is
there in the next. Code and output are counted in units and a pipe holds
`Capacity` of them, fewer than either. The compiler may give up reading at any
time; exec, fork and pipe may fail. Whether the application ignores SIGPIPE is
not known to the library: both outcomes of writing to a broken pipe are there.
Nor is it known whether the application handles signals (`Interrupts`): `write`
then returns a short count, which is taken for success, or fails if nothing was
written; `read` returns -1, which is taken for the end; and `waitpid` returns
with the child uncollected and the status, which is returned all the same, never
set. `interrupted` says which of the three a call has met. A call that returns 0
has a compiler that exited with 0 unless `waitpid` was interrupted; that compiler
has read everything that was written, and only an interrupted `write` has cut the
code off (`ZeroMeansCompiled`).

### Strops, ModelText and Printer

A string is a sequence of characters with the code's indices from 0; `NPos` is
-1, which behaves as `npos` does when it is counted up. `opposingBraket` and
`deepestBraket` are stated by what they return; that a nesting level is a
`size_t`, so that a stray `)` makes it huge, is kept. The functions that erase
from the string they walk over, `eisRemoveUnneededBrackets` and
`removeSeriesResitance`, keep their indices and where the walk goes on.

In `ModelText` each recursion of `processBrackets` is a step: `str` is the
rewritten string, `brackets` is `_bracketComponants`, `outcome` says how the
constructor ended. `Scan` is the loop over the characters of a node, `ScanStep`
one round of it with its jumps. Inputs are the strings of `Printed`, each with
the circuit it is the string of, and of `Typed`. The outcome *hangs* is an index
that went to `npos`: the code then reads one character before the string (only
to log), starts over, and creates elements without end.

A tree has elements `r` and `c`, which stand for all seven; what matters is
which characters are elements. The parser's trees are in postfix order, a node
after its children and with their number, as in `ModelTree`; `Printer` has the
trees to print, which nest. Parameter text is kept but not read: reading it
is done by `Range`, which is not in the source.

Properties: what the printer prints is read back as the same tree, with the
brackets that are not needed or without (`ReadsWhatItPrints`); at every step
the rewritten string and the finished brackets stand for exactly the elements
of the input, in order (`EveryElementOnce`), which is also why no element of a
string without digits is deleted twice; matched brackets and braces never give a
null model or a hang (`MatchedEndsWell`); and `removeSeriesResitance`, a rewrite
of text, does to the tree what its name says (`SeriesResistanceRemoved`).

### Translators

Operators on strings, evaluated for every printed circuit of `MCModelText`.
`TranslatorsProps` says what a CDC string means by reading it into a tree
(`ReadCdc`) and writes the CDC and MADAP strings of a tree; the element tables
shrink to a resistor and a capacitor. `eisToMadap` only asserts in the source.

`EisToCdcKeepsCircuit`: the CDC of a string describes its circuit, for at most
ten brackets. `CdcToEisKeepsCircuit`: the other way round, as long as nothing
follows a combination in its series. `RelaxisRoundTrip`: what `eisToRelaxis`
writes, `relaxisToEis` reads back as the same circuit; `eisToRelaxis` takes
every second level of brackets for a parallel and writes no `-` between adjacent
combinations, which the property says. `relaxisToEis` of `(`, which reads past
the end of the string, is not evaluated. `MadapToEisKeepsCircuit`: from MADAP,
with the parameters, except for what is refused with a parse error: a number of
two digits in a name, a series in a parallel that begins with a parallel, and
parameters where two brackets close after an element.

### Elements, ModelTree and ModelValues

`Elements` has what each class writes down several times: how many parameters
it has, and how many of them its compiled code and its TorchScript declare.

`heap` holds the elements by place, `root[m]` is `_model`, `flat[m]` is
`_flatComponants`. A circuit of `Plans` is a tree in postfix notation, whose
nodes name the places of their children; in that of `(o)-0` two children are the
same node. Memory is given out from the lowest free place, so that what is freed
is soon something else, and a stale pointer shows. Reading or freeing memory
that is free ends the application (`fate`). A constructor that throws, or makes
no circuit, leaves its elements behind (`leaked`). What the parser does with
strings is `ModelText`; here it succeeds, throws, or gives a model without a
circuit.

`ModelValues` knows no pointers: a model is a circuit with the steps of its
parameters; copies are independent. It says what the application may die of:
assigning a model to itself, using one without a circuit, and a circuit with an
element that has two owners. `ModelTree` implements it (`ImplementsValues`).
Besides, every place belongs to one model and one position or was left behind
by a constructor (`OwnedOnce`), and generated code takes its
parameters in the order in which `execute` passes them, however old the flat
list is (`CodeTakesFlatParameters`); so does the TorchScript, but for
transmission lines.

### Fvalue and Spectra

Values are reduced fractions that do not round, with the infinities and NaN of
IEEE 754. A point has an omega and one part of an impedance, real or imaginary,
the other being 0. The parts are treated alike but by `normalize`, which shifts
only the real one (`Base`): it ends up in 0 to 1, the imaginary one in -1 to 1.
`Factors` are values of `gradThreshFactor`, a parameter of `reduceRegion` with
which the median of the first derivative is multiplied, or the threshold of the
second, `Tiny`. `Coarseness` stands for the width of `fvalueEq`. A function takes
the spectrum `before` to `data`; a read or an erase outside of the vector
gives `Outside`, an `invalid_argument` gives `Refused`. `Ranked` is what
`std::sort` puts at a place; `Sorted` and `Orders` give every order it may leave,
as it says nothing of equal omegas and distances: rescaling and fitting give a
set of results. Fitting takes the logarithm of omegas, which are powers of ten
in its calls.

Properties: which inputs make the index arithmetic leave the vector, and that no
other does (`OnlyTheseReadOutside`); singular values are replaced by values
between others (`SingularitiesErased`); what `reduceRegion` leaves is the
normalized spectrum from the first steep point to the last, with a neighbour on
either side, and without one it was the second derivative or a factor above 1
(`RegionIsTheSteepPoints`); `removeDuplicates` leaves ordered,
distinct omegas and loses none but in a chain, where near-equality is not
transitive (`DuplicatesRemoved`); neither of the two that resample leaves the
points there are (`ResampledBetweenPoints`): what `rescale` makes lies between
two of them, and the ends stay (`RescaledBetweenPoints`); `fitToFrequencies` stays
between the nearest points on either side, continues what is constant, and beyond
the points repeats the end unless `linearExtrapolation` is set, against what the
documentation says of it (`FittedBetweenPoints`).

### Options, Getopt and CommandLine

An element of `argv` is a word, a long option with or without text, a cluster of
short options with the text behind it, or `--`. `optind`, `firstNonopt`,
`lastNonopt` and `nextchar` are the variables of `getopt.c`; `Exchange` is its
`exchange`, the swap of a run of words with the options that follow; with
POSIXLY_CORRECT nothing is moved. `given` is `argv` as it was. `Options` is
`parse_opt`: what each option does to `config`. The order matters where the
source makes it matter: `-o` replaces the range with its spacing, so that an
earlier `-l` is lost but not an earlier `-c`, and `-a` takes spacing and count
of that moment. `Doubles`, `Counts` and `Ranges` are the tokens that `stod`,
`stoul` and `Range::fromString` take: `.5` is a number for the first only, `-20`
for both, as `stoul` wraps a sign around, and `1e400` is too large for the first
(`Overflowing`); `Texts` are the elements with a dash that are such tokens as
well, so that `--omegasteps -20` goes on. A word is a usage error, found only
after all options. Conversions that throw what is not caught, translation errors
(`main.cpp:369`) and a `compile` that throws end in `std::terminate`, exit
status 134.

`CommandLine` goes on to the exit status. `step` is the index the model's ranges
stand at, `kept` and `values` the spectra chosen so far and the parameters read
with them, `out` the indices that are printed, `ranges` the result of
`findRanges`, `files` what is saved. A circuit is the sequence of its spectra,
each with what the program looks at: its complex impedances after normalization, of
which `Near` takes the `eisDistance` and compares it with `rangeDistance`; `nan`, if
they are not numbers, as an infinite impedance leaves them, in which case it is near
nothing; and whether it jumps, is linear or dull. `Largest` is
`numeric_limits::max`, which no parameter exceeds. Whether elements contribute is
computed from their complex impedances (`OverHundredth`, `UnderTenth`). With
`--parallel` all spectra are computed by copies before they are looked at.

Properties: whatever stands between them, however words are moved, options
abbreviated or clustered, the settings are those of a reader who goes through
`given` once from left to right (`ParsedInOrder`), and `argv` is a stable
permutation of `given` (`PermutedStably`). The selection of spectra, which is
written twice (`main.cpp:192-263`, `model.cpp:557-616`), picks by one rule, a set
whose members are far from one another and near everything else
(`IsoDifferenceSet`). The ranges it gives cover the parameters of the spectra
chosen, with threads too (`FoundRangesCover`).

## Runs

| run | shows | distinct states |
|---|---|---|
| `ParallelSweep` | the threaded call implements `SweepCall`, has no race, dies only of what it may and ends; for 0 to 8 spectra, up to 3 threads, and models without combinations | 90316 |
| `ParallelSweepDoc` | **violated**: `executeSweeps` sweeps the indices it was given | |
| `ParamSweep` | exact decoding, range and division safety, closest total and what is returned, stale steps; products that fit and that wrap | 266181 |
| `CompileCacheModels` | pointers, map and heap agree, and a process alone loads its files, for two models, two circuits that compile and one that does not | 1292 |
| `CompileCacheProcesses` | two processes, killed and interrupted at any time, share files and never execute the wrong one; a file is not loaded only for the reasons there are; every call ends | 557206 |
| `CompilePipe` | three calls in a row, with signals: no deadlock, nothing left behind, no success without all of the code unless interrupted | 4874 |
| `ModelText` | parser against printer, and `removeSeriesResitance` and the translators against the tree, for all strings of the circuits of `MCModelText`, with and without parameters; the parser on all strings of up to 5 characters | 91946 |
| `CdcDoc` | **violated**: `cdcToEis` gives the circuit that was described | |
| `ModelTree` | two models in every order of calls on one heap behave as values, own each element once, and compile to code with the right parameters | 3469 |
| `Spectra` | the functions on spectra for every spectrum of up to 6 points over a few values, for both parts, and for slopes; seven for the fit | 95402 |
| `SpectraDoc` | **violated**: `reduceRegion` returns the reduced data | |
| `CommandLine` | argument parsing against a reader from left to right, for all vectors of up to 3 of 18 elements and of up to 6 of 5; the modes on three circuits | 256654 |

### Bounds, and why they are enough

* `ParallelSweep`: the code wants 10 spectra per thread (`PerThread`); with 2
  and at most 3 threads, the totals reach one slot per thread and more, every
  remainder of the division, and calls below the threshold. Points = 2 tells a
  spectrum of mixed indices from a right one. Two parameters with a word of four
  bits have 6, 8 or 1 combinations, or none because a count is 0 or 8 * 2 wraps. The
  proofs need none of these bounds.
* `ParamSweep`: three parameters are the fewest with a digit that has neighbours
  on both sides; two of them belong to one element. The counts include 0 and 1,
  small ones whose products fit the word of 7 bits, and powers of two whose
  products wrap to 0, as a place magnitude too; the totals lie just below, on
  and above squares and cubes. One of the ranges given is not at its first
  value; 100 and one parameter stand for a total that `pow` rounds up.
* `CompileCache`: two models can share an object, two circuits can be confused,
  two addresses can be used again. Two processes race for the directory and
  for a file. One orphan for each process, which is not killed again before
  its orphan is done, still gives up to four compilers for one file. The run with
  one process has no signals, as `AloneLoadsItsFile` needs, the one with two has
  both signals and crashes.
* `CompilePipe`: `Capacity` 2 against 3 units makes both sides block;
  `FdLimit` 7 makes the second pipe of a call fail after one call has leaked
  its four descriptors.
* `ModelText`: three levels have a bracket in a bracket before, after and
  between others; three elements side by side have one in the middle. Capacitors
  have, and resistors may have, a parameter of the characters `0` and `-`, which
  mean something else outside of braces; resistors with it and without stand in
  front, between and behind others, where `removeSeriesResitance` has to erase
  it with the element. `Wide(9)` to `Wide(11)` lie around the ten digits. Five
  characters are enough for every ending of the parser, such as `(}{)` for a
  hang inside a bracket.
* `ModelTree`: two models are what copying and assignment need. Ten places hold
  two trees of the larger circuit, the old tree being deleted before the copy is
  made; one leaked element shifts all others. Models are interchangeable, hence
  the symmetry.
* `Spectra`: values -1, 0 and 300 at steps of 1 lie on either side of the
  thresholds, as do the factors 1/100, 1 and 2; `Tiny` is larger than the 1e-12
  of the code, but as far below every second derivative of these spectra that is
  not 0; 6 points are the first length for which `reduceRegion` can erase a
  range that ends before it begins. 0, 64, NaN and infinity put singular points
  at the ends, side by side and in the middle. Omegas 80, 84 and 88 with
  `Coarseness` 40 make a chain of near-equal neighbours. The ramps of
  `MCSpectra` rise and fall in every way, so that regions begin and end at any
  point. One to three points at decades in any order have a frequency to fit
  below, between, on and above them; of seven points, six are taken for a line,
  and which ones is open where two are equally far. Three points on a line over
  the logarithm would show a fit that goes on along it.
* `CommandLine`: with three elements every kind of option meets every other, its
  argument and an error; runs of words change places with runs of options in
  vectors of four and more, for which five elements suffice; `-20` is a cluster
  that ends before its first letter, and a number. The circuit with nine spectra
  has one that jumps, one that is linear, one that is not a number, and ones at
  two frequencies in the complex plane, so that being near is not transitive and
  no line orders them: one is near three which are apart from one another. The
  distances .03 and .2 lie on either side of theirs, with -20 nothing is near;
  parameters have a wide and a narrow range.

`CHECK_DEADLOCK FALSE` is in the runs in which the process may end (killed by
SIGFPE, SIGPIPE or `std::terminate`), the bound on calls is reached, or the
constructor, function or program under study is done.

### Fairness

* `ParallelSweep`: the caller's thread and every started thread go on (weak
  fairness of each): they block on nothing but each other. Nobody has to make a
  call, and threads do not have to fail to start.
* `CompileCache`: a process in `compile` goes on, and a compiler ends. Being
  killed is not fair.
* `CompilePipe`: caller and child are scheduled. The compiler does not have to
  give up, fork does not have to fail and no signal has to come; so a deadlock of
  the pipes would not be resolved by any of them.

### What the documentation says and the code does not

Three are runs that must be violated:

1. `executeSweeps` ignores the values of its `indecies`: `sweepThreadFn`
   executes slot i at index i (`model.cpp:423`; `model.h:125`).
2. `cdcToEis` turns what follows a combination in a series into a part of it:
   `R(RC)R` becomes `r-(rc)r` (`translators.cpp:268`; `translators.h:59`).
3. `reduceRegion` of a spectrum without a steep point erases a range that ends
   before it begins (`normalize.cpp:138`; `normalize.h:50`).

Others are exceptions that a property which holds spells out, or parts of a
model that no property is about:

* `normalize` does not shift the imaginary part, so that a capacitive spectrum
  ends up in -1 to 0 (`normalize.cpp:67-73`; "Normalizes the data to [0,1]",
  `normalize.h:38`). `RegionIsTheSteepPoints` says between what the imaginary
  parts of what `reduceRegion` leaves lie.
* `fitToFrequencies` without `linearExtrapolation` repeats the last point, where
  "base 10 logarithmic extrapolation" is announced (`basicmath.cpp:418`;
  `basicmath.h:173-178`; `FittedBetweenPoints`).
* A `write` that a signal interrupts returns a short count, which is not looked
  at: `compile_code` returns 0 for a compiler that was given a part of the code
  (`compile.cpp:82-85`, which throws "Could not pass code to compiler" only
  below 0; `model.h:244`; `ZeroMeansCompiled`).
* `setParamSweepCountClosestTotal` returns 1 for a sweep with no active
  parameter, also when a count is 0 and there is no spectrum (`model.cpp:319`;
  `model.h:86`; `ClosestFromBelow`).
* `compile` throws where it is said to return false (`model.h:244`): because
  the directory cannot be created or another process has just created it
  (`compcache.cpp:49-53`), because `compile_code` finds no descriptors, cannot fork
  or cannot write (`compile.cpp:45`, `48`, `53`, `84`), or because what was
  compiled cannot be loaded (`model.cpp:669`). `AloneLoadsItsFile` and
  `LoadsItsFile` say when the last can happen.
* `executeSweeps` of two indices or more kills the process with SIGFPE, out of a
  thread, when a count before the last is 0, or the product of those before one
  wraps to 0 (`model.cpp:423`, `487`; `DiesOnlyOfThese`).
* A compiler that ends early kills the process that called `compile`, by
  SIGPIPE (`compile.cpp:82`).
* Where SIGPIPE is ignored, a `compile_code` that throws at line 84 leaves the
  reading end of the output open, so that a compiler with much to print waits
  forever: `ChildEnds` leaves calls that throw out.
* `removeSeriesResitance` leaves one of several resistors in front: after it
  has erased one it goes on at index 1 (`model.cpp:760`; `model.h:337`).
  `SeriesResistanceRemoved` says that this is the only exception.
* An eleventh bracket is refused, because it has no digit (`ReadsWhatItPrints`),
  and `eisToCdc` silently gives another circuit for it (`EisToCdcKeepsCircuit`).
* A bracket that is not closed gives a model without elements, where
  `model.h:72` announces a `parse_errror`, and `}{` hangs; both need brackets or
  braces that do not match (`MatchedEndsWell`).
* The TorchScript of a closed transmission line is that of another element, and
  the open one has none (`model.h:290`; `CodeTakesFlatParameters`).
* `--hz` scales the range of `-o` (`main.cpp:353`), but not that of `-a`
  (`options.h:46`).
* `allElementsContribute` and `hasSeriesDifference` look at the outermost
  combination only, and the first ignores its `threashold` (`model.cpp:777-813`;
  `model.h:319-323`).
* The number of steps wraps in `size_t`, and does for the circuit of the
  benchmark (`bench.cpp:15`); what is left holds all the same, which is why
  `ResolvedStepsInRange` and `OnlyStrayIndexDies` are checked with a narrow
  word.

## Proofs

`ParallelSweep_proofs` proves, for any number of cores, threads, spectra,
frequencies and any requests, with no assumption but the types of the constants
(the ASSUMEs of `ParallelSweep` and `SweepIndex`):

* `TypeCorrect`: the type invariant;
* `PartitionCorrect`: the chunks [t*(n/m), (t+1)*(n/m)), the last one ending at
  n, cover 0..n-1 and are disjoint;
* `InvariantCorrect`: the inductive invariant `IInv`;
* `RaceFree`, `SpectraCorrect`, `CompleteOnReturn`: the safety properties of the
  run;
* `Implementation`: `ParallelSweep` implements `SweepCall`;
* `FilledOnce`, `DiesCorrect` (`DiesOnlyOfThese`): action properties.

The argument. Disjoint chunks alone do not make the threads race free: one has
to know that a thread stays in its chunk, that the chunks do not move while
threads are at work, and that a thread's model is still at the index the thread
resolved it to. That is `ThreadInv`: a started thread has `Start(t) <= slot[t]
<= Stop(t)`, strictly below `Stop(t)` while it works, and while it computes its
model is at `slot[t]` and the spectrum holds at most `slot[t]`. `CallerInv`
says which threads are started or joined: exactly those before `next`.
`DataInv` says that a chunk is filled up to its thread's slot and empty from
there; with every thread joined, `slot[t] = Stop(t)`, and with the partition
every slot is filled. The properties follow from `TypeOK /\ IInv`. Preservation
is proved action by action; the lemma `EverySlotHasThread` turns a slot into
the thread that owns it, `Chunks` and `DivisionBounds` are the arithmetic.
`StepSimulation` shows that `Store` is `Fill`, the caller's end is `Return`,
`Throw` or `Die`, and everything else a stutter. Of what the process dies follows
from `Inv`, which keeps every slot in the result so that `at()` never throws, and
from `ZeroPlaceZeroSteps`: where one place magnitude is 0, so is the number of
combinations, as a product that is 0 stays 0.

`Compile_proofs`, on the cache, for any processes, models, circuits and
addresses, and whatever is killed or refused by the disk:

* `FilesCorrect`: types, files, compilers and calls under way, however the
  application uses `dropAllObjects`;
* `InvariantCorrect`, `ExecutionCorrect`, `CacheCorrect`: the inductive
  invariant, `ExecutesItsCircuit` and `CacheExact`, if the application is
  `Disciplined`;
* `OnceCorrect`, `CacheKeptCorrect`: `CompiledOnce`, and with it `CacheKept`;
* `AloneCorrect`: `AloneLoadsItsFile`;
* `LoadCorrect`: `LoadsItsFile`.

That a model executes its own circuit needs a chain of facts. `FilesInv`: a file
that is complete holds the code of a circuit it is named after, whoever wrote
it; `JobsInv`: every compiler has a circuit to work on. `BusyInv`: what a
process is in the middle of compiling is not compiled yet, not in its map, and
stays the same until the call is over. `CompileableInv`: only circuits with code
get into the map. `PointersInv`: a model's pointer is the entry of the map for
its circuit; it is the one that needs the discipline. `ResultsInv` says whose
the last result is. `AloneInv`, for a process without company, says that its
compiler finds its own file and that nobody else makes the directory. For
`LoadCorrect` every file has one writer, whose job is the circuit it is named
after as long as it is at work, and which is `Child(p)` from the end of its
compiler to the load; the file is whole then, unless the code was cut off.

`Compile_proofs`, on `compile_code`, for any sizes, limits and number of calls:
`PipeInvariantCorrect`, `NothingLeft` (`NothingLeftBehind`) and `ZeroCorrect`
(`ZeroMeansCompiled`). `FdsInv` says which descriptors of the call are open at
each point. `CodeInv` says that what was sent was received or is in the pipe,
that a child that still has to read has an end to read from, so that the caller
closes its own only when everything is written or a signal interrupts it, and
that a child which succeeds without such a signal has received all of it.
`CallInv` ties the child to the call.

`ParamSweep_proofs` proves every property of its run, for any number of
parameters, counts and word. The assumptions are `IndexAssumption` and
`SweepAssumption`, the types, and `PowAssumption`, that the floating point root
is exact for powers of 1 and 2 and a total that is rounded up does not wrap. The
argument: the recursive functions exist, by induction on sets of places from
well-foundedness; a place magnitude is the product of the counts below it,
modulo the word. A product that is 0 stays 0 above, so a positive number of
required steps means that every place magnitude is positive: nothing divides by
zero. The remainder at a place is less than the magnitude of the next one, which
is at most magnitude times count, so the quotient is less than the count: steps
are in range even where products have wrapped. If they do not wrap, two indices
with the same steps are equal, place by place upwards (`StepsInjective`), and a
bijection gives the number of different steps (`EverySpectrumOnce`). For the
chosen total, `UniformProduct` makes the product of equal counts a power, which
is monotone in its base. A step stays below its count when an index below the
required number is resolved, and a step of 0 stays below any count but 0
(`StrandedCorrect`).

`CommandLine_proofs` proves every property of its run, for any vector of
arguments, table of abbreviations, circuits and settings; assumed are the types
of the constants (`ElementsAssumption`, `NumbersAssumption`,
`CircuitsAssumption`, which also says that no parameter exceeds `Largest`,
`LargestAssumption`).

* `ExchangeRotates`: `exchange`, the loop of `getopt.c:322` that swaps ever smaller
  segments, is a rotation, by induction over its rounds;
* `ParsingFollowsReference`: the inductive invariant of the parsing, `ParseInv`;
* `OptionsInOrder` (`ParsedInOrder`) and `WordsComeLast` (`PermutedStably`);
* `SelectionFollowsRule`: that of the choice of spectra, `SelectInv`;
* `ChosenAreApart` (`IsoDifferenceSet`) and `RangesCover` (`FoundRangesCover`).

The reference reads the vector as it was given: `Reading` is a recursive function
of how many elements have been read, `ReadLetters` of how many letters of a
cluster. `Settled` and `InCluster` say that the parser has come as far as they
have, with the same settings. What makes this inductive although the vector
changes while it is read is `Laid`: every element before `optind` is either a
word that was skipped, and then stands in the run from `firstNonopt` to
`lastNonopt` behind the words skipped before it, or has moved to the front by as
many places as words were skipped before it; the elements from `optind` on are
where they were. That is counting (`Counting`), and an exchange keeps it because
it is a rotation. For the selection, `KeptInv` says that what is kept is what
the rule keeps of the spectra so far, and `ValuesInv` that the values recorded
with them are theirs, which with threads needs that the steps are resolved
again. That the spectra kept are apart in either order needs that `eisDistance` is
symmetric (`ApartBothWays`, by induction over the frequencies, and `NearBothWays`).

`ModelTree_proofs` proves every property of its run, for any circuits, models
and size of the heap; assumed are that a circuit is a tree in postfix order, in
which only the leaves have no children and every node but the last has a parent
(`PlansAssumption`), and that `Null` and `Absent` are no places
(`PlacesAssumption`, `ValuesAssumption`).

* `TreesStayWhole`: the inductive invariant `TreeInv`;
* `EveryElementIsOwnedOnce` (`OwnedOnce`), `CodeTakesWhatExecutePasses`
  (`CodeTakesFlatParameters`);
* `ModelsAreValues`: `ModelTree` implements `ModelValues` (`ImplementsValues`).

What is said of trees is said by recursive functions on the heap: what a tree
holds, its leaves, the copy of it. They exist and can be reasoned about because
the heap is `Grounded`: children lie below their parents, as constructors and
copies allocate them first. That gives an induction over trees. A tree depends
only on its own places, so that whatever is done elsewhere leaves it as it is;
`Split` says that the places are divided between the models (`Owned`) and what
was left behind. `Turns` is what construction, copying, assignment, and
destruction have in common: one model gives up all its places and takes others
that were free. `Copies` and `Mirrors` say that the new tree is the old one, or
the circuit, at other places; then both have the same value, the values of the
others have not changed, and each step is one of `ModelValues` or a stutter.
A kept list of leaves is that of the present tree: this is part of `TreeInv`,
since `getFlatComponants` returns it unseen, and assignment and construction
must reset it.

`Spectra_proofs` proves every property of its run, for spectra of any length
with any omegas and impedances of either part, infinities and NaN among them,
any sizes, any `gradThreshFactor`, any positive threshold of the second
derivative and any width of `fvalueEq` (`InputsAssumption` is the types; the
frequencies to fit to are powers of ten, as only these have a logarithm in the
model):

* `ReadsOutsideAreThese` (`OnlyTheseReadOutside`);
* `SingularitiesAreErased` (`SingularitiesErased`);
* `RegionsAreTheSteepPoints` (`RegionIsTheSteepPoints`);
* `DuplicatesAreRemoved` (`DuplicatesRemoved`);
* `RescaledBetween` and `FittedBetween`, which together are `ResampledBetween`
  (`ResampledBetweenPoints`).

The functions are called once, on an input (`Ready`); the proofs are about the
functions. Greatest common divisors exist and divide, so that the arithmetic on
reduced fractions is that of fractions; over a common denominator finite values
are ordered as integers are (`CommonDenominator`, `LeqIs`).

* `reduceRegion`: a value of every rank exists in a finite set of values, so
  the median is reached by some value (`MedianReached`) and a factor of at most 1
  of it cannot exceed all of them: the first derivative then always has a steep
  point among the inner ones, whose end gradients repeat theirs
  (`FirstNotAllBelow`). A range that ends before it begins needs all gradients but
  the first to be below (`OnlyAllBelow`). The values that are left are those that
  `Normalized` bounds, for each part.
* `eraseSingularites`: both walks stop before the ends, if they do not begin
  there, and next to a NaN no slope is steep (`RightOfNan`). By induction over
  the points, what has been passed is `Sound`: finite and between two values of
  the spectrum; what takes the place of a singular point is the middle of two
  sound values. For one singular point, whatever it is, the walks end on
  regular points.
* `removeDuplicates`: the sort is a selection of any that is least of the rest;
  what it has selected is in order and not above the rest (`InOrder`). To erase
  the first of two near points keeps the order (`TwinRemoved`); a pass that finds
  none has no near neighbours left, and there are fewer passes than points.
  Without chains, each point erased is near one that stays.
* `rescale`: a position is a fraction that lies at or after its whole part and
  before the next, so its weight is from 0 on and less than 1, and what is mixed
  lies between two neighbours (`MixBetween`); only the last position reaches the
  last point.
* `fitToFrequencies`: the first of the nearest points on a side is the nearest of
  all on that side (`NearestEnds`), whatever their order; with a neighbour on
  both, a line between them stays between them (`InterpolateBetween`). With
  neighbours on one side only, the regression line through one impedance has
  no slope (`FlatLine`): its numerator is 0, and its denominator is not, because
  n times the sum of the squares is more than the square of the sum, unless all
  points lie at one omega (`SpreadOut`, by induction over the sum). The nearest
  six, in whichever order the sort leaves, are not at one omega, by a pigeonhole
  (`NotAtOne`).

`ModelText_proofs` proves what the parser promises of every string, of any
length and nesting. Assumed is only that inputs are sequences of characters
(`InputsAssumption`); that braces or brackets match is a premise of each
property, not of the specification.

* `ParserInvariant`: the inductive invariant `ParserInv`;
* `EveryElementIsInTheModel` (`EveryElementOnce`);
* `MatchedStringsEndWell` (`MatchedEndsWell`);
* `NoMoreBracketsThanTyped`: finished brackets and those that are left are
  together no more than the input had, so the rounds of `processBrackets` are
  numbered.

`EveryElementOnce` is not inductive. A digit stands for a bracket only if it
refers to one that is finished (`ElementsKept`); a new digit is there for every
bracket only because each replacement leaves one bracket less (`BracesKept`);
and what is cut out is a bracket with its contents, not a piece of a parameter,
only because braces are kept matching. For `MatchedEndsWell` brackets have to be
kept matching too (`MatchedKept`).

* Brackets and braces are counted: `Depth` at a place, which changes by one at
  most from a character to the next. A piece of a string nests as it does
  elsewhere (`DepthShift`), so that replacing a piece that opens as much as it
  closes leaves the depth of everything behind it (`ReplacedDepth`).
* `opposingBraket` returns the first place after a bracket where the depth is
  what it was before (`ClosedBracket`, `OpposingBrace`), which exists if brackets
  match.
* What `ElementsAt` says of a character depends on the piece around it
  (`ElemSame`), so the elements of a string are those of its pieces in a row
  (`Row`, `PieceElements`). `tokenize` cuts where no brace is open and drops only
  the `-` (`TokenizeElements`, by induction over its walk).
* The loop over a token advances at every character and arrives at the end
  after no more rounds than the token is long (`ScanArrives`): the jump over a
  parameter ends at the brace that closes it, and without an open brace there is
  no jump to `npos`. What it has passed is what it has made (`ScanElements`).
* Hence a bracket is turned into a tree with its elements (`ProcessElements`),
  and the digit in its place stands for them (`ReplacedElements`).

For these proofs `ModelText` was rewritten without RECURSIVE operators, and the
trees it makes are in postfix order, so that their elements are a filtered
sequence; what needs nested trees moved to `Printer`.

Three definitions of `Spectra` were corrected because of the proofs. `Hull`
allowed an infinite value as a bound. `Less` put minus infinity not below
infinity. What is now `FittedBetweenPoints` was false outside of the instance:
where omegas are nearly but not quite equal, the point taken need not be next to
the frequency, and six points at one omega have no slope; both are spelled out
now (`Constant`).

Only model-checked:

* liveness (`CallEnds`, `CompileEnds`, `ChildEnds`), which is out of the prover's
  reach;
* what compares strings with circuits: `ReadsWhatItPrints`,
  `SeriesResistanceRemoved`, and the properties of the translators. Printing,
  `eisRemoveUnneededBrackets` and the translators are recursive on circuits, and
  what they do for every circuit would need induction over them with RECURSIVE
  operators, which the prover does not take.

## What is left

The rest of `basicmath.cpp` (below) as sums over short vectors; impedances with
both parts in `Spectra`; the discipline of `dropAllObjects` for a `bench.cpp`
with several models; and circuits in postfix order for the printer too, for
which `ReadsWhatItPrints` could be proved.

## Not modelled

* The impedance formulas of the elements, and the text of the code and the
  scripts made from them: values of floating point and layout.
* `mulitplyAdd`, `noise`, `pearsonCorrelation`, `nonConstantScore`,
  `nyquistAreaVariance`, `maximumNyquistJump`, `eisNyquistDistance` and
  `difference` of `basicmath.cpp`: sums without a decision. Their results are data
  of the circuits of `CommandLine`.
* Rounding. Values are exact but for what `PowShort`, `PowOver` and `Tiny` say.
* Spectra with both parts at once in `Spectra`, where gradients are absolute values
  of complex numbers; a whole `reduceRegion` of both.
* What `--paramsteps` does to the circuit, whose counts are data of `Circuits`; the
  conversion of a negative `double` to `size_t`, which is undefined; a NaN or
  infinity for a distance, and clusters of options whose letters spell one.
* How much a pipe really holds (64 KiB): any `Capacity` below the code's size is as
  good. The handle that is not closed when `dlsym` fails.
* In `CompileCache`, the compiler of a `compile_code` that throws because a signal
  came before anything was written: it waits for code until its caller ends.
* `getModelStr` without parameters, logging, random numbers, and the layout of
  `--help` (`argp-help.c`, `argp-fmtstream.c`): text.
* Benchmark, tests and examples use the library in orders the models allow.
* The Windows port, whose `compile_code` only returns an error, and
  dlfcn-win32, which is vendored.
* `compile` called by several threads of one process (`model.cpp:652`): nothing
  says it may be. An application that ignores SIGCHLD (`compile.cpp:96`), for
  which `waitpid` fails.
* `kisstype`, where `Range` lives, is a submodule whose source is not here; of it
  `count`, `step` and, on the command line, start, end and spacing are used.
