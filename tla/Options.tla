-------------------------------- MODULE Options --------------------------------
(***************************************************************************)
(* src/options.h: the options of eisgenerator_export and what each of them *)
(* does to the Config.  An argument is a token; Doubles, Counts and Ranges *)
(* say what std::stod, std::stoul and eis::Range::fromString read in it,   *)
(* each in its own way: "-20" is a number to both of the first two, ".5" *)
(* to one of them.  What a double stands for is counted in hundredths.     *)
(***************************************************************************)
EXTENDS Integers, TLC

CONSTANTS
    Doubles,        \* function from the tokens that stod takes, in hundredths
    Counts,         \* function from the tokens that stoul takes
    Ranges,         \* function from the tokens that fromString takes
    Overflowing     \* set of <<conversion, token>> that throw std::out_of_range

ASSUME NumbersAssumption ==
    /\ \A token \in DOMAIN Doubles : Doubles[token] \in Int
    /\ \A token \in DOMAIN Counts : Counts[token] \in Nat

\* Exit codes: argp_err_exit_status, and a std::terminate.
NoExit == -1
UsageExit == 64
Aborted == 134

UserOptions ==
    "verbose" :> "v" @@ "quiet" :> "q" @@ "param" :> "s" @@ "model" :> "m"
    @@ "omega" :> "o" @@ "extrapolate" :> "a" @@ "omegasteps" :> "c" @@ "linear" :> "l"
    @@ "normalize" :> "n" @@ "reduce" :> "r" @@ "hz" :> "h" @@ "invert" :> "i"
    @@ "noise" :> "x" @@ "input-type" :> "t" @@ "mode" :> "f" @@ "range-distance" :> "d"
    @@ "parallel" :> "p" @@ "skip-linear" :> "e" @@ "default-to-range" :> "b"
    @@ "no-compile" :> "z" @@ "save" :> "y"

UserArguments == {"s", "m", "o", "a", "c", "x", "t", "f", "d", "y"}

DefaultConfig ==
    [modelStr |-> "default", inputType |-> "eis", mode |-> "normal", level |-> "info",
     paramSteps |-> 10, rangeDistance |-> 35, noise |-> 0, saveFileName |-> "",
     omegaRange |-> [start |-> 1, end |-> 1000000, log |-> TRUE, count |-> 50],
     extrapolateRange |-> [start |-> 0, end |-> 0, log |-> FALSE, count |-> 1],
     extrapolate |-> FALSE, normalize |-> FALSE, reduce |-> FALSE, hertz |-> FALSE,
     invert |-> FALSE, threaded |-> FALSE, skipLinear |-> FALSE,
     defaultToRange |-> FALSE, noCompile |-> FALSE]

ParseInputType(token) ==
    IF token \in {"eis", "boukamp", "relaxis", "madap"} THEN token ELSE "unknown"

\* "export" gives INPUT_TYPE_EIS, which is 0, as is MODE_NORMAL.
Modes == "export" :> "normal" @@ "find-range" :> "find-range"
         @@ "export-ranges" :> "export-ranges" @@ "code" :> "code" @@ "script" :> "script"
ParseMode(token) == IF token \in DOMAIN Modes THEN Modes[token] ELSE "invalid"

-------------------------------------------------------------------------------
Switches ==
    [n |-> "normalize", r |-> "reduce", h |-> "hertz", i |-> "invert", p |-> "threaded",
     e |-> "skipLinear", b |-> "defaultToRange", z |-> "noCompile"]
Names == [m |-> "modelStr", y |-> "saveFileName"]
Measures == [x |-> "noise", d |-> "rangeDistance"]

\* The keys that parse_opt knows; each is that of one option.
UserKeys == DOMAIN Switches \cup DOMAIN Names \cup DOMAIN Measures
            \cup {"v", "q", "l", "s", "c", "o", "a", "t", "f"}

Goes(config) == [config |-> config, exit |-> NoExit]
Ends(config, code) == [config |-> config, exit |-> code]

\* A conversion: its std::invalid_argument is caught for some keys only, its
\* std::out_of_range for none; the configuration is stored to after it.
Conversions == [stod |-> Doubles, stoul |-> Counts, fromString |-> Ranges]
Read(conversion, token, config, ifInvalid, stored) ==
    IF <<conversion, token>> \in Overflowing THEN Ends(config, Aborted)
    ELSE IF token \notin DOMAIN Conversions[conversion] THEN Ends(config, ifInvalid)
    ELSE Goes(stored)

\* A double as a size_t.  For a negative one C++ leaves it open what that is;
\* here it stays negative.
Whole(hundredths) ==
    IF hundredths < 0 THEN -((-hundredths) \div 100) ELSE hundredths \div 100

\* -o replaces the whole range but for its count; -a takes the count and the
\* spacing that the range has when the option is met.
StoreOmega(config, range) ==
    [config EXCEPT !.omegaRange = [count |-> config.omegaRange.count] @@ range]
StoreExtrapolate(config, range) ==
    [config EXCEPT !.extrapolate = TRUE,
                   !.extrapolateRange = [log |-> config.omegaRange.log,
                                         count |-> config.omegaRange.count] @@ range]
ParseOpt(key, token, config) ==
    CASE key = "q" -> Goes([config EXCEPT !.level = "error"])
      [] key = "v" -> Goes([config EXCEPT !.level = "debug"])
      [] key = "l" -> Goes([config EXCEPT !.omegaRange.log = FALSE])
      [] key \in DOMAIN Switches -> Goes([config EXCEPT ![Switches[key]] = TRUE])
      [] key \in DOMAIN Names -> Goes([config EXCEPT ![Names[key]] = token])
      [] key \in DOMAIN Measures ->
           Read("stod", token, config, Aborted,
                [config EXCEPT ![Measures[key]] = Doubles[token]])
      [] key = "s" ->
           Read("stod", token, config, Aborted,
                [config EXCEPT !.paramSteps = Whole(Doubles[token])])
      [] key = "c" ->
           Read("stoul", token, config, UsageExit,
                [config EXCEPT !.omegaRange.count = Counts[token]])
      [] key = "o" ->
           Read("fromString", token, config, UsageExit,
                StoreOmega(config, Ranges[token]))
      [] key = "a" ->
           Read("fromString", token, config, UsageExit,
                StoreExtrapolate(config, Ranges[token]))
      [] key = "t" -> Goes([config EXCEPT !.inputType = ParseInputType(token)])
      [] key = "f" -> Goes([config EXCEPT !.mode = ParseMode(token)])
================================================================================
