-------------------------------- MODULE Getopt ---------------------------------
(***************************************************************************)
(* argp_parse of src/argp/argp-parse.c with _getopt_internal_r of          *)
(* src/argp/getopt.c: the elements of argv are permuted until the words    *)
(* that are no option come last, and each option is handed to the parser   *)
(* it belongs to.  argp_parse is called once, with no flags, so that       *)
(* state.next and optind are one counter.  argv[0] is left out: element k  *)
(* is argv[k].                                                             *)
(***************************************************************************)
EXTENDS Options, Sequences, FiniteSets

CONSTANTS
    CommandLines,   \* the argument vectors to begin with
    Abbreviations,  \* function from a prefix to the option names it begins
    Texts           \* function from dashed elements that may be numbers to tokens

VARIABLES
    argv,
    optind,
    firstNonopt,    \* the words that were skipped are argv[firstNonopt]
    lastNonopt,     \*   to argv[lastNonopt - 1]
    nextchar,       \* what is left of a cluster of short options
    posixly,        \* POSIXLY_CORRECT is set: REQUIRE_ORDER, otherwise PERMUTE
    given,          \* argv as it was given, before it is permuted
    config,
    exit,
    pc

scanVars == <<argv, optind, firstNonopt, lastNonopt>>
environment == <<posixly, given>>
getoptVars == <<scanVars, nextchar, environment, config, exit, pc>>

\* The elements of argv: a word; "--name" or "--name=text"; a "-" with letters
\* and the text behind them; "--".  NoText is the absence of an argument.
NoText == "(none)"
Word(text) == [kind |-> "word", text |-> text]
Long(name, text) == [kind |-> "long", name |-> name, text |-> text]
Short(letters, text) == [kind |-> "short", letters |-> letters, text |-> text]
Quote == [kind |-> "quote"]

\* An element taken as an argument: "-20" is as good as "20".  All others that
\* begin with a "-" are one token, which is no number.
TextOf(element) ==
    IF element.kind = "word" THEN element.text
    ELSE IF element \in DOMAIN Texts THEN Texts[element]
    ELSE "-dashed"

\* The letters behind an option that takes an argument are its argument.
Attached(cluster) ==
    CASE cluster.letters = <<>> -> cluster.text
      [] Len(cluster.letters) = 1 /\ cluster.text = NoText -> cluster.letters[1]
      [] OTHER -> "lettered"

NothingLeft == [letters |-> <<>>, text |-> NoText]

\* A "-" with nothing behind it is a word.
IsElement(element) ==
    \/ element = Quote
    \/ element.kind = "word" /\ element = Word(element.text)
    \/ element.kind = "long" /\ element = Long(element.name, element.text)
    \/ /\ element.kind = "short" /\ element = Short(element.letters, element.text)
       /\ element.letters \in Seq(STRING)
       /\ element.letters # <<>> \/ element.text # NoText

ASSUME ElementsAssumption ==
    /\ \A args \in CommandLines :
         args \in Seq({element \in {args[k] : k \in DOMAIN args} : IsElement(element)})
    /\ \A name \in DOMAIN Abbreviations : IsFiniteSet(Abbreviations[name])

-------------------------------------------------------------------------------
(***************************************************************************)
(* The options of the three parsers; of two with one name the first counts *)
(***************************************************************************)
DefaultOptions == "help" :> "?" @@ "usage" :> "OPT_USAGE"
                  @@ "program-name" :> "OPT_PROGNAME" @@ "HANG" :> "OPT_HANG"
VersionOptions == "version" :> "V"

LongOptions == UserOptions @@ DefaultOptions @@ VersionOptions
ShortOptions == UserKeys \cup {"?", "V"}
RequiresArgument(key) == key \in UserArguments \cup {"OPT_PROGNAME"}
AcceptsArgument(key) == RequiresArgument(key) \/ key = "OPT_HANG"

\* An exact match wins over all abbreviations.
Matches(name) ==
    IF name \in DOMAIN LongOptions THEN {name}
    ELSE IF name \in DOMAIN Abbreviations THEN Abbreviations[name]
    ELSE {}

\* group_parse with argp_default_parser and argp_version_parser.
GroupParse(key, token, settings) ==
    CASE key \in UserKeys -> ParseOpt(key, token, settings)
      [] key \in {"?", "OPT_USAGE", "V"} -> Ends(settings, 0)
      [] OTHER -> Goes(settings)

-------------------------------------------------------------------------------
(***************************************************************************)
(* exchange: the shorter of two adjacent segments is swapped with the far  *)
(* end of the longer one, over and over.                                   *)
(***************************************************************************)
SwapSegments(args, from, to, len) ==
    [k \in DOMAIN args |->
       IF k \in from..(from + len - 1) THEN args[k - from + to]
       ELSE IF k \in to..(to + len - 1) THEN args[k - to + from]
       ELSE args[k]]

ExchangeRound(s, middle) ==
    LET lower == middle - s.bottom
        upper == s.top - middle
    IN  IF ~(upper > 0 /\ lower > 0) THEN s
        ELSE IF upper > lower
        THEN [s EXCEPT !.args = SwapSegments(@, s.bottom, s.top - lower, lower),
                       !.top = @ - lower]
        ELSE [s EXCEPT !.args = SwapSegments(@, s.bottom, middle, upper),
                       !.bottom = @ + upper]

Exchange(args, bottom, middle, top) ==
    LET round[n \in 0..(top - bottom)] ==
          IF n = 0 THEN [args |-> args, bottom |-> bottom, top |-> top]
          ELSE ExchangeRound(round[n - 1], middle)
    IN  round[top - bottom].args

OptionsFirst_Forgets(s) ==      \* Variant: what was skipped keeps its old indices
    IF s.first # s.last
    THEN IF s.last = s.optind THEN s
         ELSE [s EXCEPT !.argv = Exchange(s.argv, s.first, s.last, s.optind)]
    ELSE [s EXCEPT !.first = s.optind]

\* The options that were met since words were skipped go before these words.
OptionsFirst(s) ==
    IF s.first # s.last
    THEN IF s.last = s.optind THEN s
         ELSE [s EXCEPT !.argv = Exchange(s.argv, s.first, s.last, s.optind),
                        !.first = s.first + (s.optind - s.last),
                        !.last = s.optind]
    ELSE [s EXCEPT !.first = s.optind]

Argc == Len(argv) + 1
IsWord(s, k) == k <= Len(s.argv) /\ s.argv[k].kind = "word"

SkipWords(s) ==
    LET next == CHOOSE k \in s.optind..Argc :
                  ~IsWord(s, k) /\ \A j \in s.optind..(k - 1) : IsWord(s, j)
    IN  [s EXCEPT !.optind = next, !.last = next]

PassQuote_GoesOn(s) ==      \* Variant: options are looked for behind "--"
    SkipWords(OptionsFirst([s EXCEPT !.optind = @ + 1]))

\* "--" is passed like an option, and everything behind it like words.
PassQuote(s) ==
    [OptionsFirst([s EXCEPT !.optind = @ + 1]) EXCEPT !.last = Argc, !.optind = Argc]

\* With no flags the option string begins with neither "-" nor "+".
RequireOrder == posixly

NextElement(s) ==
    LET permuted == IF RequireOrder THEN s ELSE SkipWords(OptionsFirst(s))
        quoted == permuted.optind < Argc /\ permuted.argv[permuted.optind] = Quote
    IN  IF quoted THEN PassQuote(permuted) ELSE permuted

-------------------------------------------------------------------------------
Init ==
    /\ argv \in CommandLines
    /\ given = argv
    /\ posixly \in BOOLEAN
    /\ optind = 1 /\ firstNonopt = 1 /\ lastNonopt = 1
    /\ nextchar = NothingLeft
    /\ config = DefaultConfig
    /\ exit = NoExit
    /\ pc = "scan"

\* The scan ends behind the options: optind goes back to the words.
Advance ==
    /\ pc = "scan"
    /\ nextchar = NothingLeft
    /\ LET s == NextElement([argv |-> argv, optind |-> optind,
                             first |-> firstNonopt, last |-> lastNonopt])
           ends == s.optind = Argc \/ IsWord(s, s.optind)
       IN  /\ argv' = s.argv
           /\ firstNonopt' = s.first
           /\ lastNonopt' = s.last
           /\ optind' = IF s.optind = Argc /\ s.first # s.last THEN s.first ELSE s.optind
           /\ pc' = IF ends THEN "arguments" ELSE s.argv[s.optind].kind
           /\ nextchar' = IF ~ends /\ s.argv[s.optind].kind = "short"
                          THEN [letters |-> s.argv[s.optind].letters,
                                text |-> s.argv[s.optind].text]
                          ELSE NothingLeft
    /\ UNCHANGED <<environment, config, exit>>

Continue ==
    /\ pc = "scan"
    /\ nextchar # NothingLeft
    /\ pc' = "short"
    /\ UNCHANGED <<scanVars, nextchar, environment, config, exit>>

\* getopt returns an option, and argp calls its parser.
Option(key, token, next, rest) ==
    LET result == GroupParse(key, token, config)
    IN  /\ config' = result.config
        /\ exit' = result.exit
        /\ pc' = IF result.exit = NoExit THEN "scan" ELSE "ended"
        /\ optind' = next
        /\ nextchar' = rest
        /\ UNCHANGED <<argv, firstNonopt, lastNonopt, environment>>

\* getopt returns '?': argp prints the usage and exits.
Usage ==
    /\ exit' = UsageExit
    /\ pc' = "ended"
    /\ UNCHANGED <<scanVars, nextchar, environment, config>>

LongOption ==
    /\ pc = "long"
    /\ LET element == argv[optind]
           names == Matches(element.name)
           key == LongOptions[CHOOSE name \in names : TRUE]
       IN  IF Cardinality(names) # 1 THEN Usage
           ELSE IF element.text # NoText
           THEN IF AcceptsArgument(key)
                THEN Option(key, element.text, optind + 1, NothingLeft)
                ELSE Usage
           ELSE IF ~RequiresArgument(key) THEN Option(key, NoText, optind + 1, NothingLeft)
           ELSE IF optind + 1 < Argc
           THEN Option(key, TextOf(argv[optind + 1]), optind + 2, NothingLeft)
           ELSE Usage

\* The rest of the cluster is the argument, or the next element is.
ShortArgument(key, rest, next) ==
    IF ~RequiresArgument(key) THEN Option(key, NoText, next, rest)
    ELSE IF rest # NothingLeft THEN Option(key, Attached(rest), optind + 1, NothingLeft)
    ELSE IF next < Argc THEN Option(key, TextOf(argv[next]), next + 1, NothingLeft)
    ELSE Usage

\* optind moves on with the last letter of a cluster.
ShortOption ==
    /\ pc = "short"
    /\ LET key == Head(nextchar.letters)
           rest == [nextchar EXCEPT !.letters = Tail(@)]
           next == IF rest = NothingLeft THEN optind + 1 ELSE optind
       IN  IF nextchar.letters = <<>> \/ key \notin ShortOptions THEN Usage
           ELSE ShortArgument(key, rest, next)

\* No parser takes an argument that is no option.
Finalize ==
    /\ pc = "arguments"
    /\ IF optind < Argc THEN Usage
       ELSE /\ pc' = "parsed"
            /\ UNCHANGED <<scanVars, nextchar, environment, config, exit>>
================================================================================
