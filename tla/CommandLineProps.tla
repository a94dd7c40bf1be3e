--------------------------- MODULE CommandLineProps ---------------------------
(***************************************************************************)
(* What the user of eisgenerator_export relies on: options count in the    *)
(* order in which they were given, wherever the words stand; the choice of *)
(* spectra does not depend on threads; and what is printed is of the       *)
(* spectra that were chosen.                                               *)
(***************************************************************************)
EXTENDS CommandLine, Counting

(***************************************************************************)
(* The reference reads the vector once from left to right and never moves  *)
(* anything.                                                               *)
(***************************************************************************)
\* An option that needs an argument and does not have it with it.
TakesNext(element) ==
    \/ /\ element.kind = "long" /\ element.text = NoText
       /\ \E name \in Matches(element.name) : RequiresArgument(LongOptions[name])
    \/ /\ element.kind = "short" /\ element.text = NoText
       /\ RequiresArgument(Last(element.letters))
       /\ \A j \in 1..(Len(element.letters) - 1) : ~RequiresArgument(element.letters[j])

\* Which elements are arguments of the options before them.
IsArgument(args) ==
    LET is[k \in 0..Len(args)] == k > 1 /\ ~is[k - 1] /\ TakesNext(args[k - 1])
    IN  is

\* Options are looked for up to "--", or up to a word.
Stop(args, stopAtWord) ==
    LET is == IsArgument(args)
        stops == {k \in DOMAIN args :
                    ~is[k] /\ (args[k] = Quote \/ (stopAtWord /\ args[k].kind = "word"))}
    IN  CHOOSE k \in stops \cup {Len(args) + 1} : \A j \in stops : k <= j

\* The places of the elements that are neither options nor arguments of options:
\* all behind "--", and the words that the reading passes.
Strays(args) ==
    LET is == IsArgument(args)
    IN  {k \in DOMAIN args :
           k > Stop(args, FALSE) \/ (~is[k] /\ args[k].kind = "word")}

Wrong(settings) == Ends(settings, UsageExit)

ReadLong(args, k, settings) ==
    LET element == args[k]
        names == Matches(element.name)
        key == LongOptions[CHOOSE name \in names : TRUE]
        next == element.text = NoText /\ RequiresArgument(key)
    IN  IF \/ Cardinality(names) # 1
           \/ element.text # NoText /\ ~AcceptsArgument(key)
           \/ next /\ k = Len(args)
        THEN Wrong(settings)
        ELSE GroupParse(key, IF next THEN TextOf(args[k + 1]) ELSE element.text, settings)

ReadLetter(args, k, j, settings) ==
    LET key == args[k].letters[j]
        rest == [letters |-> SubSeq(args[k].letters, j + 1, Len(args[k].letters)),
                 text |-> args[k].text]
    IN  IF key \notin ShortOptions THEN Wrong(settings)
        ELSE IF ~RequiresArgument(key) THEN GroupParse(key, NoText, settings)
        ELSE IF rest # NothingLeft THEN GroupParse(key, Attached(rest), settings)
        ELSE IF k < Len(args) THEN GroupParse(key, TextOf(args[k + 1]), settings)
        ELSE Wrong(settings)

\* A cluster goes on up to a letter with an argument; text behind the last letter
\* is the argument of a letter.
ReadLetters(args, k, settings) ==
    LET letters == args[k].letters
        read[j \in 0..(Len(letters) + 1)] ==
          IF j = 0 THEN Goes(settings)
          ELSE IF \/ read[j - 1].exit # NoExit
                  \/ \E i \in 1..(j - 1) : RequiresArgument(letters[i])
          THEN read[j - 1]
          ELSE IF j <= Len(letters) THEN ReadLetter(args, k, j, read[j - 1].config)
          ELSE IF args[k].text = NoText THEN read[j - 1] ELSE Wrong(read[j - 1].config)
    IN  read

ReadShort(args, k, settings) == ReadLetters(args, k, settings)[Len(args[k].letters) + 1]

\* What the elements up to k come to.
Reading(args, stopAtWord) ==
    LET is == IsArgument(args)
        stop == Stop(args, stopAtWord)
        read[k \in 0..Len(args)] ==
          IF k = 0 THEN Goes(DefaultConfig)
          ELSE IF read[k - 1].exit # NoExit \/ k >= stop \/ is[k] \/ args[k].kind = "word"
          THEN read[k - 1]
          ELSE IF args[k].kind = "long" THEN ReadLong(args, k, read[k - 1].config)
          ELSE ReadShort(args, k, read[k - 1].config)
    IN  read

Expected ==
    LET result == Reading(given, posixly)[Len(given)]
    IN  IF result.exit = NoExit /\ Strays(given) # {} THEN Wrong(result.config) ELSE result

\* However the words are moved about, and however options are abbreviated or
\* clustered, the options take effect as they were given from left to right,
\* the first that is in error ends the program, and only a stray word is a usage
\* error beyond that (getopt.c, argp-parse.c and parse_opt).
ParsedInOrder ==
    /\ pc = "parsed" => config = Expected.config /\ Expected.exit = NoExit
    /\ pc = "ended" /\ Expected.exit # NoExit => exit = Expected.exit

\* When no options are left, the elements stand as they were given, but for the
\* stray ones, which come last: getopt.c:334 "the ARGV-elements have been permuted
\* so that those that are not options now come last".
PermutedStably ==
    pc = "arguments" /\ ~posixly =>
      LET strays == Strays(given)
          others == DOMAIN given \ strays
      IN  /\ Len(argv) = Len(given)
          /\ optind = Cardinality(others) + 1
          /\ \A i \in others : argv[1 + Before(others, i)] = given[i]
          /\ \A i \in strays : argv[optind + Before(strays, i)] = given[i]

-------------------------------------------------------------------------------
\* Chosen by the rule alone: an index is taken when its spectrum is meaningful and
\* far from those of all that were taken before it.
Chosen(n) ==
    LET Taken[i \in 0..n] ==
          IF i = 0 THEN {}
          ELSE IF /\ Meaningful(i - 1)
                  /\ \A j \in Taken[i - 1] : ~Near(i - 1, j)
               THEN Taken[i - 1] \cup {i - 1} ELSE Taken[i - 1]
    IN  Taken[n]

\* getRangeValuesForModel and getRecommendedParamIndices choose the same spectra,
\* with threads and without, no two of them near each other and every meaningful
\* one either chosen or near one that is; they are looked at in the order of the
\* sweep.  A spectrum of NaN is near none and always chosen.
IsoDifferenceSet ==
    pc \in {"find", "recommend"} =>
      LET done == {i \in 0..(Count - 1) : i < index}
      IN  /\ ToSet(kept) = Chosen(index)
          /\ \A k \in DOMAIN kept : \A l \in 1..(k - 1) :
               kept[l] < kept[k] /\ ~Near(kept[l], kept[k])
          /\ \A i \in done : Meaningful(i) =>
               \E k \in DOMAIN kept : i = kept[k] \/ Near(i, kept[k])

\* The ranges that findRanges sets cover the parameters of every spectrum it chose,
\* or fix a parameter near all of its values: the step that the model stands at
\* when the values are read is that of the spectrum, with threads too.
FoundRangesCover ==
    pc = "ended" =>
      \A i \in DOMAIN ranges : \A j \in Chosen(Count) :
        LET value == At(j).values[i]
        IN  IF ranges[i].fixed
            THEN value * 2 >= ranges[i].start /\ value <= ranges[i].end * 2
            ELSE ranges[i].start <= value /\ value <= ranges[i].end
================================================================================
