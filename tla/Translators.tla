----------------------------- MODULE Translators -----------------------------
(***************************************************************************)
(* Translation of circuit strings from and to other notations              *)
(* (src/translators.cpp): the circuit description code (CDC) of Boukamp,   *)
(* in which [ ] is a series, ( ) is parallel and the whole is a series;    *)
(* the notation of RelaxIS, in which brackets next to one another are      *)
(* parallel and the rest is a series; and the notation of MADAP, in which  *)
(* p(a,b) is parallel and a-b a series.                                    *)
(*                                                                         *)
(* Resistors and capacitors stand for the elements of the tables, for      *)
(* which all three notations have the same symbols.                        *)
(***************************************************************************)
EXTENDS Printer

\* eisCdcTable, eisRelaxisTable and eisMadapTable
Symbol == [r |-> "R", c |-> "C"]
Symbols == {"R", "C"}
TranslateElement(symbol) ==
    IF symbol \in Symbols THEN CHOOSE ch \in ElementChars : Symbol[ch] = symbol
    ELSE "x"

WithoutDelimAtEnd(s) == IF s # <<>> /\ Last(s) = "-" THEN Front(s) ELSE s

\* purgeEisParamBrackets: a bracket of any kind closes one of any other.
PurgeEisParamBrackets(s) ==
    LET opened(k) == Quantify(1 .. k, LAMBDA j : s[j] \in {"{", "[", "<"})
        closed(k) == Quantify(1 .. k - 1, LAMBDA j : s[j] \in {"}", "]", ">"})
    IN  FlattenSeq([k \in DOMAIN s |->
            IF opened(k) = closed(k) THEN <<s[k]>> ELSE <<>>])
-----------------------------------------------------------------------------
(***************************************************************************)
(* cdcToEis: whether a level is a series is told from its depth.           *)
(***************************************************************************)
\* Variant: a delimiter at the end of a bracket is kept.
CdcChar_DelimKept(done, ch) ==
    CASE ch \in {"[", "("} ->
           [out |-> done.out \o <<"(">>, level |-> done.level + 1]
      [] ch \in {"]", ")"} ->
           [out |-> done.out \o <<")">>, level |-> done.level - 1]
      [] OTHER ->
           [out |-> done.out \o <<TranslateElement(ch)>>
                      \o (IF done.level % 2 = 0 THEN <<"-">> ELSE <<>>),
            level |-> done.level]

CdcChar(done, ch) ==
    CASE ch \in {"[", "("} ->
           [out |-> done.out \o <<"(">>, level |-> done.level + 1]
      [] ch \in {"]", ")"} ->
           [out |-> WithoutDelimAtEnd(done.out) \o <<")">>, level |-> done.level - 1]
      [] OTHER ->
           [out |-> done.out \o <<TranslateElement(ch)>>
                      \o (IF done.level % 2 = 0 THEN <<"-">> ELSE <<>>),
            level |-> done.level]

CdcToEis(in) ==
    LET all == FoldLeft(CdcChar, [out |-> <<>>, level |-> 0], in)
    IN  EisRemoveUnneededBrackets(WithoutDelimAtEnd(all.out))
-----------------------------------------------------------------------------
(***************************************************************************)
(* eisToCdc: the deepest bracket is translated and replaced by its number, *)
(* until none is left; then the numbers are replaced by the translations.  *)
(***************************************************************************)
\* Where the bracket that starts at start ends; there is none inside it.
BraketEnd(s, start) ==
    Min({i \in start + 1 .. Len(s) - 1 : At(s, i) = ")"} \cup {Len(s)})

\* A bracket, or with the start -1 the whole string.  "serial" says whether the
\* walk is outside of a parallel group.
CdcForBacket(s, start) ==
    LET bracket == Substr(s, start + 1, BraketEnd(s, start))
        delimAfter(k) == k < Len(bracket) /\ bracket[k + 1] = "-"
        elementAfter(k) == k < Len(bracket) /\ bracket[k + 1] # "-"
        symbol(ch) == CASE ch \in ToSet(Digits) -> <<ch>>
                        [] ch \in ElementChars -> <<Symbol[ch]>>
                        [] OTHER -> <<>>
        step(done, k) ==
            LET opens == done.serial /\ elementAfter(k)
                grouped == opens \/ ~done.serial
                closes == grouped /\ delimAfter(k)
            IN  IF bracket[k] = "-" THEN done
                ELSE [out |-> done.out \o (IF opens THEN <<"(">> ELSE <<>>)
                                \o symbol(bracket[k])
                                \o (IF closes THEN <<")">> ELSE <<>>),
                      serial |-> closes \/ ~grouped]
        parallelFirst == Len(bracket) > 1 /\ bracket[2] # "-"
        all == FoldLeftDomain(step,
                   [out |-> IF parallelFirst THEN <<"[", "(">> ELSE <<"[">>,
                    serial |-> ~parallelFirst],
                   bracket)
    IN  all.out \o (IF all.serial THEN <<"]">> ELSE <<")", "]">>)

\* std::to_string, of numbers below 100.
ToDigits(n) ==
    IF n < 10 THEN <<Digits[n + 1]>> ELSE <<Digits[n \div 10 + 1], Digits[(n % 10) + 1]>>

ReplaceBraket(s, start, num) ==
    Substr(s, 0, start) \o ToDigits(num) \o Substr(s, BraketEnd(s, start) + 1, Len(s))

RECURSIVE CollectBrackets(_, _)
CollectBrackets(work, done) ==
    LET start == DeepestBraket(work)
    IN  IF start = NPos THEN [work |-> work, done |-> done]
        ELSE CollectBrackets(ReplaceBraket(work, start, Len(done)),
                             Append(done, CdcForBacket(work, start)))

\* Variant: numbers inside of what was put in are left.
RECURSIVE InsertBrackets_Once(_, _, _)
InsertBrackets_Once(out, done, i) ==
    LET refers == {k \in DOMAIN done : k <= 10 /\ Digits[k] = At(out, i)}
        bracket == done[CHOOSE k \in refers : TRUE]
    IN  CASE i >= Len(out) -> out
          [] i < Len(out) /\ refers # {} ->
               InsertBrackets_Once(Substr(out, 0, i) \o bracket
                                     \o Substr(out, i + 1, Len(out)),
                                   done, i + Len(bracket))
          [] OTHER -> InsertBrackets_Once(out, done, i + 1)

RECURSIVE InsertBrackets(_, _, _)
InsertBrackets(out, done, i) ==
    LET refers == {k \in DOMAIN done : k <= 10 /\ Digits[k] = At(out, i)}
        bracket == done[CHOOSE k \in refers : TRUE]
    IN  CASE i >= Len(out) -> out
          [] i < Len(out) /\ refers # {} ->
               InsertBrackets(Substr(out, 0, i) \o bracket
                                \o Substr(out, i + 1, Len(out)),
                              done, i + 1)
          [] OTHER -> InsertBrackets(out, done, i + 1)

\* The series around the whole is left out, unless the first bracket inside of
\* it is another series.
EisToCdc(in) ==
    LET collected == CollectBrackets(PurgeEisParamBrackets(in), <<>>)
        out == InsertBrackets(CdcForBacket(collected.work, -1), collected.done, 0)
        inside == {i \in 1 .. Len(out) - 1 : At(out, i) \in {"[", "("}}
    IN  IF inside # {} /\ At(out, Min(inside)) = "[" THEN out
        ELSE Substr(out, 1, Len(out) - 1)
-----------------------------------------------------------------------------
(***************************************************************************)
(* eisToRelaxis goes over the CDC string; relaxisToEis adds the delimiters *)
(* that RelaxIS does not need.                                             *)
(***************************************************************************)
\* A parse_errror; it ends the translation wherever it happens.
Refused == <<"refused">>

\* In a parallel combination every element has brackets of its own.
RelaxisChar(done, ch) ==
    CASE ch \in {"[", "("} ->
           [out |-> Append(done.out, "("), level |-> done.level + 1]
      [] ch \in {"]", ")"} ->
           [out |-> Append(WithoutDelimAtEnd(done.out), ")"), level |-> done.level - 1]
      [] OTHER ->
           [out |-> done.out \o (IF done.level % 2 = 1 THEN <<"(", ch, ")">>
                                ELSE <<ch, "-">>),
            level |-> done.level]

EisToRelaxis(in) ==
    LET all == FoldLeft(RelaxisChar, [out |-> <<>>, level |-> 0], EisToCdc(in))
    IN  WithoutDelimAtEnd(all.out)

\* Variant: no delimiter is put in front of an element.
WithDelims_After(in) ==
    FlattenSeq([k \in DOMAIN in |->
        <<in[k]>> \o (IF in[k] \in Symbols /\ k < Len(in) /\ in[k + 1] \notin {")", "-"}
                     THEN <<"-">> ELSE <<>>)])

\* An element is kept apart from what stands before and after it.
WithDelims(in) ==
    LET element(k) == k \in DOMAIN in /\ in[k] \in Symbols
        before(k) == element(k) /\ k > 1 /\ ~element(k - 1) /\ in[k - 1] \notin {"(", "-"}
        after(k) == element(k) /\ k < Len(in) /\ in[k + 1] \notin {")", "-"}
    IN  FlattenSeq([k \in DOMAIN in |->
            (IF before(k) THEN <<"-">> ELSE <<>>) \o <<in[k]>>
              \o (IF after(k) THEN <<"-">> ELSE <<>>)])

\* The brackets around a single character are taken out, from left to right.
RECURSIVE WithoutSingles(_, _)
WithoutSingles(out, i) ==
    CASE i >= Len(out) -> out
      [] i < Len(out) - 2 /\ At(out, i) = "(" /\ At(out, i + 2) = ")" ->
           WithoutSingles(Erase(Erase(out, i + 2, i + 3), i, i + 1), i)
      [] OTHER -> WithoutSingles(out, i + 1)

\* Every element has one parameter; when no more are left the remaining
\* elements have none.
Embed(out, params) ==
    LET nth(k) == Quantify(1 .. k, LAMBDA j : out[j] \in ElementChars)
    IN  FlattenSeq([k \in DOMAIN out |->
            <<out[k]>> \o (IF out[k] \in ElementChars /\ nth(k) <= Len(params)
                          THEN <<"{", params[nth(k)], "}">> ELSE <<>>)])

RelaxisToEis(in, params) ==
    LET work == WithDelims(PurgeEisParamBrackets(in))
        known(ch) == ch \in Symbols \cup {"-", "(", ")"}
        translated == [k \in DOMAIN work |->
                         IF work[k] \in Symbols THEN TranslateElement(work[k])
                         ELSE work[k]]
    IN  IF \A k \in DOMAIN work : known(work[k])
        THEN Embed(WithoutSingles(translated, 0), params)
        ELSE Refused
-----------------------------------------------------------------------------
(***************************************************************************)
(* madapToEis.  The parameters are a list of groups, of which the first    *)
(* number is the value; an element is named by its symbol and a number,    *)
(* under which its parameter is looked up.                                 *)
(***************************************************************************)
IsDigit(ch) == ch \in ToSet(Digits)
IsBracket(ch) == ch \in {"(", ")"}

\* madapGetFlatComponants: of the brackets around a name one on each side is
\* taken off.
MadapGetFlatComponants(in) ==
    LET parts == FlattenSeq([k \in DOMAIN Tokenize(in, "-", "", "") |->
                    Tokenize(Tokenize(in, "-", "", "")[k], ",", "", "")])
        front(part) == IF IsBracket(Head(part)) THEN Tail(part) ELSE part
        name(part) == IF IsBracket(Last(part)) THEN Front(part) ELSE part
        names == SelectSeq(parts, LAMBDA part : part # <<>>)
    IN  [k \in DOMAIN names |-> name(front(names[k]))]

\* Variant: an element takes its parameter from the end of the list.
MadapParameters_Reversed(names, groups) ==
    [name \in ToSet(names) |->
       LET k == CHOOSE k \in DOMAIN names : names[k] = name
       IN  <<"{", Head(groups[Len(groups) + 1 - k]), "}">>]

\* madapGenerateEisParamString, for elements of one parameter each.
MadapParameters(names, groups) ==
    [name \in ToSet(names) |->
       LET k == CHOOSE k \in DOMAIN names : names[k] = name
       IN  <<"{", Head(groups[k]), "}">>]

\* What madapParseParameters throws for; an empty string is no parameters.
ParametersRefused(names, groups) ==
    /\ groups # <<>>
    /\ \/ ~IsInjective(names)
       \/ Len(groups) < Len(names)
       \/ \E k \in DOMAIN names :
            SelectSeq(names[k], LAMBDA ch : ~IsDigit(ch)) \notin TupleOf(Symbols, 1)

MadapParseParameters(names, groups) ==
    IF groups = <<>> THEN <<>> ELSE MadapParameters(names, groups)

RECURSIVE MadapTranslateParalell(_, _), MadapTranslateSerial(_, _)

\* A token that begins with a bracket has to end with one, and is taken for
\* what is between the two.
InBrackets(token, params) ==
    IF Last(token) # ")" THEN Refused
    ELSE MadapTranslateParalell(Substr(token, 1, Len(token) - 1), params)

MadapTranslateParalell(in, params) ==
    LET tokens == Tokenize(in, ",", "(", ")")
        part(token) == IF Head(token) = "(" THEN InBrackets(token, params)
                       ELSE MadapTranslateSerial(token, params)
    IN  <<"(">> \o FlattenSeq([k \in DOMAIN tokens |->
                                 <<"(">> \o part(tokens[k]) \o <<")">>])
                \o <<")">>

\* Of the number in an element's name one digit is taken off.
MadapTranslateSerial(in, params) ==
    LET tokens == Tokenize(in, "-", "(", ")")
        symbol(token) == IF IsDigit(Last(token)) THEN Front(token) ELSE token
        param(token) == IF token \in DOMAIN params THEN params[token] ELSE <<>>
        part(token) ==
            CASE Head(token) = "(" -> InBrackets(token, params)
              [] Head(token) # "(" /\ symbol(token) \in TupleOf(Symbols, 1) ->
                   <<TranslateElement(Head(token))>> \o param(token)
              [] OTHER -> Refused
    IN  WithoutDelimAtEnd(FlattenSeq([k \in DOMAIN tokens |->
                                        part(tokens[k]) \o <<"-">>]))

\* madapStrip takes out every 'p'.
MadapStrip(in) == SelectSeq(in, LAMBDA ch : ch # "p")

MadapToEis(in, groups) ==
    LET work == MadapStrip(in)
        names == MadapGetFlatComponants(work)
        out == MadapTranslateSerial(work, MadapParseParameters(names, groups))
    IN  CASE in = <<>> -> <<>>
          [] in # <<>> /\ ParametersRefused(names, groups) -> Refused
          [] OTHER -> IF "refused" \in ToSet(out) THEN Refused
                      ELSE EisRemoveUnneededBrackets(out)
=============================================================================
