-------------------------- MODULE TranslatorsProps --------------------------
(***************************************************************************)
(* The translators against circuits as trees.  What the other notations    *)
(* mean is defined here, as their documentation and the tests have it.     *)
(***************************************************************************)
EXTENDS Translators, PrinterProps

\* A combination is made of two or more.
CombineTrees(op, trees) ==
    CASE Len(trees) = 0 -> NoTree
      [] Len(trees) = 1 -> trees[1]
      [] OTHER -> Combination(op, trees)

\* A circuit without parameters, combinations of one kind directly in one
\* another made one: what the notations agree on.
RECURSIVE Circuit(_)
Circuit(tree) ==
    LET kids == [k \in DOMAIN tree.kids |-> Circuit(tree.kids[k])]
        parts == [k \in DOMAIN kids |->
                    IF kids[k].op = tree.op THEN kids[k].kids ELSE <<kids[k]>>]
    IN  IF IsElement(tree) THEN Element(tree.op, <<>>)
        ELSE CombineTrees(tree.op, FlattenSeq(parts))

NumElements(tree) == Len(Leaves(Postfix(tree)))

\* The circuit with the number of each element, from 0, as its parameter.
RECURSIVE Numbered(_, _)
Numbered(tree, first) ==
    LET before(k) == NumElements(Combination(tree.op, SubSeq(tree.kids, 1, k - 1)))
    IN  IF IsElement(tree) THEN Element(tree.op, ToDigits(first))
        ELSE Combination(tree.op, [k \in DOMAIN tree.kids |->
                                     Numbered(tree.kids[k], first + before(k))])

\* The numbers as parameters: one character stands for each.
Numbers(tree) == [k \in 1 .. NumElements(tree) |-> Last(ToDigits(k - 1))]

Joined(strs, delim) ==
    FlattenSeq([k \in DOMAIN strs |->
                  IF k = 1 THEN strs[k] ELSE delim \o strs[k]])

(***************************************************************************)
(* CDC.                                                                    *)
(***************************************************************************)
RECURSIVE CdcPart(_)
CdcPart(tree) ==
    LET inside == FlattenSeq([k \in DOMAIN tree.kids |-> CdcPart(tree.kids[k])])
    IN  CASE IsElement(tree) -> <<Symbol[tree.op]>>
          [] tree.op = "serial" -> <<"[">> \o inside \o <<"]">>
          [] tree.op = "parallel" -> <<"(">> \o inside \o <<")">>

CdcStr(tree) ==
    LET series == Series(tree)
    IN  FlattenSeq([k \in DOMAIN series |-> CdcPart(series[k])])

\* The indices of s with P, in order.
IndicesWith(s, P(_)) == SelectSeq([k \in DOMAIN s |-> k - 1], P)

\* The circuit of a CDC string; one that is none has a part that is no element.
RECURSIVE ReadCdc(_, _)
ReadCdc(s, op) ==
    LET depth(i) == Quantify(0 .. i - 1, LAMBDA j : At(s, j) \in {"[", "("})
                      - Quantify(0 .. i - 1, LAMBDA j : At(s, j) \in {"]", ")"})
        begins(i) == depth(i) = 0 /\ At(s, i) \notin {"]", ")"}
        starts == IndicesWith(s, begins)
        inside(i) == Substr(s, i + 1,
                       Min({j \in i + 1 .. Len(s) - 1 : depth(j + 1) = 0}))
        part(i) == CASE At(s, i) = "[" -> ReadCdc(inside(i), "serial")
                     [] At(s, i) = "(" -> ReadCdc(inside(i), "parallel")
                     [] OTHER -> Element(TranslateElement(At(s, i)), <<>>)
    IN  CombineTrees(op, [k \in DOMAIN starts |-> part(starts[k])])

\* A combination in a series is the last of its elements, everywhere.
RECURSIVE CombinationsLast(_)
CombinationsLast(tree) ==
    \A k \in DOMAIN tree.kids :
      /\ CombinationsLast(tree.kids[k])
      /\ tree.op = "serial" /\ ~IsElement(tree.kids[k]) => k = Len(tree.kids)

\* eisToCdc gives a description of the circuit of the string, with or without
\* the brackets that are not needed, for at most ten brackets: it writes their
\* numbers in decimal and reads them back digit by digit.
EisToCdcKeepsCircuit ==
    AtPrinted =>
      \A s \in {input, ComponantString(written)} :
        NumBrackets(s) <= 10 =>
          Circuit(ReadCdc(EisToCdc(s), "serial")) = Circuit(written)

\* cdcToEis gives the string of the circuit that was described, if in a series
\* nothing follows a combination: after a closing bracket it writes no '-'.
CdcToEisKeepsCircuit ==
    AtPrinted =>
      LET circuit == Circuit(written)
      IN  CombinationsLast(circuit) =>
            CdcToEis(CdcStr(circuit)) = ModelStrWithParam(circuit)

\* src/eisgenerator/translators.h:59 says of cdcToEis: "Translates a Boukamp
\* Circuit Description Code (CDC) string into the format used by this library".
DocCdcTranslated ==
    AtPrinted =>
      CdcToEis(CdcStr(Circuit(written))) = ModelStrWithParam(Circuit(written))

(***************************************************************************)
(* RelaxIS.                                                                *)
(***************************************************************************)
RECURSIVE CombinationsApart(_)
CombinationsApart(tree) ==
    /\ \A k \in DOMAIN tree.kids : CombinationsApart(tree.kids[k])
    /\ tree.op = "serial" =>
         \A k \in 1 .. Len(tree.kids) - 1 :
           IsElement(tree.kids[k]) \/ IsElement(tree.kids[k + 1])

\* eisToRelaxis, then relaxisToEis with parameters, gives the circuit back with
\* every parameter at its element, in order.  Not so where two combinations
\* follow one another in a series: eisToRelaxis writes no '-' between their
\* brackets, and what it writes is parallel.  Nor with brackets around a series
\* in a series: eisToRelaxis takes every second level for a parallel one.
RelaxisRoundTrip ==
    AtPrinted =>
      LET circuit == Circuit(written)
          there == EisToRelaxis(ModelStrWithParam(circuit))
          back == RelaxisToEis(there, Numbers(circuit))
      IN  NumBrackets(input) <= 10 /\ NumElements(circuit) <= 10
            /\ CombinationsApart(circuit) =>
          EisRemoveUnneededBrackets(back) = ModelStrWithParam(Numbered(circuit, 0))

(***************************************************************************)
(* MADAP.                                                                  *)
(***************************************************************************)
RECURSIVE MadapStr(_)
MadapStr(tree) ==
    LET kids == [k \in DOMAIN tree.kids |-> MadapStr(tree.kids[k])]
    IN  CASE IsElement(tree) -> <<Symbol[tree.op]>> \o tree.param
          [] tree.op = "serial" -> Joined(kids, <<"-">>)
          [] tree.op = "parallel" -> <<"p", "(">> \o Joined(kids, <<",">>) \o <<")">>

\* In a parallel combination there is a series that begins with another one.
RECURSIVE SeriesBeginsWithParallel(_)
SeriesBeginsWithParallel(tree) ==
    \E k \in DOMAIN tree.kids :
      LET kid == tree.kids[k]
      IN  \/ SeriesBeginsWithParallel(kid)
          \/ tree.op = "parallel" /\ kid.op = "serial" /\ ~IsElement(kid.kids[1])

\* Two brackets close behind an element.
RECURSIVE ClosesTwice(_)
ClosesTwice(tree) ==
    \/ \E k \in DOMAIN tree.kids : ClosesTwice(tree.kids[k])
    \/ /\ tree.op = "parallel" /\ Last(tree.kids).op = "serial"
       /\ ~IsElement(Last(Last(tree.kids).kids))

\* madapToEis gives the string of the circuit that was described, and each
\* element the parameter that is listed for it.  It refuses
\* - an element with a number of two digits, of which it takes off one;
\* - a series in a parallel combination that begins with another one: it takes
\*   the first bracket of the series for one around it;
\* - parameters, if two brackets close behind an element, for it takes off one.
MadapToEisKeepsCircuit ==
    AtPrinted =>
      LET circuit == Numbered(Circuit(written), 0)
          groups == [k \in DOMAIN Numbers(circuit) |-> <<Numbers(circuit)[k], "1">>]
          refused == Len(groups) > 10 \/ SeriesBeginsWithParallel(circuit)
      IN  /\ MadapToEis(MadapStr(circuit), <<>>)
               = IF refused THEN Refused ELSE ModelStrWithParam(Circuit(written))
          /\ MadapToEis(MadapStr(circuit), groups)
               = IF refused \/ ClosesTwice(circuit) THEN Refused
                 ELSE ModelStrWithParam(circuit)
=============================================================================
