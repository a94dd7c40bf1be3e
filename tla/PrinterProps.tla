---------------------------- MODULE PrinterProps ----------------------------
(***************************************************************************)
(* What the parser makes of printed circuits, and what is left of one when *)
(* the series resistance is taken out.                                     *)
(***************************************************************************)
EXTENDS Printer, ModelTextProps

\* The tree as the parser gives it.
RECURSIVE Postfix(_)
Postfix(tree) ==
    IF IsElement(tree) THEN CreateNewComponant(tree.op, tree.param)
    ELSE NewCombination(tree.op, [k \in DOMAIN tree.kids |-> Postfix(tree.kids[k])])

\* The tree with a parallel in a parallel made one: how it reads without the
\* brackets that are not needed.
RECURSIVE Merged(_)
Merged(tree) ==
    LET kids == [k \in DOMAIN tree.kids |-> Merged(tree.kids[k])]
        parts == [k \in DOMAIN kids |->
                    IF tree.op = "parallel" /\ kids[k].op = "parallel"
                    THEN kids[k].kids ELSE <<kids[k]>>]
    IN  IF IsElement(tree) THEN tree ELSE Combination(tree.op, FlattenSeq(parts))
-----------------------------------------------------------------------------
(***************************************************************************)
(* Invariants.                                                             *)
(***************************************************************************)
\* A printed circuit is read back as the circuit it was printed from; if
\* eisRemoveUnneededBrackets went over it, up to a parallel in a parallel.
\* That is for ten brackets at most: the eleventh has no digit, and the
\* constructor throws (processBrackets, getComponantString).
ReadsWhatItPrints ==
    written # NoTree /\ outcome # "parsing" =>
      IF NumBrackets(input) > 10 THEN outcome = "threw"
      ELSE /\ outcome = "model"
           /\ model = Postfix(IF input = ComponantString(written)
                              THEN written ELSE Merged(written))

(***************************************************************************)
(* removeSeriesResitance against the tree: what remains of the top level   *)
(* when the resistors of it are taken out.                                 *)
(***************************************************************************)
Series(tree) == IF tree.op = "serial" THEN tree.kids ELSE <<tree>>
SeriesStr(trees) ==
    IF trees = <<>> THEN <<>> ELSE ModelStrWithParam(Combination("serial", trees))
Resistorless(trees) == SelectSeq(trees, LAMBDA tree : tree.op # "r")

AtPrinted ==
    written # NoTree /\ outcome = "parsing" /\ brackets = <<>>
      /\ input = ModelStrWithParam(written)

\* The resistors in series with the whole circuit are taken out of its string,
\* and nothing else is.  Of two or more in front the second remains, because
\* the loop of removeSeriesResitance does not come back to index 0.
SeriesResistanceRemoved ==
    AtPrinted =>
      LET series == Series(Merged(written))
          remains == IF Len(series) > 1 /\ series[1].op = "r" /\ series[2].op = "r"
                     THEN <<series[2]>> ELSE <<>>
      IN  RemoveSeriesResitance(input)
            = SeriesStr(remains \o Resistorless(series))
=============================================================================
