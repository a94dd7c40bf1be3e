------------------------------- MODULE Printer -------------------------------
(***************************************************************************)
(* Trees and their strings: how a tree is printed, which brackets are left *)
(* out, and how the series resistance is taken out of a string             *)
(* (src/componant/paralellseriel.cpp, src/strops.cpp, src/model.cpp).      *)
(***************************************************************************)
EXTENDS ModelText

(***************************************************************************)
(* Trees as their users see them.                                          *)
(***************************************************************************)
Element(ch, param) == [op |-> ch, param |-> param, kids |-> <<>>]
Combination(op, kids) == [op |-> op, param |-> <<>>, kids |-> kids]
IsElement(tree) == tree.op \in ElementChars

\* The origin of a string that was typed.
NoTree == Combination("nothing", <<>>)
------------------------------------------------------------------------------
(***************************************************************************)
(* eisRemoveUnneededBrackets.  Removes the brackets with no '-' directly   *)
(* inside them, and those around the whole string.  The code's recursion   *)
(* is kept: it goes into a bracket at each '(', works on the same string,  *)
(* and gives back where the walk goes on.                                  *)
(***************************************************************************)
RECURSIVE InBracket(_, _), WalkBracket(_, _, _, _, _)

InBracket(s, start) ==
    LET around == start = 0 /\ OpposingBraket(s, start, ")") = Len(s) - 1
        inner == IF around THEN Substr(s, 1, Len(s) - 1) ELSE s
    IN  WalkBracket(inner, start, IF start >= 0 THEN start + 1 ELSE 0, FALSE, 0)

\* needed: a '-' was met at this level; braces: how many are open.
WalkBracket(s, start, i, needed, braces) ==
    LET bracesAfter(ch) ==
            CASE ch = LBrace -> braces + 1
              [] ch = RBrace /\ braces > 0 -> braces - 1
              [] OTHER -> braces
    IN  CASE i >= Len(s) ->
               [str |-> s, at |-> Len(s) - 1]
          [] i < Len(s) /\ braces = 0 /\ At(s, i) = "(" ->
               LET inner == InBracket(s, i)
               IN  WalkBracket(inner.str, start, inner.at + 1, needed,
                               bracesAfter(At(inner.str, inner.at)))
          [] i < Len(s) /\ braces = 0 /\ At(s, i) = ")" ->
               IF needed \/ start < 0
               THEN [str |-> s, at |-> i]
               ELSE [str |-> Erase(Erase(s, i, i + 1), start, start + 1),
                     at |-> i - 2]
          [] OTHER ->
               WalkBracket(s, start, i + 1,
                           needed \/ (braces = 0 /\ At(s, i) = "-"),
                           bracesAfter(At(s, i)))

EisRemoveUnneededBrackets(s) == InBracket(s, NPos).str
------------------------------------------------------------------------------
(***************************************************************************)
(* Printing.                                                               *)
(***************************************************************************)
\* getComponantString
RECURSIVE ComponantString(_)
ComponantString(tree) ==
    LET kids == [k \in DOMAIN tree.kids |-> ComponantString(tree.kids[k])]
        delim == IF tree.op = "serial" THEN <<"-">> ELSE <<>>
        rest == [k \in 1 .. Len(kids) - 1 |-> delim \o kids[k + 1]]
        param == IF tree.param = <<>> THEN <<>>
                 ELSE <<LBrace>> \o tree.param \o <<RBrace>>
    IN  IF IsElement(tree) THEN <<tree.op>> \o param
        ELSE <<"(">> \o kids[1] \o FlattenSeq(rest) \o <<")">>

\* getModelStrWithParam
ModelStrWithParam(tree) == EisRemoveUnneededBrackets(ComponantString(tree))
------------------------------------------------------------------------------
(***************************************************************************)
(* removeSeriesResitance.                                                  *)
(***************************************************************************)
\* Variant: what follows the resistor is not looked at.
InSeries_AnyAfter(s, i) == At(s, i) = "r" /\ (i = 0 \/ At(s, i - 1) = "-")

\* The resistor at i stands alone between delimiters or ends of the string.
InSeries(s, i) ==
    LET close == OpposingBraket(s, i + 1, RBrace)
    IN  /\ At(s, i) = "r"
        /\ i = 0 \/ At(s, i - 1) = "-"
        /\ \/ i = Len(s) - 1
           \/ At(s, i + 1) = "-"
           \/ /\ At(s, i + 1) = LBrace
              /\ close = Len(s) - 1 \/ At(s, close + 1) = "-"

\* After an element is erased the loop sets i to 0 and counts it up.
RECURSIVE RemoveFrom(_, _)
RemoveFrom(s, i) ==
    CASE i >= Len(s) -> s
      [] i < Len(s) /\ InSeries(s, i) ->
           RemoveFrom(EraseModelElement(s, i), 1)
      [] i < Len(s) /\ At(s, i) = "(" ->
           RemoveFrom(s, OpposingBraket(s, i, ")") + 1)
      [] OTHER -> RemoveFrom(s, i + 1)

RemoveSeriesResitance(s) == RemoveFrom(s, 0)
==============================================================================
