--------------------------- MODULE ModelTextProps ---------------------------
(***************************************************************************)
(* What the parser promises of every string whose brackets match.          *)
(***************************************************************************)
EXTENDS ModelText

BraceDepth(s, i) == Depth(s, LBrace, RBrace, i)

NumBrackets(s) == Occurrences(s, "(", 0, Len(s) - 1)

\* Braces open and close one at a time and hold no bracket.
BracesOK(s) ==
    /\ BraceDepth(s, Len(s)) = 0
    /\ \A i \in Indices(s) :
         /\ BraceDepth(s, i) \in {0, 1}
         /\ BraceDepth(s, i) = 1 => At(s, i) \notin {"(", ")"}

BracketsOK(s) ==
    /\ \A i \in Indices(s) : Occurrences(s, ")", 0, i) <= Occurrences(s, "(", 0, i)
    /\ Occurrences(s, ")", 0, Len(s) - 1) = NumBrackets(s)

\* Digits stand for brackets, elements for themselves, and neither is in the
\* other's place in what the user wrote.
Plain(s) ==
    /\ BracesOK(s)
    /\ NumBrackets(s) <= Len(Digits)
    /\ \A i \in Indices(s) :
         At(s, i) \notin (IF BraceDepth(s, i) = 0 THEN ToSet(Digits) ELSE ElementChars)

\* The elements of a tree with their parameters, from left to right.
Leaves(tree) ==
    FlattenSeq([k \in DOMAIN tree |->
                  IF tree[k].op \in ElementChars THEN <<tree[k]>> ELSE <<>>])

ParamAt(s, i) ==
    IF i + 1 < Len(s) /\ At(s, i + 1) = LBrace
    THEN Substr(s, i + 2, Min({j \in (i + 1) .. Len(s) - 1 : At(s, j) = RBrace}))
    ELSE <<>>

\* The elements the character at i stands for, those of a bracket included.
ElementsAt(s, done, i) ==
    CASE BraceDepth(s, i) = 0 /\ At(s, i) \in ElementChars ->
           CreateNewComponant(At(s, i), ParamAt(s, i))
      [] BraceDepth(s, i) = 0 /\ At(s, i) \in ToSet(Digits) ->
           Leaves(done[CHOOSE k \in 1 .. 10 : Digits[k] = At(s, i)])
      [] OTHER -> <<>>

Elements(s, done) == FlattenSeq([k \in DOMAIN s |-> ElementsAt(s, done, k - 1)])
-----------------------------------------------------------------------------
(***************************************************************************)
(* Invariants.                                                             *)
(***************************************************************************)
\* However far the brackets have been replaced, the string and the finished
\* brackets together stand for the elements of the input, each once, in its
\* place and with its parameters: nothing is lost and nothing has two owners
\* (processBrackets, processBracket, getParamStr, paramSkipIndex).
EveryElementOnce ==
    Plain(input) =>
      /\ Elements(str, brackets) = Elements(input, <<>>)
      /\ outcome = "model" => Leaves(model) = Elements(input, <<>>)

\* If brackets and braces match, the constructor makes a model or throws: it
\* does not give a null pointer, and its loops end.
MatchedEndsWell ==
    BracketsOK(input) /\ BracesOK(input) =>
      outcome \in {"parsing", "model", "threw"}
=============================================================================
