-------------------------------- MODULE Strops --------------------------------
(***************************************************************************)
(* The string helpers the circuit strings are taken apart with             *)
(* (src/strops.cpp).  A string is a sequence of characters, numbered from  *)
(* 0 as in the code.                                                       *)
(***************************************************************************)
EXTENDS Integers, SequencesExt, FiniteSetsExt

At(str, i) == str[i + 1]
Indices(str) == 0 .. Len(str) - 1

LBrace == "{"
RBrace == "}"

\* std::string::npos, one less than 0 in size_t: counting it up gives 0.
NPos == -1

\* str without the characters from .. to - 1; the string from .. to - 1.
Erase(str, from, to) == SubSeq(str, 1, from) \o SubSeq(str, to + 1, Len(str))
Substr(str, from, to) == SubSeq(str, from + 1, to)

Occurrences(str, ch, from, to) ==
    Cardinality({i \in from .. to : At(str, i) = ch})
-------------------------------------------------------------------------------
(***************************************************************************)
(* Brackets.                                                               *)
(***************************************************************************)
\* Variant: the closing bracket is looked for one level too far out.
OpposingBraket_PastClose(str, index, close) ==
    LET open == At(str, index)
        closing == {i \in index .. Len(str) - 1 :
                      /\ At(str, i) = close
                      /\ Occurrences(str, open, index, i)
                           - Occurrences(str, close, index, i) < 0}
    IN  IF closing = {} THEN NPos ELSE Min(closing)

\* The first closing bracket from index on at which nothing is open.  Whatever
\* stands at index counts as the opening bracket, an element too.
OpposingBraket(str, index, close) ==
    LET open == At(str, index)
        closing == {i \in index .. Len(str) - 1 :
                      /\ At(str, i) = close
                      /\ Occurrences(str, open, index, i)
                           - Occurrences(str, close, index, i) < 1}
    IN  IF closing = {} THEN NPos ELSE Min(closing)

\* The nesting level is a size_t: below 0 it is more than any string nests.
Wrapped(level) == IF level < 0 THEN 2^16 + level ELSE level

\* Variant: brackets are taken from left to right.
DeepestBraket_First(str) ==
    LET brackets == {i \in Indices(str) : At(str, i) = "("}
    IN  IF brackets = {} THEN NPos ELSE Min(brackets)

\* The first of the brackets that are nested deepest.
DeepestBraket(str) ==
    LET level(i) == Wrapped(Occurrences(str, "(", 0, i)
                              - Occurrences(str, ")", 0, i))
        brackets == {i \in Indices(str) : At(str, i) = "(" /\ level(i) > 0}
        deepest == {i \in brackets : \A j \in brackets : level(j) <= level(i)}
    IN  IF deepest = {} THEN NPos ELSE Min(deepest)
-------------------------------------------------------------------------------
(***************************************************************************)
(* tokenize: the parts between the delimiters outside of brackets, without *)
(* the last one if a bracket is open at the end.                           *)
(***************************************************************************)
\* How many brackets are open before i.  The code's counter is a size_t, of
\* which it only asks whether it is 0.
Depth(str, open, close, i) ==
    Occurrences(str, open, 0, i - 1) - Occurrences(str, close, 0, i - 1)

Tokenize(str, delim, open, close) ==
    LET cut(i) == At(str, i) = delim /\ Depth(str, open, close, i) = 0
        next(at, i) ==
            IF cut(i)
            THEN [tokens |-> Append(at.tokens, at.token), token |-> <<>>]
            ELSE [tokens |-> at.tokens, token |-> Append(at.token, At(str, i))]
        walk[i \in 0 .. Len(str)] ==
            IF i = 0 THEN [tokens |-> <<>>, token |-> <<>>]
            ELSE next(walk[i - 1], i - 1)
        all == walk[Len(str)]
    IN  IF Depth(str, open, close, Len(str)) = 0 THEN Append(all.tokens, all.token)
        ELSE all.tokens
-------------------------------------------------------------------------------
(***************************************************************************)
(* eraseModelElement: an element, its parameters, and the delimiters       *)
(* around it except one between what is left on both sides.                *)
(***************************************************************************)
EraseModelElement(str, index) ==
    LET start == Min({i \in 0 .. index : \A j \in i .. index - 1 : At(str, j) = "-"})
        after[i \in 0 .. Len(str)] ==
            CASE i < Len(str) /\ At(str, i) = LBrace ->
                   after[OpposingBraket(str, i, RBrace) + 1]
              [] i < Len(str) /\ At(str, i) = "-" -> after[i + 1]
              [] OTHER -> i
        end == after[index + 1]
        keepsDelim == end < Len(str) /\ At(str, start) = "-"
    IN  Erase(str, IF keepsDelim THEN start + 1 ELSE start, end)
===============================================================================
