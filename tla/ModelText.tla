------------------------------ MODULE ModelText ------------------------------
(***************************************************************************)
(* Circuit strings: how the constructor of Model (src/model.cpp) turns one *)
(* into a tree of elements.                                                *)
(*                                                                         *)
(* The parser replaces the deepest bracket by the character that stands    *)
(* for its number, and starts again with the shorter string, until no      *)
(* bracket is left: one step per bracket.                                  *)
(*                                                                         *)
(* Parameters are kept as text; what it says is not looked at.  An element *)
(* without text is one whose parameters the user has left to the default.  *)
(***************************************************************************)
EXTENDS Strops

CONSTANTS           \* what is parsed: strings, each after where it is from
    Printed,        \* those that were printed, each after its circuit
    Typed           \* others, well formed or not

ASSUME InputsAssumption ==
    /\ \A given \in Printed : given[2] \in Seq(STRING)
    /\ \A given \in Typed : given[2] \in Seq(STRING)

VARIABLES
    written,        \* where the input is from: a circuit, if it was printed
    input,          \* the string given to the constructor
    str,            \* the string with the brackets done so far replaced
    brackets,       \* _bracketComponants
    outcome,        \* how the constructor ended
    model           \* _model

vars == <<written, input, str, brackets, outcome, model>>

ElementChars == {"r", "c"}
Digits == <<"0", "1", "2", "3", "4", "5", "6", "7", "8", "9">>

\* Variant: bracketCounter is not counted up.
ReferenceChar_Fixed(k) == Digits[1]

\* The character bracketCounter + 48.  Those after the digits are no elements
\* up to the 51st bracket; ":" stands for them.
ReferenceChar(k) == IF k < 10 THEN Digits[k + 1] ELSE ":"
-------------------------------------------------------------------------------
(***************************************************************************)
(* Trees, in postfix notation: every node comes after its children, which  *)
(* are "size" trees.  A node has the character of its element, or          *)
(* "parallel" or "serial" for a combination.                               *)
(***************************************************************************)
CreateNewComponant(ch, param) == <<[op |-> ch, param |-> param, size |-> 0]>>

NewCombination(op, trees) ==
    Append(FlattenSeq(trees), [op |-> op, param |-> <<>>, size |-> Len(trees)])

\* The null pointer.
Nothing == <<>>

\* A Parallel or Serial is made for two or more; none gives the null pointer.
Combine(op, trees) ==
    CASE Len(trees) = 0 -> Nothing
      [] Len(trees) = 1 -> trees[1]
      [] OTHER -> NewCombination(op, trees)
-------------------------------------------------------------------------------
(***************************************************************************)
(* processBracket: a string without brackets.                              *)
(***************************************************************************)
ParamStr(s, i) ==
    LET end == OpposingBraket(s, i, RBrace)
    IN  IF Len(s) - i < 3 \/ At(s, i + 1) # LBrace THEN <<>>
        ELSE Substr(s, i + 2, IF end = NPos THEN Len(s) ELSE end)

ParamSkipIndex(s, i) ==
    LET end == OpposingBraket(s, i, RBrace)
    IN  IF i + 2 > Len(s) \/ At(s, i + 1) # LBrace \/ end = NPos THEN i ELSE end

\* A character of a token: the tree it adds to those found, and where the loop
\* over the characters goes on or how it ends.  A brace that is not closed sends
\* the index to npos: the code then reads the character before the string and
\* starts over, forever.
ScanStep(token, done, at) ==
    LET i == at.i
        ch == At(token, i)
        digit == CHOOSE d \in 0 .. 9 : Digits[d + 1] = ch
        close == OpposingBraket(token, i, RBrace)
        moves(trees, j) == [i |-> j + 1, trees |-> at.trees \o trees, end |-> "done"]
        ends(how) == [at EXCEPT !.end = how]
    IN  CASE ch \in ElementChars ->
               moves(<<CreateNewComponant(ch, ParamStr(token, i))>>, ParamSkipIndex(token, i))
          [] ch = LBrace ->
               IF close = NPos THEN ends("hangs") ELSE moves(<<>>, close)
          [] ch = RBrace ->
               moves(<<>>, i)
          [] ch \in ToSet(Digits) ->
               moves(IF Len(done) > digit THEN <<done[digit + 1]>> ELSE <<>>, i)
          [] OTHER ->
               ends("invalid")

\* A token, from left to right: the trees in it, and how the loop ends.
Scan(token, done) ==
    LET next(at) == IF at.i < Len(token) /\ at.end = "done" THEN ScanStep(token, done, at)
                    ELSE at
        walk[n \in 0 .. Len(token)] ==
            IF n = 0 THEN [i |-> 0, trees |-> <<>>, end |-> "done"]
            ELSE next(walk[n - 1])
    IN  walk[Len(token)]

\* Tokens without an element are left out.  The first token that does not end
\* well ends the whole call.
ProcessBracket(s, done) ==
    LET tokens == Tokenize(s, "-", LBrace, RBrace)
        scans == [k \in DOMAIN tokens |-> Scan(tokens[k], done)]
        failed == {k \in DOMAIN scans : scans[k].end # "done"}
        node(scan) == IF scan.trees = <<>> THEN <<>>
                      ELSE <<Combine("parallel", scan.trees)>>
        nodes == FlattenSeq([k \in DOMAIN scans |-> node(scans[k])])
    IN  IF failed # {} THEN [end |-> scans[Min(failed)].end, tree |-> Nothing]
        ELSE [end |-> IF nodes = <<>> THEN "invalid" ELSE "done",
              tree |-> Combine("serial", nodes)]
-------------------------------------------------------------------------------
(***************************************************************************)
(* The constructor.                                                        *)
(***************************************************************************)
Init ==
    /\ \/ \E given \in Printed : written = given[1] /\ input = given[2]
       \/ \E given \in Typed : written = given[1] /\ input = given[2]
    /\ str = input
    /\ brackets = <<>>
    /\ outcome = "parsing"
    /\ model = Nothing

Start == DeepestBraket(str)
End == OpposingBraket(str, Start, ")")
Inside == ProcessBracket(Substr(str, Start + 1, End), brackets)

Ends(how) ==
    /\ outcome' = how
    /\ UNCHANGED <<written, input, str, brackets, model>>

\* A bracket is done: its tree is kept, its number takes its place.
ReplaceBracket ==
    /\ outcome = "parsing"
    /\ Start # NPos /\ End # NPos
    /\ Inside.end = "done"
    /\ brackets' = Append(brackets, Inside.tree)
    /\ str' = Substr(str, 0, Start) \o <<ReferenceChar(Len(brackets))>>
                \o Substr(str, End + 1, Len(str))
    /\ UNCHANGED <<written, input, outcome, model>>

\* A bracket that is not closed: the null pointer is returned.
NotClosed ==
    /\ outcome = "parsing"
    /\ Start # NPos /\ End = NPos
    /\ Ends("null")

BracketInvalid ==
    /\ outcome = "parsing"
    /\ Start # NPos /\ End # NPos
    /\ Inside.end = "invalid"
    /\ Ends("threw")

BracketHangs ==
    /\ outcome = "parsing"
    /\ Start # NPos /\ End # NPos
    /\ Inside.end = "hangs"
    /\ Ends("hangs")

\* No bracket is left.
Finish ==
    /\ outcome = "parsing"
    /\ Start = NPos
    /\ ProcessBracket(str, brackets).end = "done"
    /\ outcome' = "model"
    /\ model' = ProcessBracket(str, brackets).tree
    /\ UNCHANGED <<written, input, str, brackets>>

FinishInvalid ==
    /\ outcome = "parsing"
    /\ Start = NPos
    /\ ProcessBracket(str, brackets).end = "invalid"
    /\ Ends("threw")

FinishHangs ==
    /\ outcome = "parsing"
    /\ Start = NPos
    /\ ProcessBracket(str, brackets).end = "hangs"
    /\ Ends("hangs")

Next ==
    \/ ReplaceBracket
    \/ NotClosed
    \/ BracketInvalid
    \/ BracketHangs
    \/ Finish
    \/ FinishInvalid
    \/ FinishHangs

Spec == Init /\ [][Next]_vars
===============================================================================
