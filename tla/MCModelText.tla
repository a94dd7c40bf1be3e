---------------------------- MODULE MCModelText ----------------------------
(***************************************************************************)
(* Circuits of up to three levels, one with as many brackets as there are  *)
(* digits, one with one more; and all short strings.                       *)
(***************************************************************************)
EXTENDS TranslatorsProps

CONSTANT MaxTyped       \* bound: length of the typed strings

\* A parameter of characters that mean something outside of braces.
Resistor == Element("r", <<>>)
Valued == Element("r", <<"0", "-">>)
Cap == Element("c", <<"-", "0">>)
Flat == {Resistor, Cap}

Combinations(sets) ==
    {Combination(op, kids) : op \in {"parallel", "serial"}, kids \in sets}

Level1 == Combinations(TupleOf(Flat, 2) \cup TupleOf(Flat, 3))

\* Pairs of elements and of circuits of one level; a series among three.
Pairs1 == Combinations(TupleOf(Flat, 2))
ASeries == Combination("serial", <<Resistor, Cap>>)
Pairs2 == Combinations(TupleOf(Flat \cup Pairs1, 2))
Level2 == Pairs2 \cup Combinations(TupleOf(Flat \cup {ASeries}, 3))
Level3 == Combinations((Flat \X Pairs2) \cup (Pairs2 \X Flat))

\* Resistors with a value and without, in front, between and behind, next to
\* parallel ones and in them.
AParallel == Combination("parallel", <<Valued, Cap>>)
Resistors == Combinations(TupleOf({Resistor, Valued, Cap, AParallel}, 3))

\* n brackets, of which none can be left out but the one around it all.
Wide(n) == Combination("parallel", [k \in 1 .. n |-> ASeries])

MCTrees == Flat \cup {Valued} \cup Level1 \cup Level2 \cup Level3 \cup Resistors
             \cup {Wide(n) : n \in 9 .. 11}

\* A circuit is printed with all its brackets, and without those not needed.
MCPrinted ==
    UNION {{<<tree, ComponantString(tree)>>, <<tree, ModelStrWithParam(tree)>>} :
             tree \in MCTrees}

MCTyped ==
    {<<NoTree, s>> : s \in BoundedSeq({"r", "c", "(", ")", "-", "{", "}", "0"}, MaxTyped)}
MCTypedNone == {}
============================================================================
