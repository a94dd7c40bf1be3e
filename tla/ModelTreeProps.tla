---------------------------- MODULE ModelTreeProps ----------------------------
(***************************************************************************)
(* What models, their trees and the code generated from them promise.      *)
(***************************************************************************)
EXTENDS ModelTree

HasTree(m) == root[m] \notin {Null, Absent}

\* The places below the root of m, with repetitions.
Tree(m) == IF HasTree(m) THEN Freed(heap, root[m]) ELSE <<>>

\* Every element is owned by one model and in one place of its tree, or was
\* left behind by a constructor that did not finish: nothing dangles, nothing
\* leaks, no two models share.  A circuit with two owners is the exception
\* within itself (destructors, operator=, Componant::copy).
OwnedOnce ==
    /\ DOMAIN heap = leaked \cup UNION {ToSet(Tree(m)) : m \in Models}
    /\ \A m \in Models :
         /\ ToSet(Tree(m)) \cap leaked = {}
         /\ \A n \in Models \ {m} : ToSet(Tree(m)) \cap ToSet(Tree(n)) = {}

\* The i-th parameter of the generated code is the i-th of those execute
\* passes to it, whatever happened to the model since its list of leaves was
\* built (getCode, getFlatComponants, getFlatParameters).  So it is in the
\* TorchScript, except for transmission lines: the script of the closed one is
\* that of another element, and the open one has none.
CodeTakesFlatParameters ==
    \A m \in Models : HasTree(m) =>
      /\ CodeParameters(m) = FlatParameters(m)
      /\ (\A i \in ToSet(Tree(m)) : heap[i].op \notin {"t", "o"})
           => ScriptParameters(m) = FlatParameters(m)
-------------------------------------------------------------------------------
(***************************************************************************)
(* Models are values.                                                      *)
(***************************************************************************)
\* A tree in postfix notation, which is the order its nodes are freed in.
ValueIn(nodes, top) ==
    LET node(at) == [op |-> nodes[at].op, kids |-> Len(nodes[at].kids),
                     step |-> nodes[at].step]
        values(order) == [k \in DOMAIN order |-> node(order[k])]
    IN  [odd |-> OwnedTwice(nodes, top), nodes |-> values(Freed(nodes, top))]

Ops == {"r"} \cup UNION {{plan[i].op : i \in DOMAIN plan} : plan \in Plans}

\* What stands for a model without a tree is none of these.
ASSUME ValuesAssumption ==
    \A none \in {Absent, Null} :
      none \notin [odd : BOOLEAN, nodes : Seq([op : Ops, kids : Nat, step : Steps])]

Values == INSTANCE ModelValues WITH
    Made <- {ValueIn(plan, Len(plan)) : plan \in Plans},
    value <- [m \in Models |-> IF HasTree(m) THEN ValueIn(heap, root[m]) ELSE root[m]]

\* Trees on the heap behave as values: a copy is independent of its source
\* whatever is done to either, and the application dies only where a model is
\* assigned to itself, has no circuit, or has an element with two owners.
ImplementsValues == Values!Spec
===============================================================================
