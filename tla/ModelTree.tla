------------------------------- MODULE ModelTree -------------------------------
(***************************************************************************)
(* Objects of the class Model (src/model.cpp) and the elements they own.   *)
(*                                                                         *)
(* A model has a pointer to the root of a tree of elements on the heap, a  *)
(* list of its leaves that is built when it is first asked for.  Models    *)
(* are constructed, copied, assigned, also to themselves, and destroyed in *)
(* every order.  The code generated from a model is its list of            *)
(* parameters; an element is known by its place where the code uses a      *)
(* random name, so that no two elements have the same.                     *)
(*                                                                         *)
(* Memory is taken from the lowest free place, so that what is freed is    *)
(* soon something else.  Where the code reads freed memory or frees it     *)
(* again the application dies: the first word of an object, which is all   *)
(* it takes to call one of its methods, is overwritten when it is freed.   *)
(***************************************************************************)
EXTENDS Elements, Counting, SequencesExt

CONSTANTS
    Models,         \* variables of the application
    Plans,          \* circuits; see Node
    Steps,          \* steps of a parameter
    Places,         \* bound: places of the heap, numbers from 1
    MaxLeaked,      \* bound: elements left behind by constructors that throw
    Absent, Null

ASSUME PlacesAssumption ==
    Places \in Nat /\ MaxLeaked \in Nat /\ 0 \in Steps /\ {Absent, Null} \cap (1 .. Places) = {}

VARIABLES
    heap,           \* the elements, by place
    root,           \* _model: a place, Null, or Absent outside of its life
    flat,           \* _flatComponants
    leaked,         \* places of elements no model has
    fate            \* "alive", or what the application died of

vars == <<heap, root, flat, leaked, fate>>

-------------------------------------------------------------------------------
(***************************************************************************)
(* Trees.  A function from places to nodes is a heap; a sequence of nodes, *)
(* the root last, is the plan of a circuit that is about to be made.  If   *)
(* the string uses a digit two nodes of a plan have the same child.        *)
(***************************************************************************)
Node(op, kids) == [op |-> op, kids |-> kids, step |-> 0]

IsLeaf(node) == node.op \in DOMAIN Elements

\* The children of a node are made before it, and each node but the root is a
\* child; elements have none.
ASSUME PlansAssumption ==
    \A plan \in Plans :
      /\ plan \in Seq({plan[i] : i \in DOMAIN plan}) /\ plan # <<>>
      /\ \A i \in DOMAIN plan : /\ plan[i] = Node(plan[i].op, plan[i].kids)
                                /\ plan[i].kids \in Seq(1 .. (i - 1))
                                /\ IsLeaf(plan[i]) => plan[i].kids = <<>>
      /\ \A i \in 1 .. (Len(plan) - 1) :
           \E j \in DOMAIN plan : i \in ToSet(plan[j].kids)

\* The places a destructor frees, in this order.
Freed(nodes, top) ==
    LET freed[at \in DOMAIN nodes] ==
            FlattenSeq([k \in DOMAIN nodes[at].kids |-> freed[nodes[at].kids[k]]])
              \o <<at>>
    IN  freed[top]

\* An element in the tree has two owners.
OwnedTwice(nodes, top) ==
    Cardinality(ToSet(Freed(nodes, top))) < Len(Freed(nodes, top))

\* addComponantToFlat
FlatFrom(nodes, top) ==
    LET flats[at \in DOMAIN nodes] ==
            IF IsLeaf(nodes[at]) THEN <<at>>
            ELSE FlattenSeq([k \in DOMAIN nodes[at].kids |-> flats[nodes[at].kids[k]]])
    IN  flats[top]

\* A plan that is moved to make room for n nodes before it.
Moved(plan, n) ==
    [i \in DOMAIN plan |->
       [plan[i] EXCEPT !.kids = [j \in DOMAIN @ |-> @[j] + n]]]

\* Componant::copy and the copy constructors: the plan of a copy.  An element
\* with two owners is copied twice.
CopyOf(nodes, top) ==
    LET copy[at \in DOMAIN nodes] ==
            LET kids == nodes[at].kids
                before(k) == Len(FlattenSeq([j \in 1 .. k |-> copy[kids[j]]]))
            IN  FlattenSeq([k \in DOMAIN kids |-> Moved(copy[kids[k]], before(k - 1))])
                  \o <<[nodes[at] EXCEPT !.kids = [k \in DOMAIN @ |-> before(k)]]>>
    IN  copy[top]
-------------------------------------------------------------------------------
Without(h, places) == [i \in DOMAIN h \ places |-> h[i]]

\* The n lowest places that are free in h.
Room(h, n) ==
    LET free == (1 .. Places) \ DOMAIN h
    IN  [k \in 1 .. n |->
           CHOOSE i \in free : Before(free, i) = k - 1]

Fits(h, n) == n + Cardinality(DOMAIN h) <= Places

\* h with the nodes of a plan in it.
Placed(h, plan) ==
    LET at == Room(h, Len(plan))
        node(i) == LET k == CHOOSE k \in DOMAIN at : at[k] = i
                   IN  [plan[k] EXCEPT !.kids = [j \in DOMAIN @ |-> at[@[j]]]]
    IN  [i \in DOMAIN h \cup ToSet(at) |-> IF i \in DOMAIN h THEN h[i] ELSE node(i)]

TwoOwners(m) == root[m] \notin {Null, Absent} /\ OwnedTwice(heap, root[m])

\* The heap after the tree of m is deleted.
Deleted(m) ==
    IF root[m] \in {Null, Absent} THEN heap
    ELSE Without(heap, ToSet(Freed(heap, root[m])))

DiesOf(cause) ==
    /\ fate' = cause
    /\ UNCHANGED <<heap, root, flat, leaked>>
-------------------------------------------------------------------------------
Init ==
    /\ heap = <<>>
    /\ root = [m \in Models |-> Absent]
    /\ flat = [m \in Models |-> <<>>]
    /\ leaked = {}
    /\ fate = "alive"

Construct(m, plan) ==
    /\ fate = "alive" /\ root[m] = Absent
    /\ Fits(heap, Len(plan))
    /\ heap' = Placed(heap, plan)
    /\ root' = [root EXCEPT ![m] = Last(Room(heap, Len(plan)))]
    /\ flat' = [flat EXCEPT ![m] = <<>>]
    /\ UNCHANGED <<leaked, fate>>

\* A bracket that is not closed: processBrackets returns a null pointer, and
\* the elements made so far are left behind.
ConstructNull(m, left) ==
    /\ fate = "alive" /\ root[m] = Absent
    /\ Fits(heap, left) /\ Cardinality(leaked) + left <= MaxLeaked
    /\ heap' = Placed(heap, [k \in 1 .. left |-> Node("r", <<>>)])
    /\ leaked' = leaked \cup ToSet(Room(heap, left))
    /\ root' = [root EXCEPT ![m] = Null]
    /\ flat' = [flat EXCEPT ![m] = <<>>]
    /\ UNCHANGED fate

\* The string is refused: likewise, but the constructor throws.
ConstructThrows(left) ==
    /\ fate = "alive"
    /\ Fits(heap, left) /\ Cardinality(leaked) + left <= MaxLeaked
    /\ heap' = Placed(heap, [k \in 1 .. left |-> Node("r", <<>>)])
    /\ leaked' = leaked \cup ToSet(Room(heap, left))
    /\ UNCHANGED <<root, flat, fate>>

\* Variant: the list of leaves is not cleared.
Assign_KeepsFlat(m, n) ==
    /\ fate = "alive"
    /\ m # n /\ root[n] \notin {Null, Absent}
    /\ ~TwoOwners(m)
    /\ LET plan == CopyOf(heap, root[n])
           rest == Deleted(m)
       IN  /\ Fits(rest, Len(plan))
           /\ heap' = Placed(rest, plan)
           /\ root' = [root EXCEPT ![m] = Last(Room(rest, Len(plan)))]
    /\ UNCHANGED <<flat, leaked, fate>>

\* operator=, and the copy constructor, which calls it.
Assign(m, n) ==
    /\ fate = "alive"
    /\ m # n /\ root[n] \notin {Null, Absent}
    /\ ~TwoOwners(m)
    /\ LET plan == CopyOf(heap, root[n])
           rest == Deleted(m)
       IN  /\ Fits(rest, Len(plan))
           /\ heap' = Placed(rest, plan)
           /\ root' = [root EXCEPT ![m] = Last(Room(rest, Len(plan)))]
    /\ flat' = [flat EXCEPT ![m] = <<>>]
    /\ UNCHANGED <<leaked, fate>>

\* What is copied has just been deleted.
AssignSelf(m) ==
    /\ fate = "alive" /\ root[m] # Absent
    /\ DiesOf("assigned to itself")

\* Nothing asks whether there is anything to copy.
AssignNull(m, n) ==
    /\ fate = "alive"
    /\ m # n /\ root[n] = Null
    /\ ~TwoOwners(m)
    /\ DiesOf("no circuit")

\* The destructor, or that of the tree in an assignment, comes to an element
\* a second time.
DeleteTwice(m) ==
    /\ fate = "alive"
    /\ TwoOwners(m)
    /\ DiesOf("two owners")

\* Variant: combinations do not delete their elements.
Destroy_RootOnly(m) ==
    /\ fate = "alive" /\ root[m] # Absent
    /\ ~TwoOwners(m)
    /\ heap' = Without(heap, {root[m]})
    /\ root' = [root EXCEPT ![m] = Absent]
    /\ flat' = [flat EXCEPT ![m] = <<>>]
    /\ UNCHANGED <<leaked, fate>>

Destroy(m) ==
    /\ fate = "alive" /\ root[m] # Absent
    /\ ~TwoOwners(m)
    /\ heap' = Deleted(m)
    /\ root' = [root EXCEPT ![m] = Absent]
    /\ flat' = [flat EXCEPT ![m] = <<>>]
    /\ UNCHANGED <<leaked, fate>>
-------------------------------------------------------------------------------
\* getFlatComponants
FlatOf(m) == IF flat[m] = <<>> THEN FlatFrom(heap, root[m]) ELSE flat[m]

\* resolveSteps, through getFlatParameters: one element gets another step.
SetStep(m, k, step) ==
    /\ fate = "alive"
    /\ root[m] \notin {Null, Absent}
    /\ flat' = [flat EXCEPT ![m] = FlatOf(m)]
    /\ k \in DOMAIN FlatOf(m)
    /\ heap' = [heap EXCEPT ![FlatOf(m)[k]].step = step]
    /\ UNCHANGED <<root, leaked, fate>>

\* The methods that use the list of leaves, or ask whether the circuit can be
\* compiled, do not ask whether there is one.
UseNull(m) ==
    /\ fate = "alive" /\ root[m] = Null
    /\ DiesOf("no circuit")

\* getCode, getTorchScript: the parameters of the generated code, in the order
\* in which it takes them from the vector it is given.
Listed(m, list(_)) ==
    LET leaves == FlatFrom(heap, root[m])
        names(at) == [k \in 1 .. list(Elements[heap[at].op]) |-> <<at, k - 1>>]
    IN  FlattenSeq([k \in DOMAIN leaves |-> names(leaves[k])])

CodeParameters(m) == Listed(m, LAMBDA element : element.code)
ScriptParameters(m) == Listed(m, LAMBDA element : element.script)

\* The parameters execute passes to it: getFlatParameters.
FlatParameters(m) ==
    LET leaves == FlatOf(m)
        ranges(at) == [k \in 1 .. Elements[heap[at].op].ranges |-> <<at, k - 1>>]
    IN  FlattenSeq([k \in DOMAIN leaves |-> ranges(leaves[k])])
-------------------------------------------------------------------------------
Next ==
    \/ \E m \in Models, plan \in Plans : Construct(m, plan)
    \/ \E m \in Models, left \in 0 .. MaxLeaked : ConstructNull(m, left)
    \/ \E left \in 1 .. MaxLeaked : ConstructThrows(left)
    \/ \E m, n \in Models : Assign(m, n) \/ AssignNull(m, n)
    \/ \E m \in Models :
         \/ AssignSelf(m)
         \/ DeleteTwice(m)
         \/ Destroy(m)
         \/ \E k \in 1 .. Places, step \in Steps : SetStep(m, k, step)
         \/ UseNull(m)

Spec == Init /\ [][Next]_vars
===============================================================================
