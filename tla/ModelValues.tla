----------------------------- MODULE ModelValues -----------------------------
(***************************************************************************)
(* What an application may believe of objects of the class Model: that     *)
(* each holds a circuit and the steps of its elements as a value, which is *)
(* copied when the object is.  There are no pointers here.                 *)
(*                                                                         *)
(* A circuit whose string uses a digit is odd: it has an element twice,    *)
(* and what is done to the one is done to the other.  A model without a    *)
(* circuit, Null, comes from a string with a bracket that is not closed.   *)
(* Die says what the application may die of.                               *)
(***************************************************************************)
EXTENDS Integers, Sequences

CONSTANTS
    Models,         \* variables of the application
    Made,           \* what constructors make; see IsValue
    Steps,          \* steps of a parameter
    Absent, Null

VARIABLES
    value,          \* the circuit of each model, Null, or Absent
    fate            \* "alive", or what the application died of

\* A value is a record of `odd' and of `nodes', the circuit in postfix
\* notation with the step of each element.
IsValue(v) == v \notin {Absent, Null}

Init ==
    /\ value = [m \in Models |-> Absent]
    /\ fate = "alive"

Becomes(m, v) ==
    /\ fate = "alive"
    /\ value' = [value EXCEPT ![m] = v]
    /\ UNCHANGED fate

Construct(m) ==
    /\ value[m] = Absent
    /\ \E v \in Made \cup {Null} : Becomes(m, v)

\* The copy of an odd model is not odd: each of its elements is one of its own.
Copy(m, n) ==
    /\ m # n
    /\ IsValue(value[n])
    /\ IsValue(value[m]) => ~value[m].odd
    /\ Becomes(m, [value[n] EXCEPT !.odd = FALSE])

Destroy(m) ==
    /\ value[m] # Absent
    /\ IsValue(value[m]) => ~value[m].odd
    /\ Becomes(m, Absent)

\* The element at k of a circuit, and those that are the same, get a step.
WithStep(nodes, k, same, step) ==
    [i \in DOMAIN nodes |->
       IF i = k \/ (i \in same /\ nodes[i].kids = 0)
       THEN [nodes[i] EXCEPT !.step = step] ELSE nodes[i]]

SetStep(m) ==
    /\ IsValue(value[m])
    /\ \E k \in DOMAIN value[m].nodes, step \in Steps,
          same \in IF value[m].odd THEN SUBSET DOMAIN value[m].nodes ELSE {{}} :
         /\ value[m].nodes[k].kids = 0
         /\ Becomes(m, [value[m] EXCEPT !.nodes = WithStep(@, k, same, step)])

Die(m) ==
    /\ fate = "alive"
    /\ \/ value[m] # Absent /\ fate' = "assigned to itself"
       \/ value[m] = Null /\ fate' = "no circuit"
       \/ IsValue(value[m]) /\ value[m].odd /\ fate' = "two owners"
    /\ UNCHANGED value

Next ==
    \E m \in Models :
        \/ Construct(m)
        \/ \E n \in Models : Copy(m, n)
        \/ Destroy(m)
        \/ SetStep(m)
        \/ Die(m)

Spec == Init /\ [][Next]_<<value, fate>>
===============================================================================
