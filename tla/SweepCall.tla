------------------------------ MODULE SweepCall ------------------------------
(***************************************************************************)
(* What a caller of Model::executeSweeps or Model::executeAllSweeps can    *)
(* rely on, without a word about threads.                                  *)
(*                                                                         *)
(* A call asks for "count" spectra.  A spectrum is represented by the set  *)
(* of sweep indices its points were computed at, so that the right one for *)
(* slot k is {k} and the empty slot is {}.  The slots are filled one by    *)
(* one in any order, none is filled twice, and the call returns when all   *)
(* of them are filled.  It may also fail: throw before any work was done,  *)
(* or take the process down.                                               *)
(***************************************************************************)
EXTENDS Integers

VARIABLES
    state,      \* what the caller sees of its call
    count,      \* the number of spectra asked for
    data        \* data[k]: the spectrum in slot k

vars == <<state, count, data>>

States == {"idle", "working", "returned", "threw", "dead"}

Slots == 0..(count - 1)

Init ==
    /\ state = "idle"
    /\ count = 0
    /\ data = [k \in Slots |-> {}]

Call ==
    /\ state \in {"idle", "returned", "threw"}
    /\ state' = "working"
    /\ count' \in Nat
    /\ data' = [k \in 0..(count' - 1) |-> {}]

Fill(k) ==
    /\ state = "working"
    /\ data[k] = {}
    /\ data' = [data EXCEPT ![k] = {k}]
    /\ UNCHANGED <<state, count>>

Return ==
    /\ state = "working"
    /\ \A k \in Slots : data[k] = {k}
    /\ state' = "returned"
    /\ UNCHANGED <<count, data>>

Throw ==
    /\ state = "working"
    /\ \A k \in Slots : data[k] = {}
    /\ state' = "threw"
    /\ UNCHANGED <<count, data>>

Die ==
    /\ state = "working"
    /\ state' = "dead"
    /\ UNCHANGED <<count, data>>

Next ==
    \/ Call
    \/ \E k \in Slots : Fill(k)
    \/ Return
    \/ Throw
    \/ Die

Spec == Init /\ [][Next]_vars
=============================================================================
