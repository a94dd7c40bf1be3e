--------------------------- MODULE MCCompileCache ---------------------------
(***************************************************************************)
(* Two processes or one, two models each or one, and two circuits.         *)
(***************************************************************************)
EXTENDS CompileCacheProps

CONSTANTS p, q, m1, m2, n1, c, d, w, a1, a2

MCProcessOf == [m \in Models |-> IF m = n1 THEN q ELSE p]

\* The hash: any injective function will do.
MCUuid == [x \in Circuits |-> x]
=============================================================================
