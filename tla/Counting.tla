-------------------------------- MODULE Counting --------------------------------
(***************************************************************************)
(* How many of some places come before another, and the products of the    *)
(* first factors of a list.                                                *)
(***************************************************************************)
EXTENDS Integers, FiniteSets

Before(places, i) == Cardinality({j \in places : j < i})

\* The product of the first p factors, for each p, in arithmetic modulo w.
WordProducts(factor, n, w) ==
    LET product[p \in 0..n] ==
            IF p = 0 THEN 1 ELSE (product[p - 1] * factor[p]) % w
    IN  product
================================================================================
