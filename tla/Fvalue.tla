-------------------------------- MODULE Fvalue --------------------------------
(***************************************************************************)
(* fvalue, the floating point number of the library, as a reduced fraction *)
(* <<numerator, denominator>> that does not round.  As in IEEE 754,        *)
(* dividing by zero gives an infinity, and 0/0 is not a number.            *)
(***************************************************************************)
EXTENDS Integers

Abs(n) == IF n < 0 THEN -n ELSE n
Sign(n) == IF n < 0 THEN -1 ELSE IF n > 0 THEN 1 ELSE 0

Gcd(m, n) ==
    LET gcd[k \in 0..n] == [i \in Nat |-> IF k = 0 THEN i ELSE gcd[i % k][k]]
    IN  gcd[n][m]

\* q is not negative.
InLowestTerms(p, q, g) == <<p \div g, q \div g>>
Fraction(p, q) == IF q = 0 THEN <<Sign(p), 0>> ELSE InLowestTerms(p, q, Gcd(Abs(p), q))

Whole(n) == <<n, 1>>
Nan == <<0, 0>>
Inf == <<1, 0>>
Finite(x) == x[2] # 0
Finites == Int \X (Nat \ {0})

Minus(x) == <<-x[1], x[2]>>
Fvalues == Finites \cup {Nan, Inf, Minus(Inf)}

\* Both numerators over a common denominator, which is left as two factors:
\* that keeps them small.
ScaledBy(x, y, g) ==
    <<x[1] * (y[2] \div g), y[1] * (x[2] \div g), x[2], y[2] \div g>>
Scaled(x, y) == ScaledBy(x, y, Gcd(x[2], y[2]))

Total(scaled) == Fraction(scaled[1] + scaled[2], scaled[3] * scaled[4])
Plus(x, y) ==
    IF Finite(x) /\ Finite(y) THEN Total(Scaled(x, y))
    ELSE IF x = y THEN x ELSE Fraction(x[1] * y[2] + y[1] * x[2], 0)

Ascending(scaled) == scaled[1] < scaled[2]
Less(x, y) ==
    IF Finite(x) /\ Finite(y) THEN Ascending(Scaled(x, y))
    ELSE x # y /\ Nan \notin {x, y} /\ (x = Minus(Inf) \/ y = Inf)

\* What is not a number is not equal to itself.
Same(x, y) == ~Less(x, y) /\ ~Less(y, x) /\ Nan \notin {x, y}

Magnitude(x) == <<Abs(x[1]), x[2]>>
Times(x, y) == Fraction(x[1] * y[1], x[2] * y[2])
Over(x, y) ==
    Fraction((IF y[1] < 0 THEN -1 ELSE 1) * x[1] * y[2], x[2] * Abs(y[1]))
Difference(x, y) == Plus(x, Minus(y))
Middle(x, y) == Over(Plus(x, y), Whole(2))
===============================================================================
