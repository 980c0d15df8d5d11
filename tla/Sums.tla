-------------------------------- MODULE Sums --------------------------------
(* The sum of the first n values of a function on numbers, and powers of   *)
(* ten.                                                                    *)
EXTENDS Integers

SumTo(g, n) ==
    LET upTo[k \in 0..n] == IF k = 0 THEN 0 ELSE upTo[k - 1] + g[k]
    IN  upTo[n]

TenTo(n) ==
    LET upTo[k \in 0..n] == IF k = 0 THEN 1 ELSE 10 * upTo[k - 1]
    IN  upTo[n]
=============================================================================
