------------------------------- MODULE Scalars -------------------------------
(* Scalars that stand for floating point numbers.                            *)
EXTENDS Integers

least(a, b) == IF a <= b THEN a ELSE b
greatest(a, b) == IF a >= b THEN a ELSE b
magnitude(a) == IF a < 0 THEN -a ELSE a
sign(a) == IF a < 0 THEN -1 ELSE 1
between(a, lower, upper) == least(greatest(a, lower), upper)
=============================================================================
