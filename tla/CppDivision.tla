---------------------------- MODULE CppDivision ----------------------------
(* The operators / and % of C++, which round towards zero.                 *)
EXTENDS Integers

Quotient(a, b) == IF a >= 0 THEN a \div b ELSE -((-a) \div b)
Remainder(a, b) == a - b * Quotient(a, b)
=============================================================================
