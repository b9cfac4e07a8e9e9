----------------------------- MODULE MCConsole ------------------------------
(* Model values for Console.                                               *)
EXTENDS Console

CONSTANTS ann, bob, q1, q2, t1, t2, c1, shop, d1, d2, e1, e2, s1, k1, k2, v1, v2

=============================================================================
