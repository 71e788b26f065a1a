------------------------------ MODULE MCApiAuth ------------------------------
(* Model-checking instance of ApiAuth: two agents, four token values,    *)
(* tokens without expiry or expiring after one or two seconds, a 3 s clock.      *)
EXTENDS ApiAuth

CONSTANTS n1, n2, t1, t2, t3, t4

MCNode == {n1, n2}
MCTok == {t1, t2, t3, t4}
MCExpiresIn == {0, 1, 2}
====
