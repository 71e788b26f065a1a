------------------------------ MODULE MCIngress -------------------------------
(* Two request goroutines and the API goroutine.                           *)
EXTENDS Ingress

CONSTANTS r1, r2

MCRequest == {r1, r2}
====
