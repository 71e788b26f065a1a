------------------------------ MODULE MCLifecycle ------------------------------
(* Model-checking instance of Lifecycle.                                  *)
EXTENDS Lifecycle

CONSTANTS n1, n2

OneNode == {n1}
TwoNodes == {n1, n2}

\* A fresh data directory.
FreshDir == {None}

\* The same two-replica deployment in every agent's state.json.
CarriedDir == {[rep |-> 2, pods |-> {}]}
====
