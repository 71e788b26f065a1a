------------------------------ MODULE MCRegistry ------------------------------
(* Two agents, two endpoints of one service; a 30 s TTL is three 10 s      *)
(* ticks.                                                                  *)
EXTENDS Registry, TLC

CONSTANTS n1, n2, e1, e2

MCNode == {n1, n2}

MCEndpoint == {e1, e2}

OneEndpoint == {e1}

OneNode == {n1}

Symmetry == Permutations(MCNode) \cup Permutations(MCEndpoint)
====
