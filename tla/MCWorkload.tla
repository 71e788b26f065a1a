------------------------------ MODULE MCWorkload ------------------------------
EXTENDS Workload

CONSTANTS n1, n2, g1, g2, p1, p2, p3, d1, d2

MCNode == {n1, n2}

MCHandler == {g1, g2}

MCPod == {p1, p2, p3}

MCDep == {d1, d2}
====
