----------------------------- MODULE MCStoreSync -----------------------------
(* Model-checking instance of StoreSync: two agents, one deployment key.  *)
EXTENDS StoreSync

CONSTANTS n1, n2, k1, d1

MCNode == {n1, n2}
OneKey == {k1}
OneVer == {d1}

\* state.json of an agent that ran before (one deployment and a service
\* selecting its pods, or the deployment alone), or of a new agent (none).
CarriedOrFresh ==
    {[dep |-> [k \in OneKey |-> d1], svc |-> TRUE],
     [dep |-> [k \in OneKey |-> d1], svc |-> FALSE],
     [dep |-> [k \in OneKey |-> NoEntry], svc |-> FALSE]}
====
