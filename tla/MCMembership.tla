---------------------------- MODULE MCMembership ----------------------------
EXTENDS Membership

CONSTANTS a, b

MCNode == {a, b}

MCGenTok == {"t1", "t2"}

NoForged == {}

OneForged == {"forged"}

MCBase64 == MCGenTok \cup OneForged

MCZero32 == "zero32"

MCRaw32 == {MCZero32}

\* A first node: no seeds, no join token; --encryption-key empty or "k".
FirstConfigs == {[seeds |-> {}, token |-> "", key |-> k] : k \in {"", "k"}}

\* A joiner: the other agent as seed, a join token or none, a key or none.
JoinConfigs ==
    {[seeds |-> {s}, token |-> t, key |-> k] :
        s \in MCNode, t \in MCGenTok \cup OneForged \cup {""}, k \in {"", "k"}}

MCConfigs == FirstConfigs \cup JoinConfigs
====
