\* Scenario 5: one agent, a deployment of 1 or 2 replicas, podman calls
\* that succeed.  The apply is acknowledged but never stored, so the
\* recovery after a restart recreates nothing.
CONSTANTS
    n1 = n1
    n2 = n2
    Node <- OneNode
    Manifest = {1, 2, Nil}
    Nil = Nil
    Outcome = {"ok"}
    DataDir <- FreshDir
    None = None
SPECIFICATION Spec
INVARIANT RecoveryRestoresReplicas
