\* DeleteManifest after an applyDeployment that placed a pod on this agent.
CONSTANTS
    n1 = n1
    n2 = n2
    g1 = g1
    g2 = g2
    p1 = p1
    p2 = p2
    p3 = p3
    d1 = d1
    d2 = d2
    None = None
    Node <- MCNode
    Local = n1
    Handler <- MCHandler
    Pod <- MCPod
    Dep <- MCDep
    Replicas = 1
SPECIFICATION Spec
INVARIANT DeletedPodsUnscheduled
