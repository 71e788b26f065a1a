\* One agent, one endpoint: a registered endpoint stays resolvable.
CONSTANTS
    n1 = n1  n2 = n2  e1 = e1  e2 = e2
    Node <- OneNode
    Endpoint <- OneEndpoint
    TTL = 3
SPECIFICATION Spec
INVARIANT RegisteredStaysResolvable
