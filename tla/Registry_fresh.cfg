\* Deregistered endpoints stop being returned within TTL ticks of the call.
CONSTANTS
    n1 = n1  n2 = n2  e1 = e1  e2 = e2
    Node <- MCNode
    Endpoint <- OneEndpoint
    TTL = 3
SPECIFICATION Spec
SYMMETRY Symmetry
 
INVARIANT PhantomBounded
