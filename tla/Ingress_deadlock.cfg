\* handleRequest calls ic.mu.Lock() while holding its own ic.mu.RLock().
CONSTANTS
    r1 = r1  r2 = r2
    Request <- MCRequest
    Api = Api
    None = None
SPECIFICATION Spec
PROPERTY RequestAnswered
CHECK_DEADLOCK FALSE
