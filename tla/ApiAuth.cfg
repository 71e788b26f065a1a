CONSTANTS
    n1 = n1
    n2 = n2
    t1 = t1
    t2 = t2
    t3 = t3
    t4 = t4
    Node <- MCNode
    Tok <- MCTok
    ExpiresIn <- MCExpiresIn
    Forged = Forged
    Configured = Configured
    Missing = Missing
    None = None
    MaxTime = 3
    AuthEnabled = TRUE
    APIToken = FALSE

SPECIFICATION Spec

INVARIANT TypeOK AdmitsExactlyLive
