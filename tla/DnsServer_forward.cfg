\* Query forwarding and the whitelist check while the whitelist API runs.
CONSTANTS
    g1 = g1
    q1 = q1
    Handler <- MCHandler
    RawHost <- WlHost
    Normalize <- WlNormalize
    Lower <- MCLower
    Zone <- MCZone
    Query <- MCQuery
    QName <- MCQName
    Target <- MCTarget
    NumUpstream = 2
    CheckedName <- MCCheckedName
    Underscored <- MCUnderscored
    QType <- MCQType
    Endpoints <- MCEndpoints
SPECIFICATION ServerSpec
INVARIANT ServerTypeOK
INVARIANT HostAllowedMatchesSpec
PROPERTY QueryAnswered
