CONSTANTS
    k1 = k1
    k2 = k2
    Key <- MCKey
    Ver <- MCVer
    NoEntry = NoEntry
    None = None
    Torn = Torn

SPECIFICATION Spec

INVARIANT TypeOK

PROPERTY DurableSpec
