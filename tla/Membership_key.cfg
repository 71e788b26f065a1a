CONSTANTS
    a = a
    b = b
    None = None
    Node <- MCNode
    Configs <- MCConfigs
    GenTok <- MCGenTok
    Forged <- NoForged
    Base64 <- MCBase64
    Raw32 <- MCRaw32
    Zero32 <- MCZero32
SPECIFICATION Spec
INVARIANT MembersShareKey
