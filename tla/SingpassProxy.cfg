SPECIFICATION FairSpec
CONSTANTS
    l1 = l1  h1 = h1  h2 = h2
    None = None
    Callers <- MCCallers
    Logins <- MCLogins
    SingpassKeys = {k1, k2}
INVARIANTS
    TypeOK
    OneProxyPerProcess
    TokenReadable
PROPERTIES
    EveryCallEnds
