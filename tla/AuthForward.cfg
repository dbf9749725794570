SPECIFICATION ForwardSpec
CONSTANTS
    c1 = c1  c2 = c2  e1 = e1  h1 = h1  f1 = f1  f2 = f2  k1 = k1  k2 = k2
    None = None
    Clerks = {c1, c2}
    Emails = {e1}
    Names = {n1}
    Markets = {sg}
    KafkaEnabled = TRUE
    MaxFaults = 1
    Handlers = {h1}
    Messages <- MCMessages
    Forwards = {f1, f2}
    Keys = {k1, k2}
    Tokens <- MCTokens
SYMMETRY Interchangeable
INVARIANTS
    ForwardTypeOK
    VerifiedKeysCurrent
    IdentifiedIsBound
PROPERTIES
    BoundIsIdentified
