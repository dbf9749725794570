SPECIFICATION Spec
CONSTANTS
    c1 = c1  c2 = c2  e1 = e1  e1test = e1test  e2 = e2  n1 = n1
    s1 = s1  s2 = s2  h1 = h1  h2 = h2
    None = None
    Clerks = {c1, c2}
    Emails = {e1, e1test, e2}
    Names = {n1}
    Markets = {sg}
    KafkaEnabled = TRUE
    MaxFaults = 1
    States = {s1, s2}
    TTL = 1
    MaxTime = 2
    Callbacks = {h1, h2}
    Accounts <- MCAccounts
    CarriesEmail = FALSE
    UserInfos <- MCUserInfos
    Untagged <- MCUntagged
SYMMETRY Interchangeable
INVARIANTS
    EmailChecked
