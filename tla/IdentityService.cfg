SPECIFICATION Spec
CONSTANTS
    c1 = c1  e1 = e1  n1 = n1  n2 = n2  sg = sg
    r1 = r1  w1 = w1  h1 = h1  s1 = s1  s2 = s2
    None = None
    Unsupported = Unsupported
    Clerks = {c1}
    Emails = {e1}
    Names = {n1, n2}
    Markets = {sg}
    KafkaEnabled = TRUE
    MaxFaults = 1
    Accounts <- OneAccount
    Readers = {r1}
    Updaters = {w1}
    QueriedIds <- KnownId
    Updates <- MCUpdates
    States = {s1, s2}
    TTL = 1
    MaxTime = 0
    Callbacks = {h1}
    CarriesEmail = FALSE
    UserInfos <- MCUserInfos
    Untagged <- NoTags
INVARIANTS
    KycIsLastWrite
    StaleOnlyIfExcused
