SPECIFICATION Spec
CONSTANTS
    c1 = c1  e1 = e1  n1 = n1  n2 = n2  sg = sg  hk = hk
    w1 = w1  w2 = w2  r1 = r1  r2 = r2
    None = None
    Unsupported = Unsupported
    Clerks = {c1}
    Emails = {e1}
    Names = {n1, n2}
    Markets = {sg, hk}
    KafkaEnabled = TRUE
    MaxFaults = 1
    Readers = {r1}
    Updaters = {w1, w2}
    Accounts <- OneAccount
    QueriedIds <- KnownId
    Updates <- TwoMarkets
PROPERTIES
    MarketSetOnce
