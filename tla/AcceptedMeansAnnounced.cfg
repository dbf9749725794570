SPECIFICATION Spec
CONSTANTS
    c1 = c1  c2 = c2  e1 = e1  e2 = e2  h1 = h1  h2 = h2
    None = None
    Clerks = {c1, c2}
    Emails = {e1, e2}
    Names = {n1}
    Markets = {sg}
    KafkaEnabled = TRUE
    MaxFaults = 1
    Handlers = {h1, h2}
    Messages <- MCMessages
INVARIANTS
    AcceptedMeansAnnounced
