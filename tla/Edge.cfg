SPECIFICATION Spec
CONSTANTS
    u1 = u1  u2 = u2
    UserIds = {u1, u2}
    None = None
INVARIANTS
    TypeOK
    OneAnswerOneLine
    AuditedOnce
    ActsForVerified
    AnswerTellsOutcome
