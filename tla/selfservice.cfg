SPECIFICATION Spec
CONSTANTS
    Users = {u1, u2}
    Emails = {e1, e2}
    Idents = {t1}
    Codes = {}
    Requests = {r1, r2}
    Ops <- SelfServiceOps
    None = None
    MaxActiveSessions = 1
    MaxRecoveries = 1
    AuthExpiresIn = 1
    AuthRefreshExpiresIn = 1
    RecoveryExpiresIn = 1
    AttemptWindow = 1
    TokenRetention = 1
    RecoveryRetention = 1
    Horizon = 0
    MaxDetached = 1
    MaxPassword = 0
SYMMETRY RowSymmetry
INVARIANTS UniqueEmails
CHECK_DEADLOCK FALSE
