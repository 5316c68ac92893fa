SPECIFICATION Spec
CONSTANTS
    Users = {u1}
    Emails = {e1}
    Idents = {t1}
    Codes = {}
    Requests = {r1, r2}
    Ops <- BackOfficeOps
    None = None
    MaxActiveSessions = 1
    MaxRecoveries = 1
    AuthExpiresIn = 0
    AuthRefreshExpiresIn = 1
    RecoveryExpiresIn = 1
    AttemptWindow = 1
    TokenRetention = 1
    RecoveryRetention = 1
    Horizon = 1
    MaxDetached = 1
    MaxPassword = 1
INVARIANTS TypeOK ActsOnSeen
PROPERTIES NoLostPassword
SYMMETRY Symmetry
CHECK_DEADLOCK FALSE
