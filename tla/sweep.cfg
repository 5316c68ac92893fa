SPECIFICATION FairSpec
CONSTANTS
    Users = {u1}
    Emails = {e1}
    Idents = {t1, t2}
    Codes = {c1}
    Requests = {r1}
    Ops <- SweepOps
    None = None
    MaxActiveSessions = 1
    MaxRecoveries = 1
    AuthExpiresIn = 1
    AuthRefreshExpiresIn = 1
    RecoveryExpiresIn = 1
    AttemptWindow = 1
    TokenRetention = 1
    RecoveryRetention = 1
    Horizon = 3
    MaxDetached = 1
    MaxPassword = 2
PROPERTIES OutdatedSwept
CHECK_DEADLOCK FALSE
