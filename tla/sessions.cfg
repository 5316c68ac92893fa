SPECIFICATION Spec
CONSTANTS
    Users = {u1}
    Emails = {e1}
    Idents = {t1, t2, t3}
    Codes = {}
    Requests = {r1, r2}
    Ops <- SessionOps
    None = None
    MaxActiveSessions = 1
    MaxRecoveries = 1
    AuthExpiresIn = 1
    AuthRefreshExpiresIn = 1
    RecoveryExpiresIn = 1
    AttemptWindow = 1
    TokenRetention = 1
    RecoveryRetention = 1
    Horizon = 2
    MaxDetached = 1
    MaxPassword = 0
SYMMETRY Symmetry
CONSTRAINT FewRemovals
INVARIANTS SessionBound ActsOnSeen
PROPERTIES RevocationFinal
CHECK_DEADLOCK FALSE
