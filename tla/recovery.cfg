SPECIFICATION Spec
CONSTANTS
    Users = {u1}
    Emails = {e1}
    Idents = {}
    Codes = {c1, c2, c3}
    Requests = {r1, r2}
    Ops <- RecoveryOps
    None = None
    MaxActiveSessions = 1
    MaxRecoveries = 1
    AuthExpiresIn = 1
    AuthRefreshExpiresIn = 1
    RecoveryExpiresIn = 1
    AttemptWindow = 1
    TokenRetention = 1
    RecoveryRetention = 1
    Horizon = 2
    MaxDetached = 1
    MaxPassword = 3
INVARIANTS ActsOnSeen RecoveryBound CodeSpentBound
PROPERTIES CodeRemovalFinal
SYMMETRY Symmetry
CHECK_DEADLOCK FALSE
