SPECIFICATION Spec
CONSTANTS
    Features = {"brand", "carrier", "client", "discount", "place", "template", "permission",
                "category", "user", "log_data", "cron_history", "mail_queue", "log_history"}
    Changing = {"cron_history"}
    Single = {"carrier", "discount", "place", "template", "user", "log_data", "mail_queue"}
    Rows = {i1, i2}
    Keys = {k1, k2}
    Requests = {r1, r2}
    Ops = {"create", "read", "update", "delete", "restore", "statusUpdate", "find",
           "orderUpdate", "grant", "revoke", "regrant"}
    Contested = {"delete"}
    MaxArrivals = 2
    None = None
SYMMETRY Symmetry
CONSTRAINT Bounded
CHECK_DEADLOCK FALSE
INVARIANTS TypeOK UniqueKeys ReadsFresh ActsOnGranted StaleExplained
PROPERTIES OwnColumns HistoryTells AloneIsAtomic
