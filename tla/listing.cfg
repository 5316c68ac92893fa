SPECIFICATION Spec
CONSTANTS
    Features = {"brand", "carrier", "client", "discount", "place", "template", "permission",
                "user_permission", "log_data", "cron_history", "log_history", "mail_queue",
                "category", "user"}
    Changing = {"carrier"}
    Initial <- MCInitial
    Queries <- MCQueries
    MaxChanges = 2
    MaxPages = 6
    None = None
CHECK_DEADLOCK FALSE
INVARIANTS TypeOK WalkDrifts
PROPERTIES Listed
