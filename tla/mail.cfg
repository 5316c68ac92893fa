SPECIFICATION FairSpec
CONSTANTS
    Mails = {m1}
    Slots = {w1, w2}
    None = None
    MaxAttempts = 3
    MaxStalled = 1
INVARIANTS TypeOK DeliveryBound NeverForgotten SentIsDelivered
PROPERTIES Promised JobsEnd
CHECK_DEADLOCK FALSE
