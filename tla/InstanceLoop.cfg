CONSTANTS
    Ids = {1, 2}
    PeerTypes <- Types
    MaxTimer = 4
    QueueBound = 2
SPECIFICATION LiveSpec
INVARIANTS
    TypeOK
    HandlesOwnMessages
    ResetBeforeReuse
    TimerArmed
PROPERTIES
    StaleTimersIgnored
    RoundsEnd
    ImplementsInbox
CHECK_DEADLOCK FALSE
