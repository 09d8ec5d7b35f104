SPECIFICATION FairSpec
CONSTANTS
    Steps = 4
    MaxVersion = 5
INVARIANTS
    CleanIsRecent
PROPERTIES
    StrictReadIsRecent
    NotificationsHandled
CHECK_DEADLOCK FALSE
