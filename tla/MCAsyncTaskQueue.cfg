CONSTANTS
    Tasks = {t1, t2, t3}
    NoTask = NoTask
    Delay = 2
    TimerSlack = 1
SPECIFICATION FairSpec
INVARIANTS
    TypeOK
    Spacing
    NothingLost
PROPERTIES
    EveryPushAnswered
    ServesInOrder
CHECK_DEADLOCK FALSE
