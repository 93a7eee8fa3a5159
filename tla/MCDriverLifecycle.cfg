CONSTANTS
    MaxThreads = 3
    JoinTimesOut = TRUE
SPECIFICATION FairSpec
INVARIANTS
    LifecycleTypeOK
    OneThread
    SessionWhole
PROPERTIES
    NoStaleWork
    WorksWhenEnabled
