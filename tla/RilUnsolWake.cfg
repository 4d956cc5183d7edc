SPECIFICATION FairSpec
CONSTANTS
    Vendors = {v}
    Loop = loop
    Kinds = {"nitz", "quiet", "radio"}
    RadioStates = {1, 4, 9}
    MaxMessages = 2
    MaxRadio = 1
    MaxConnects = 1
CHECK_DEADLOCK FALSE
INVARIANTS TypeOK LockHasTimer TimersLive
PROPERTIES LockReleased TechAnnounced
