SPECIFICATION FairSpec
CONSTANTS
    Vendors = {v}
    Loop = loop
    Kinds = {"nitz"}
    RadioStates = {10}
    MaxMessages = 1
    MaxRadio = 1
    MaxConnects = 1
CHECK_DEADLOCK FALSE
PROPERTY MissedNITZDelivered
