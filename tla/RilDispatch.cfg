SPECIFICATION Spec
CONSTANTS
    Versions = {2, 3, 4}
    MaxCount = 3
    Item <- MCItem
INVARIANTS TypeOK FieldsRead RequestAlive StringsFreed
