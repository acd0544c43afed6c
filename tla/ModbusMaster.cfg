SPECIFICATION Spec
CONSTANTS
    Instances = {1, 2}
    MaxInits = 2
    MaxGroups = 2
    MaxBlocks = 4
INVARIANTS
    TypeOK
    SafeIfSerial
    RequestsKept
    LostByInitAlone
