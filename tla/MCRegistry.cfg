CONSTANTS
    MAX_ENTITIES = 3
    TEXT_LEN = 2
    Dot = "."
    Key = {0, 1}
    Text <- MCText
    Id <- MCId
    Type = {"switch"}
SPECIFICATION Spec
INVARIANTS
    TypeOK
    ShadowedStateless
PROPERTIES
    LookupStable
    ImplementsCache
