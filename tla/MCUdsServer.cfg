SPECIFICATION FairSpec
CONSTANTS
    p = p
    q = q
    Procs = {p, q}
    NoFile = NoFile
    NoSocket = NoSocket
    Dead = Dead
    KeyOrder <- MCKeyOrder
    Values <- MCValues
    Presets <- MCPresets
    Texts <- MCTexts
INVARIANTS
    Covered
PROPERTIES
    ConfigReads
    RestartServes
