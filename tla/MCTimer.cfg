SPECIFICATION Spec
CONSTANTS
    t = t
    u = u
    Timers = {t, u}
    NoTimer = NoTimer
    MaxId = 5
INVARIANTS
    SourcesOwned
PROPERTIES
    CallsSpareOthers
    ImplementsTimer
