SPECIFICATION Spec
CONSTANTS
    Conns = {c1, c2}
    Jobs = {c1, c2}
    NoConn = nil
    NoJob = nil
    NoRequest = nothing
    Workers = {w1}
    MaxQueued = 1
    KeepAliveMax = 2
    Clients = {k1, k2}
    Persistent = {k1}
    Followers = {k1}
    Stoppable = {k1}
    MaxRedirects = 1
    Handlers <- TheHandlers
    Requests <- TheRequests
    Strays <- TheStrays
    Sends <- TheSends
    Locations <- TheLocations
INVARIANTS InStep SocketsOwned
PROPERTIES
    WorkersReturn
    ListenEnds
    CallsEnd
