SPECIFICATION FairServerSpec
CONSTANTS
    c = c
    s = s
    P = P
    Q = Q
    cn = cn
    sn = sn
    d = d
    a = a
    b = b
    z = z
    NoOwner = NoOwner
    Foreign = Foreign
    Endpoints <- TheEndpoints
    Clients = {c}
    Procs = {P}
    ProcOf <- SharedProcOf
    Names = {cn, sn}
    NameOf <- SharedNameOf
    Dests = {d}
    ReleaseOnQueued = TRUE
    Ifaces = {a, b}
    Rank <- TheRank
    ObjRank <- TheObjRank
    Broken = {}
    Wants <- TheWants
INVARIANTS
    ConnUsable
    RetryArmed
    ProxiesFresh
    NoSilentLoss
    StartedExports
    ServerHearsOnce
PROPERTIES
    Recovers
    ImplementsSession
