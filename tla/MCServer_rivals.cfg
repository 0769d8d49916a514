SPECIFICATION FairServerSpec
CONSTANTS
    c = c
    s = s
    P = P
    Q = Q
    cn = cn
    sn = sn
    d = d
    a = a
    b = b
    z = z
    NoOwner = NoOwner
    Foreign = Foreign
    Endpoints <- TheEndpoints
    Clients = {c}
    Procs = {P, Q}
    ProcOf <- RivalProcOf
    Names = {sn}
    NameOf <- RivalNameOf
    Dests = {d}
    ReleaseOnQueued = FALSE
    Ifaces = {a, z}
    Rank <- TheRank
    ObjRank <- TheObjRank
    Broken = {z}
    Wants <- TheWants
INVARIANTS
    NoGhostClaim
    ExportsComplete
    ClientHearsOnce
PROPERTIES
    RivalsAlternate
