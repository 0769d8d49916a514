SPECIFICATION FairSpec
CONSTANTS
    g = g
    l = l
    c1 = c1
    c2 = c2
    NoProc = NoProc
    NoCall = NoCall
    Procs = {g, l}
    Libdbus = {l}
    Peers <- AllPeers
    Requests <- AllKinds
    Calls = {c1, c2}
INVARIANTS
    TrueMeansAnswered
PROPERTIES
    CyclesBlock
    ImplementsCalls
    CallsSettle
