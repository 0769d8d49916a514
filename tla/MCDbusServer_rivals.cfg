SPECIFICATION FairServersSpec
CONSTANTS
    s1 = s1
    s2 = s2
    lender = lender
    i1 = i1
    n1 = n1
    h1 = h1
    h2 = h2
    m1 = m1
    Servers = {s1, s2}
    Names = {n1}
    BusName <- OneName
    Foreign = {lender}
    Lenders = {lender}
    Intfs = {i1}
    Intro = Intro
    Handlers = {h1, h2}
    Introspect = Introspect
    NoHandler = NoHandler
    Offers <- SomeOffers
    Msgs = {m1}
    NoOwner = NoOwner
    NoMsg = NoMsg
INVARIANTS
    OwnerKept
    RegistryMatched
PROPERTY Served
