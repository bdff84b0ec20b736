\* One epoch, two methods, every store failure, one crash.
SPECIFICATION Spec
CONSTANTS
    l1 = l1  l2 = l2  d1 = d1  d2 = d2
    evm = evm  qtsa = qtsa
    Leaf = {l1}
    Did = {d1}
    NoDid = NoDid
    LeafCap = 2
    MaxEpoch = 2
    Method = {evm, qtsa}
    NoMethod = NoMethod
    OnChain = {evm}
    MaxAnchor = 3
    MaxAnchorFaults = 2
    NotFoundTimeout = 1
    StoreFaults = {"fail", "late"}
    Configs <- BothMethods
    MaxCrashes = 1
INVARIANTS
    IInv
    AnchorBudget
    ServedIsAnchored
    PendingOrServed
PROPERTIES
    PendingUntilServed
    StalledIsFinal
