\* What accumulator.rs says of accepted leaves, against a failing persist.
SPECIFICATION Spec
CONSTANTS
    l1 = l1  l2 = l2  d1 = d1  d2 = d2
    evm = evm  qtsa = qtsa
    Leaf = {l1}
    Did = {d1}
    NoDid = NoDid
    LeafCap = 1
    MaxEpoch = 3
    Method = {qtsa}
    NoMethod = NoMethod
    OnChain = {}
    MaxAnchor = 1
    MaxAnchorFaults = 1
    NotFoundTimeout = 1
    StoreFaults = {"fail"}
    Configs <- QtsaOnly
    MaxCrashes = 0
INVARIANT
    NoLeafDisappears
