\* The routes over two epochs of one leaf that two DIDs submit.
SPECIFICATION ReaderSpec
CONSTANTS
    l1 = l1  l2 = l2  d1 = d1  d2 = d2
    evm = evm  qtsa = qtsa
    Leaf = {l1}
    Did = {d1, d2}
    NoDid = NoDid
    LeafCap = 2
    MaxEpoch = 3
    Method = {qtsa}
    NoMethod = NoMethod
    OnChain = {}
    MaxAnchor = 2
    MaxAnchorFaults = 1
    NotFoundTimeout = 1
    StoreFaults = {}
    Configs <- QtsaOrNone
    MaxCrashes = 0
SYMMETRY DidSymmetry
INVARIANTS
    UnionComplete
    DeliveredStays
    ByLeafConsistent
