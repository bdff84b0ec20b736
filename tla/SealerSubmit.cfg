\* Two submitters and two closed epochs of the same leaves against failing seals, a crash
\* and a restart that switches the method off.
SPECIFICATION Spec
CONSTANTS
    l1 = l1  l2 = l2  d1 = d1  d2 = d2
    evm = evm  qtsa = qtsa
    Leaf = {l1, l2}
    Did = {d1, d2}
    NoDid = NoDid
    LeafCap = 1
    MaxEpoch = 3
    Method = {qtsa}
    NoMethod = NoMethod
    OnChain = {}
    MaxAnchor = 1
    MaxAnchorFaults = 1
    NotFoundTimeout = 1
    StoreFaults = {"fail", "late"}
    Configs <- QtsaOrNone
    MaxCrashes = 1
SYMMETRY LeafSymmetry
INVARIANTS
    AckedLeavesKept
    EpochWithinCap
PROPERTIES
    SealedIsFinal
    ImplementsLedger
