\* Liveness: two pending epochs of one method share the provider, writes fail now and then.
SPECIFICATION FairSpec
CONSTANTS
    l1 = l1  l2 = l2  d1 = d1  d2 = d2
    evm = evm  qtsa = qtsa
    Leaf = {l1}
    Did = {d1}
    NoDid = NoDid
    LeafCap = 1
    MaxEpoch = 3
    Method = {evm}
    NoMethod = NoMethod
    OnChain = {evm}
    MaxAnchor = 2
    MaxAnchorFaults = 2
    NotFoundTimeout = 1
    StoreFaults = {"fail"}
    Configs <- EvmOnly
    MaxCrashes = 0
PROPERTY
    EventuallySettled
