\* The start over every wiring, then the watcher or the bonding-curve sealer on one wallet.
SPECIFICATION FundingSpec
CONSTANTS
    s1 = s1
    Sender = {s1}
    MaxPerBlock = 1
    MaxBlock = 3
    Window = 2
    StoreFaults = {"fail", "late"}
    ReadFaults = TRUE
    MaxBare = 1
    MaxCrashes = 1
    MaxBalance = 8
    MaxGas = 2
    Multiplier = 2
    MaxWaiting = 2
    TransferValue = 4
    BlockInterval <- MCBlockInterval
    Deployments <- MCDeployments
INVARIANTS
    SealsWhatItCanServe
    CountedOnce
    NoBlockSkipped
PROPERTY
    FundedIsPublished
CHECK_DEADLOCK FALSE
