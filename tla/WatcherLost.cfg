\* No failures: two transfers of one wallet in one scan.
SPECIFICATION Spec
CONSTANTS
    s1 = s1  s2 = s2
    Sender = {s1}
    MaxPerBlock = 1
    MaxBlock = 4
    Window = 2
    StoreFaults = {}
    ReadFaults = FALSE
    MaxBare = 0
    MaxCrashes = 0
INVARIANTS
    ProcessedIsCounted
