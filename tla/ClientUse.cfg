\* Two callers on several threads share a client; a restart with or without a new key.
SPECIFICATION ClientSpec
CONSTANTS
    c1 = c1  c2 = c2  u1 = u1  d1 = d1  d2 = d2
    Caller = {c1, c2}
    Threads = {"many"}
    Cancellation = TRUE
    MaxCalls = 2
    MaxExpiries = 1
    Url = {u1}
    Did = {d1, d2}
    NoDid = NoDid
    MaxRuns = 2
    SessionCap = 1
    MaxIssued = 2
    MaxEpoch = 2
    MaxRestarts = 1
CHECK_DEADLOCK FALSE
SYMMETRY ClientSymmetry
INVARIANTS
    SingleFlight
    FlagHeldByRefresher
    RotationNoticed
    WitnessIsPinned
