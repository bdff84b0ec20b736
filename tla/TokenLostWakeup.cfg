\* What ensure_token says of its waiters, on several threads.
SPECIFICATION FairSpec
CONSTANTS
    c1 = c1  c2 = c2  c3 = c3
    Caller = {c1, c2}
    Threads = {"many"}
    Cancellation = FALSE
    MaxCalls = 1
    MaxExpiries = 0
CHECK_DEADLOCK FALSE
PROPERTY
    EveryCallReturns
