\* Both runtimes, calls dropped at any await: on one thread every call returns.
SPECIFICATION FairSpec
CONSTANTS
    c1 = c1  c2 = c2  c3 = c3
    Caller = {c1, c2, c3}
    Threads = {"one", "many"}
    Cancellation = TRUE
    MaxCalls = 2
    MaxExpiries = 1
CHECK_DEADLOCK FALSE
PROPERTY
    ReturnsOnOneThread
