\* What try_fetch_witness and await_witness say of a witness that is not there.
SPECIFICATION ClientSpec
CONSTANTS
    c1 = c1  c2 = c2  u1 = u1  d1 = d1  d2 = d2
    Caller = {c1}
    Threads = {"one"}
    Cancellation = FALSE
    MaxCalls = 3
    MaxExpiries = 0
    Url = {u1}
    Did = {d1}
    NoDid = NoDid
    MaxRuns = 1
    SessionCap = 1
    MaxIssued = 1
    MaxEpoch = 2
    MaxRestarts = 0
CHECK_DEADLOCK FALSE
INVARIANT
    ErrorMeansFailure
