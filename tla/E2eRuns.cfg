\* Two runs and a remote one race for the identity; a flow; a seal run, a
\* second one in the same directory, damage and replay.
SPECIFICATION E2eFairSpec
CONSTANTS
    p1 = p1  p2 = p2  p3 = p3  k1 = k1  k2 = k2  k3 = k3
    Proc = {p1, p2, p3}
    Remote = {p3}
    Key = {k1, k2, k3}
    KeyOf <- OwnKey
    Absent = Absent
    Empty = Empty
    Main = p1
    Commands = {"identity", "live", "selfcheck", "seal"}
    Interval = 2
    Budget = 3
    MaxTime = 14
    MaxDelay = 4
    Served = {"good", "stub", "garbled", "foreign", "unverified", "other root"}
    Runs <- TwoRuns
    Body = {"good", "stub", "garbled", "unlinked", "foreign", "refused"}
    MaxFaults = 1
    Damage = {"nonces", "s1_evm", "status", "container1", "attest1", "receipts2"}
INVARIANTS
    OneIdentity
    GivesUpLate
    FlowPassIsSound
    SubmittedStaysOnDisk
    PassIsSound
    PassIsReplayable
    ReplayAgrees
    DamageIsCaught
PROPERTIES
    RunDirUntouched
    FlowEnds
CHECK_DEADLOCK FALSE
