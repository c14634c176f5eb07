SPECIFICATION FairSpec
CONSTANTS
    Addresses = {"c1", "u1", "p1", "p2"}
    Trusted = {"p1", "p2"}
    Garbage = "junk"
    Unreadable = "0xff"
    Paths <- MCPaths
    Forgeries <- MCForgeries
    Capacity <- MCCapacity
    Period = 2
    IdleEviction = 3
    Lag = 1
    MaxBuckets = 1
INVARIANTS
    QuotaHolds
    RefusalIsEarned
    BucketsBounded
PROPERTIES
    PatientCallerIsServed
