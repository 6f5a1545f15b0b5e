SPECIFICATION Spec
CONSTANTS
    a1 = a1
    a2 = a2
    a3 = a3
    a4 = a4
    k1 = k1
    k2 = k2
    None = None
    Addr = {a1, a2, a3, a4}
    NewBucketCount = 2
    TriedBucket = {k1, k2}
    GetTriedBucket <- MCGetTriedBucket
    NewBucketSize = 2
    TriedBucketSize = 1
    BucketsPerAddress = 2
    GetAddrMaxPct = 50
    MaxId = 5
SYMMETRY SameBucket
INVARIANTS
    Check
    FileRoundTrips
PROPERTIES
    TriedIsKept
