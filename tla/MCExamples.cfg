\* Two requests of one client at a time, bursts of two, three inserts.
CONSTANTS
    Procs = {p1, p2}
    Clients = {c1}
    NoClient = NoClient
    Limiters = {l1, l2, l3, l4}
    NoLimiter = NoLimiter
    Burst = 2
    MaxEvictors = 3
    MaxId = 5
SPECIFICATION ExamplesSpec
INVARIANTS
    ExamplesTypeOK
    BurstBounded
    LaterIdsGrow
    StoredForGood
PROPERTY
    LimiterEvicted
