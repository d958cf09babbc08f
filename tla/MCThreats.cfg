\* Two requests at a time, up to three that succeed, on one threat; the queue
\* holds one entry, so the overflow write happens.
CONSTANTS
    HIGH = HIGH
    high = high
    wrong = wrong
    Procs = {p1, p2}
    ThreatIds = {i1}
    Titles = {t1}
    Blank = Blank
    Spellings = {HIGH, wrong}
    Severities = {high, wrong}
    Lowered <- MCLowered
    allowedSeverities = {high}
    Keep = Keep
    NoThreat = NoThreat
    Faults = {"postgres"}
    Entries = {a1, a2, a3}
    NoEntry = NoEntry
    Nothing <- MCNothing
    Workers = {w1}
    QueueSize = 1
SPECIFICATION ServerFairSpec
\* The process ends: Stop and Kill.
CHECK_DEADLOCK FALSE
INVARIANTS
    ServerTypeOK
    RecordedOnce
    TrailMatchesTable
    NothingUnrecorded
    StoredTrail
PROPERTIES
    DeletedForGood
    DrainEnds
