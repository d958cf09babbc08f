\* Four entries over a channel of two and two workers: it fills up and overflows.
CONSTANTS
    Entries = {a1, a2, a3, a4}
    NoEntry = NoEntry
    Workers = {w1, w2}
    Handlers = {h1, h2}
    QueueSize = 2
SPECIFICATION FairSpec
\* The process ends: Stop and Kill.
CHECK_DEADLOCK FALSE
INVARIANTS
    TypeOK
    OnePlace
    LossBounded
PROPERTIES
    ImplementsTrail
    ImplementsFairTrail
