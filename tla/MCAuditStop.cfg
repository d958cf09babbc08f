\* A graceful stop with entries in the channel.
CONSTANTS
    Entries = {a1, a2, a3}
    NoEntry = NoEntry
    Workers = {w1, w2}
    Handlers = {h1, h2}
    QueueSize = 1
SPECIFICATION Spec
SYMMETRY Symmetry
CHECK_DEADLOCK FALSE
INVARIANTS
    StopKeepsEntries
