\* Two drafts compete for the file the user sent and for the one undo slot, two slots of
\* the worker pool race for each, and every failure is possible at every step.
CONSTANTS
    Drafts = {d1, d2}
    Files = {f1}
    Workers = {w1, w2}
    NoDraft = NoDraft
    NoWorker = NoWorker
    MaxAttempts = 2
    MaxStalls = 0
    Faults = {"crash", "stall", "db", "enqueue", "load", "refuse", "lostAck", "confirm"}
SYMMETRY Symmetry
SPECIFICATION Spec
CHECK_DEADLOCK FALSE
INVARIANTS SentMeansDelivered CopiesBounded FileTravelsOnce
PROPERTIES CancelledIsFinal
