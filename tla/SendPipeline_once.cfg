\* Crashes, stalls, refusals and lost enqueues, but nothing fails once a copy has left.
CONSTANTS
    Drafts = {d1}
    Files = {f1}
    Workers = {w1, w2}
    NoDraft = NoDraft
    NoWorker = NoWorker
    MaxAttempts = 3
    MaxStalls = 1
    Faults = {"crash", "stall", "enqueue", "load", "refuse"}
SPECIFICATION FairSpec
CHECK_DEADLOCK FALSE
INVARIANTS ClaimExclusive AtMostOnce ToldTheTruth
PROPERTIES MailSpec JobEnds
