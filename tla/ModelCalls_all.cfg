CONSTANTS
    Messages = {m1}
    NoMessage = NoMessage
    Slots = {s1, s2}
    Primary = "openai"
    Fallback = "gemini"
    Requested = {"summary", "query"}
    Ceiling = 1
    MaxCost = 2
    MaxAttempts = 2
    Batch = 1
    MaxDays = 2
    MaxRequests = 1
    Disturbances = {"cut", "filtered", "busy", "database", "redis", "crash", "evicted"}
    MaxDisturbed = 1
SPECIFICATION Spec
SYMMETRY CallSymmetry
INVARIANTS SpendBounded BoughtOnce BackfillCovers
CHECK_DEADLOCK FALSE
