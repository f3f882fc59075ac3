\* Every disturbance, up to two in a behaviour; two messages, two jobs side by side.
CONSTANTS
    Kind = "gmail"
    MaxMail = 2
    MaxClock = 1
    MaxAttempts = 2
    Concurrency = 2
    MaxDisturbed = 2
    Disturbances = {"provider", "reject", "revoke", "db", "enqueue", "crash", "expire", "loseNotice", "repeatNotice", "lapse", "watch", "reconnect", "vanish", "sweep"}
SPECIFICATION Spec
CHECK_DEADLOCK FALSE
INVARIANTS NothingSkipped
