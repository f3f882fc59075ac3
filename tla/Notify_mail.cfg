\* Two messages, of which a digest shows one, and no snoozes.
CONSTANTS
    Emails = {e1, e2}
    Reminders = {}
    Digests = {d1}
    Sweeps = {}
    NoReminder = NoReminder
    NoEmail = NoEmail
    Commands = {"archive"}
    DigestLimit = 1
    MaxInbound = 1
    MaxAttempts = 2
    MaxAnalyses = 2
    MaxDisturbed = 1
    Disturbances = {"model", "whatsapp", "db", "enqueue", "crash", "unlink", "purge", "reject"}
SPECIFICATION Spec
CHECK_DEADLOCK FALSE
INVARIANTS NothingForgotten
SYMMETRY Symmetry
