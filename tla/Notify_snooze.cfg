\* One message that can be snoozed, two overlapping sweeps, and no digests.
CONSTANTS
    Emails = {e1}
    Reminders = {r1}
    Digests = {}
    Sweeps = {s1, s2}
    NoReminder = NoReminder
    NoEmail = NoEmail
    Commands = {"reply", "delete"}
    DigestLimit = 1
    MaxInbound = 1
    MaxAttempts = 3
    MaxAnalyses = 2
    MaxDisturbed = 2
    Disturbances = {"model", "whatsapp", "db", "enqueue", "mailbox", "sweepCrash"}
SPECIFICATION FairSpec
CHECK_DEADLOCK FALSE
INVARIANTS FiredByOne CancelledStaysAway
PROPERTIES MailIsHeard SnoozeEnds
