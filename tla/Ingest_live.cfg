\* One failure at most, fewer than a job has attempts; nothing is lost on the way in.
CONSTANTS
    Kind = "gmail"
    MaxMail = 3
    MaxClock = 2
    MaxAttempts = 2
    Concurrency = 2
    MaxDisturbed = 1
    Disturbances = {"provider", "db", "vanish"}
SPECIFICATION FairSpec
CHECK_DEADLOCK FALSE
INVARIANTS StoredIsAnnounced CaughtUp
PROPERTIES MailIsAnnounced
