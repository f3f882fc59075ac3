CONSTANTS
    Users = {u1}
    Boxes = {g1, o1, o2}
    Owned <- OneGmailOrTwoOutlook
    Gmail = {g1}
    NoAccount = NoAccount
    Slots = {s1, s2}
    MaxGrants = 2
    MaxClock = 2
    Lasts = 2
    MaxRevoked = 1
    MaxTasks = 3
    Disturbances = {"fault", "outage", "limited", "unconfigured", "retired", "db", "crash"}
    MaxDisturbed = 1
SPECIFICATION Spec
SYMMETRY MailboxSymmetry
INVARIANTS OwnMailbox NeverDeaf AskedWithCause
CHECK_DEADLOCK FALSE
