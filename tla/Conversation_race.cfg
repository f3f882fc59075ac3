\* Three messages, two of them handled at once: what two taps, two files or two
\* undos do to each other.
CONSTANTS
    Emails = {e1, e2}
    COMPOSE = COMPOSE
    NoEmail = NoEmail
    Typed = {"forward", "compose"}
    Voiced = {}
    Captions = {"none"}
    Tapped = {"send", "cancel", "yes", "undo"}
    MaxMessages = 3
    Concurrency = 2
    MaxHeld = 1
    MaxAttempts = 2
    MaxClock = 0
    Disturbances = {"enqueue", "lost"}
    MaxDisturbed = 1
    Filings <- Folders
    PathOf <- PathsOfFolders
    Ids = {0, 1}
    MaxFolderDepth = 1
SPECIFICATION Spec
CHECK_DEADLOCK FALSE
INVARIANTS NothingUnconfirmed HeldBounded
SYMMETRY Symmetry
