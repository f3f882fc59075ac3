\* Two messages, one handled at a time, with everything the user can say and
\* everything that can go wrong.
CONSTANTS
    Emails = {e1}
    COMPOSE = COMPOSE
    NoEmail = NoEmail
    Typed = {"draft", "archive", "undo", "drop"}
    Voiced = {"search", "read"}
    Captions = {"compose"}
    Tapped = {"send", "edit", "confirm_delete"}
    MaxMessages = 2
    Concurrency = 1
    MaxHeld = 1
    MaxAttempts = 2
    MaxClock = 1
    Disturbances = {"db", "service", "whatsapp", "record", "purge", "crash"}
    MaxDisturbed = 1
    Filings <- Folders
    PathOf <- PathsOfFolders
    Ids = {0, 1}
    MaxFolderDepth = 1
SPECIFICATION LiveSpec
CHECK_DEADLOCK FALSE
INVARIANTS UndoneByFew SilenceMeansFile MirrorFollows LostWriteMends UndoRestores
PROPERTIES ConfirmationSpec MessagesEnd
