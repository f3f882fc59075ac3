\* Three days in which the clocks may change once; a worker that misses a sweep,
\* runs one twice, or falls behind, or a user who chooses other times.
CONSTANTS
    Day = 8
    Week = 3
    Month = 4
    SweepEvery = 2
    MaxClock = 23
    Zones <- SomeZones
    Choices <- SomeChoices
    Requests <- SomeRequests
    Hours <- SomeHours
    Shortest = 1
    Longest = 40
    Disturbances = {"missed", "again", "delayed", "chosen"}
    MaxDisturbed = 1
SPECIFICATION Spec
CHECK_DEADLOCK FALSE
INVARIANTS TimesServed SnoozeAsMeant
PROPERTIES DigestHasItsTime
