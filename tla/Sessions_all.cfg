CONSTANTS
    Requests = {r1, r2}
    Operations = {"refresh", "signIn", "guess", "verify", "setup", "enable", "disable", "redeem", "signOut", "signOutAll", "startPhone", "unlink"}
    Phones = {p1}
    NoPhone = NoPhone
    MaxAsked = 3
    MaxSessions = 3
    MaxSecrets = 2
    MaxPhoneCodes = 1
    MaxClock = 2
    MaxFailed = 2
    RecoveryCodes = 2
    Window = 0
    Disturbances = {"crash", "lost", "expired"}
    MaxDisturbed = 1
SPECIFICATION Spec
SYMMETRY RequestSymmetry
INVARIANTS OneHeir EndedStaysEnded SpentOnce GuessesBounded
CHECK_DEADLOCK FALSE
