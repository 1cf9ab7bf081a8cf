SPECIFICATION Spec
CONSTANTS
    Usernames = {"admin", "new"}
    Seeded = {"admin"}
    Passwords = {"temp", "own"}
    SeedPassword = "own"
    TemporaryPassword = "temp"
    Changes <- Demotion
    NewRoles = {"OFFICER"}
    FirstAccounts <- AdminAndNobody
    Browsers = {b1, b2}
    NoBrowser = NoBrowser
    b1 = b1
    b2 = b2
    May <- TwoDesks
    AccessLife = 1
    RefreshLife = 2
    MaxAttempts = 1
    LockFor = 1
    MaxTime = 3
    NoAccount = NoAccount
    NoToken = NoToken
    Same = Same
INVARIANTS StaleAuthorityBounded
PROPERTIES DecisionsStand ChosenPasswordStays
CHECK_DEADLOCK FALSE
