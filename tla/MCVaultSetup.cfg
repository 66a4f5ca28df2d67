SPECIFICATION SpecVault
CONSTANTS
    Users = {alice}
    NoUser = NoUser
    Requests = {r1, r2}
    MaxVersions = 1
    MaxTokens = 2
    MaxCeremonies = 2
    MaxBoots = 2
    LoginBeforeSetup = TRUE
INVARIANT InitializedAgrees
CHECK_DEADLOCK FALSE
