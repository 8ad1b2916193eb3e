SPECIFICATION FairSpec
CONSTANTS
    Overrides <- MCOverrides
    Public <- MCPublic
    PublicLimit = 1
    BearerLimit = 2
    GeneralLimit = 1
    Window = 3
    Calls <- MCCalls
INVARIANT WithinLimit
PROPERTY NeverShutOut
