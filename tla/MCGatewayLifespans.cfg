\* Two OAuth servers over two lifespans of the application in one process;
\* Galaxy may answer anything, redirect an upload, or stay silent.
SPECIFICATION FairSpec
CONSTANTS
    Request = {r1, r2}
    Input <- PlainInput
    Issuers <- PlainIssuers
    Keys <- MCKeys
    Server = {"hub", "cert"}
    OAuth = {"hub", "cert"}
    Rules <- PlainRules
    Audience = "us"
    GalaxyBody = {"text", "undecodable"}
    PostRedirect = TRUE
    Id = {1, 2, 3, 4}
    TTL = 1
    MaxClock = 0
    MaxVersion = 1
    MaxLifespan = 2
INVARIANTS
    OwnCredentials
PROPERTIES
    EveryRequestEnds
