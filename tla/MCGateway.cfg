\* Two concurrent requests, each of any input, one OAuth and one static-token
\* server, a rotation.
SPECIFICATION Spec
CONSTANTS
    Request = {r1, r2}
    Input <- MCInput
    Issuers <- MCIssuers
    Keys <- MCKeys
    Server = {"hub", "ng"}
    OAuth = {"hub"}
    Rules <- MCRules
    Audience = "us"
    GalaxyBody = {"text"}
    PostRedirect = FALSE
    Id = {1}
    TTL = 1
    MaxClock = 2
    MaxVersion = 2
    MaxLifespan = 1
SYMMETRY Symmetry
INVARIANTS
    TypeOK
    ForwardedIsAuthorized
    ForwardedKeyWasPublished
    RefusalExplained
    OwnErrorMeansUntouched
    CodeTellsPublished
    UploadRefusalExplained
PROPERTIES
    ReachesGalaxyOnce
