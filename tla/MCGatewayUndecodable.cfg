\* Galaxy answers an upload with a body that is not text in a UTF encoding.
SPECIFICATION Spec
CONSTANTS
    Request = {r1, r2}
    Input <- PlainInput
    Issuers <- PlainIssuers
    Keys <- MCKeys
    Server = {"hub", "cert"}
    OAuth = {"hub", "cert"}
    Rules <- PlainRules
    Audience = "us"
    GalaxyBody = {"text", "undecodable"}
    PostRedirect = FALSE
    Id = {1, 2}
    TTL = 1
    MaxClock = 0
    MaxVersion = 1
    MaxLifespan = 1
INVARIANTS
    ReplyPassedOn
