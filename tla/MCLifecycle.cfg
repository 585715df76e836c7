\* One client, an edit, a fault of the deployment and a lost reply.
SPECIFICATION LifecycleSpec
CONSTANTS
    Draft <- MCDraft
    Elsewhere = {1}
    Bare <- MCBare
    NameLength = {3, 36, 37}
    MaxEdits = 1
    MaxFaults = 1
    Client = {"c1"}
    Form <- MCForm
    Coding = {"identity"}
    MaxLost = 1
INVARIANTS
    TypesOK
    DeployedStarts
    LiveServersUsable
    FollowsTask
    ReplyReadable
PROPERTIES
    LastEditServed
    LearnsOutcome
    ImplementsSession
