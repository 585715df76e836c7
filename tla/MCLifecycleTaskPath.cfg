\* Galaxy servers name their tasks from the root, one of them below a path.
SPECIFICATION LifecycleSpec
CONSTANTS
    Draft <- MCDraft
    Elsewhere = {1}
    Bare <- MCBare
    NameLength = {36}
    MaxEdits = 0
    MaxFaults = 0
    Client = {"c1"}
    Form <- RootForm
    Coding = {"identity"}
    MaxLost = 0
INVARIANTS
    FollowsTask
