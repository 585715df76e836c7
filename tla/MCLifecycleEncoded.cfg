\* Galaxy encodes some of its replies.
SPECIFICATION LifecycleSpec
CONSTANTS
    Draft <- MCDraft
    Elsewhere = {1}
    Bare <- MCBare
    NameLength = {36}
    MaxEdits = 0
    MaxFaults = 0
    Client = {"c1"}
    Form <- MCForm
    Coding = {"identity", "gzip"}
    MaxLost = 0
INVARIANTS
    ReplyReadable
