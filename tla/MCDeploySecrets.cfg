\* One run after the other, for two services that name the same variable.
SPECIFICATION Spec
CONSTANTS
    Run = {"d1"}
    Commit = {"c1", "c2"}
    Broken = {"c2"}
    Service = {"staging", "prod"}
    Var = {"TOKEN"}
    Target <- Any
    MaxStarts = 3
    MaxKills = 0
    MaxSlips = 0
INVARIANTS
    OwnSecrets
CHECK_DEADLOCK FALSE
