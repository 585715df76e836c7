\* One run after the other, interrupted and repeated.
SPECIFICATION Spec
CONSTANTS
    Run = {"d1"}
    Commit = {"c1", "c2"}
    Broken = {"c2"}
    Service = {"staging", "prod"}
    Var = {"TOKEN"}
    Target <- Any
    MaxStarts = 3
    MaxKills = 0
    MaxSlips = 0
INVARIANTS
    RolesAllow
CHECK_DEADLOCK FALSE
