\* One run after the other, interrupted, killed and repeated; one removal may not be done.
SPECIFICATION Spec
CONSTANTS
    Run = {"d1"}
    Commit = {"c1", "c2"}
    Broken = {"c2"}
    Service = {"staging", "prod"}
    Var = {"TOKEN"}
    Target <- Any
    MaxStarts = 4
    MaxKills = 2
    MaxSlips = 1
INVARIANTS
    PushedIsHealthy
    ServiceGrounded
    LeftoversExplained
CHECK_DEADLOCK FALSE
