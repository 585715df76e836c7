\* Two overlapping runs for one service, repeated and interrupted; a container or a
\* generated file may stay that should have been removed.
SPECIFICATION FairSpec
CONSTANTS
    Run = {"d1", "d2"}
    Commit = {"c1", "c2"}
    Broken = {"c2"}
    Service = {"prod"}
    Var = {"TOKEN"}
    Target <- Any
    MaxStarts = 3
    MaxKills = 0
    MaxSlips = 1
INVARIANTS
    TypeOK
    ServiceGrounded
    SuccessIsOurs
    LeftoversExplained
PROPERTIES
    EveryRunEnds
CHECK_DEADLOCK FALSE
