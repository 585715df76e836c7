\* Two concurrent calls over two issuers.  TTL = 2 and MaxClock = 3 leave room
\* for a fetch that outlives an entry and for a hit on what it stored.
SPECIFICATION Spec
CONSTANTS
    Call = {c1, c2}
    Issuer = {i1, i2}
    TTL = 2
    MaxClock = 3
    MaxVersion = 2
SYMMETRY Symmetry
INVARIANTS
    TypeOK
    EntryExpires
    BoundedStaleness
PROPERTIES
    RegressesOnlyByOverlap
    ImplementsKeySource
