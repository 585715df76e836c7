\* Two concurrent calls over two servers.  Lifetimes at, just above and well
\* above the buffer; an endpoint that states no lifetime gives a little more
\* than the default.
SPECIFICATION Spec
CONSTANTS
    Call = {c1, c2}
    Server = {s1, s2}
    Buffer = 1
    DefaultExpiry = 2
    Lifetime = {1, 3}
    UnstatedLife = {3}
    MaxClock = 4
    MaxToken = 2
SYMMETRY Symmetry
INVARIANTS
    TypeOK
    EntryWithinLife
    ReusedTokenUsable
