SPECIFICATION AccountsSpec
CONSTANTS
    Attempt = {a1, a2, a3}
    e1 = e1
    e2 = e2
    i1 = i1
    Account = {e1, e2}
    Source = {i1}
    Max <- MCMax
    Window = 1
    Retention = 1
    Token = {k1, k2}
    Browser = {w1}
    Visit = {v1, v2}
    Absolute = 3
    Inactivity = 2
    Horizon = 3
    NoToken = NoToken
    Unborn = Unborn
    Gone = Gone
    Staff = {u1, u2}
    Stranger = Stranger
    Nobody = Nobody
    Unknown = Unknown
SYMMETRY Symmetry
CONSTRAINT OneStops
CHECK_DEADLOCK FALSE
INVARIANTS
    AccountsInv
    AtMostMax
    LegacyInv
PROPERTIES
    BlockedForCause
