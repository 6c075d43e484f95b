SPECIFICATION FairSpec
CONSTANTS
    a = a
    b = b
    c = c
    d = d
    e = e
    f = f
    g = g
    Children = {a, b, c, d, e, f, g}
    Root = Root
    Nobody = Nobody
    Unbounded = Unbounded
    Lanes = {"local", "frontier"}
    Parent <- Nested
    LaneOf <- FourFrontier
    Cap <- TwoFrontier
    Scope <- WholeTrees
    Writing = {a, b, d, g}
    Delegators = {c, e, f}
    Atoms = {d, g}
    Timed = {d, g}
    MaxChildren = 2
    MaxActive = 4
    MaxTotal = 4
    Faults = TRUE
INVARIANTS NoWriteClash ReservationsConserved BannersClose
PROPERTIES EveryCallReturns V0Mutex
CHECK_DEADLOCK FALSE
