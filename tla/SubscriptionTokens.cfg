SPECIFICATION Spec
CONSTANTS
    r1 = r1
    r2 = r2
    Requests = {r1, r2}
    Signers = {user}
    Nobody = Nobody
    MaxSends = 2
    Rotations = {TRUE}
SYMMETRY RequestSymmetry
INVARIANTS ExchangedOnce TokensSafe
PROPERTIES LoginNeverOverwrites LineageKept HandedIsStored
CHECK_DEADLOCK FALSE
