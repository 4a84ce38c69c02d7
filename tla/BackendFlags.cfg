SPECIFICATION Spec
CONSTANTS
    None = None
    Backends = {b1, b2}
    ConfigDisabled = {b2}
    Calls = {c1, c2}
    LoadMayFail = TRUE
    MaxRestarts = 2
INVARIANT
    FlagsInv
PROPERTY
    OverlayPromise
