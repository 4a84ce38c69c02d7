SPECIFICATION Spec
CONSTANTS
    None = None
    Keys = {"k1"}
    Handlers = {h1, h2}
    Modes <- MCModes
    Asks <- MCAsks
    Lengths <- MCLengths
    MaxObject = 2
    OtherLimit = 3
INVARIANT
    SharersAlike
