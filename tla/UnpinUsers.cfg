SPECIFICATION Spec
CONSTANTS
    None = None
    ada = ada
    bob = bob
    t1 = t1
    t2 = t2
    d1 = d1
    d2 = d2
    b1 = b1
    b2 = b2
    h1 = h1
    Backends = {b1, b2}
    Users = {ada, bob}
    Tokens = {t1, t2}
    Devices = {d1, d2}
    Handlers = {h1}
    UserOf <- MCUserOf
    DeviceOf <- MCDeviceOf
SYMMETRY MCSymmetry
INVARIANTS
    TypeOK
    OthersKeepTokens
    UnpinComplete
