SPECIFICATION Spec
CONSTANTS
    None = None
    d1 = d1
    d2 = d2
    k1 = k1
    a1 = a1
    t1 = t1
    t2 = t2
    r1 = r1
    r2 = r2
    Backends <- MCBackends
    Tokens = {t1}
    Devices = {d1}
    AnonKeys = {k1}
    Addrs = {a1}
    Requests = {r1, r2}
    Hash <- MCHash
    Policy = "force_reauth"
    GrayPolicy = "fail_closed"
    NewClientsRequire = "healthy"
    ConfigDisabled = {}
    GrayDevices = {}
    UserHint <- NoHint
    Owner <- AllOwnedBy1
    AnonKeyOf <- OneAnonKey
    AddrOf <- OneAddr
    Paths = {"api", "login", "logout"}
    MaxFaults = 1
SYMMETRY RequestSymmetry
INVARIANTS
    TypeOK
    TokenPinnedToIssuer
    TokenForwardedToIssuer
    DroppedTokenNotForwarded
PROPERTIES
    AffinityPromise
