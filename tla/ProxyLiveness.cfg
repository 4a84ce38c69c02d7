SPECIFICATION FairSpec
CONSTANTS
    None = None
    d1 = d1
    d2 = d2
    k1 = k1
    a1 = a1
    t1 = t1
    t2 = t2
    r1 = r1
    r2 = r2
    Backends <- MCBackends
    Tokens = {t1, t2}
    Devices = {d1}
    AnonKeys = {k1}
    Addrs = {a1}
    Requests = {r1}
    Hash <- MCHash
    Policy = "fail_closed"
    GrayPolicy = "fail_closed"
    NewClientsRequire = "healthy"
    ConfigDisabled = {}
    GrayDevices = {}
    UserHint <- HintTwo
    Owner <- AllOwnedBy1
    AnonKeyOf <- OneAnonKey
    AddrOf <- OneAddr
    Paths = {"api", "login"}
    MaxFaults = 2
INVARIANTS
    ReloginStaysHome
PROPERTIES
    EveryRequestAnswered
    TokenIssuerServes
