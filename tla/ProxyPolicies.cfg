SPECIFICATION Spec
CONSTANTS
    None = None
    d1 = d1
    d2 = d2
    k1 = k1
    a1 = a1
    t1 = t1
    t2 = t2
    r1 = r1
    r2 = r2
    Backends <- MCBackends
    Tokens = {t1}
    Devices = {d1, d2}
    AnonKeys = {k1}
    Addrs = {a1}
    Requests = {r1}
    Hash <- MCHash
    Policy = "force_reauth"
    GrayPolicy = "pin_unhealthy"
    NewClientsRequire = "healthy_or_degraded"
    ConfigDisabled = {}
    GrayDevices = {d1}
    UserHint <- HintTwo
    Owner <- AllOwnedBy1
    AnonKeyOf <- OneAnonKey
    AddrOf <- OneAddr
    Paths = {"api", "login", "logout", "media", "sync"}
    MaxFaults = 2
INVARIANTS
    GrayTokenNeverDropped
    ParkedBackendNeverHopped
