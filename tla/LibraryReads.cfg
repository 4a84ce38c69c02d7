SPECIFICATION Spec
CONSTANTS
    None = None
    b1 = b1
    t1 = t1
    u1 = u1
    u2 = u2
    Backends = {b1}
    Tokens = {t1}
    Urls = {u1, u2}
    Requests = {r1, r2}
    CoalesceModes = {TRUE}
    Sizes = {1, 2}
    MaxBytes = 2
    MaxObject = 2
    MaxSlots = 2
    Warmed = {t1}
    MaxWrites = 1
    Reads <- TwoLists
    WarmUrls <- OnePath
INVARIANTS
    TypeOK
    LibraryInv
    CacheSound
    EntriesFresh
    OneHopPerKey
SYMMETRY
    RequestSymmetry
