SPECIFICATION FairSpec
CONSTANTS
    None = None
    b1 = b1
    t1 = t1
    u1 = u1
    u2 = u2
    Backends = {b1}
    Tokens = {t1}
    Urls = {u1, u2}
    Requests = {r1, r2}
    CoalesceModes = {TRUE, FALSE}
    Sizes = {1}
    MaxBytes = 2
    MaxObject = 2
    MaxSlots = 1
    Warmed = {}
    MaxWrites = 1
    Reads <- WithAndWithout
    WarmUrls <- OnePath
INVARIANTS
    AnswersOwn
    EntriesOwn
    ReadsOwnWrites
    SlotsConserved
PROPERTY
    EveryReadAnswered
