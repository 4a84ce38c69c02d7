SPECIFICATION Spec
CONSTANTS
    None = None
    b1 = b1
    i1 = i1
    jpeg = jpeg
    webp = webp
    h1 = h1
    h2 = h2
    Backends = {b1}
    Images = {i1}
    Accepts = {jpeg, webp}
    Handlers = {h1, h2}
    Sizes = {1, 2}
    MaxMemory = 2
    MaxDisk = 3
    MaxObject = 2
    DefaultTTL = 1
    MaxTTL = 2
    FileOrder <- MCFileOrder
    MaxAnswers = 3
    MaxFaults = 2
SYMMETRY HandlerSymmetry
INVARIANTS
    TypeOK
    CacheCurrent
    AnswersFit
    DirectoryMatches
    AccountsExact
PROPERTY RestartKeeps
