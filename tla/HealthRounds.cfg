SPECIFICATION Spec
CONSTANTS
    Order <- MCOrder
    Configs <- MCConfigs
    Threshold = 2
    Window = 2
    MaxFaults = 3
INVARIANTS
    TypeOK
    ReasonsAgree
    VerdictsDeserved
    NoFailureLost
PROPERTY StatesConverge
