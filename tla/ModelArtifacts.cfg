SPECIFICATION Spec
CONSTANTS
    g1 = g1
    g2 = g2
    g3 = g3
    g4 = g4
    Null = Null
    Catalog <- MCCatalog
    Undefined = 3
    Groups <- MCGroups
    Share <- MCShare
    Seeds <- MCSeeds
    Shuffle <- MCShuffle
    Configs <- MCConfigs
    MaxExports = 2
    MaxTrainings = 2
    MaxFaults = 2
INVARIANTS
    AnswersAreLabelled
    NoMerchantLeaks
    SharesAreKept
CHECK_DEADLOCK FALSE
