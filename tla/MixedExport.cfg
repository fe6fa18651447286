SPECIFICATION Spec
CONSTANTS
    g1 = g1
    g2 = g2
    g3 = g3
    g4 = g4
    Null = Null
    Catalog <- MCCatalog
    Undefined = 3
    Groups <- MCGroups
    Share <- MCShare
    Seeds <- MCSeeds
    Shuffle <- MCShuffle
    Configs <- MCConfigs
    MaxExports = 2
    MaxTrainings = 0
    MaxFaults = 0
INVARIANT
    EvaluationMerchantsAreUnseen
CHECK_DEADLOCK FALSE
