CONSTANTS
    K1 = K1  K2 = K2  K3 = K3  K4 = K4  K5 = K5  I1 = I1  I2 = I2  S1 = S1  S2 = S2
    NULL = NULL
    Keys <- MCKeys4
    Seeds <- MCSeeds1
    DefaultSeed = S1
    Hash <- MCHash4
    Iters <- MCIters1
    ExpandSizes = {3, 8}
    RehashSteps = {1, 2}
    MaxRehashMsRounds = 2
SPECIFICATION HostSpec
INVARIANT TypeOK
INVARIANT KeysUnique
INVARIANT UsedCounts
INVARIANT BucketPlacement
INVARIANT RehashFrontier
INVARIANT IteratorCount
INVARIANT IterNoDuplicate
INVARIANT IterComplete
VIEW StateView
