CONSTANTS
    K1 = K1  K2 = K2  K3 = K3  K4 = K4  K5 = K5  I1 = I1  I2 = I2  S1 = S1  S2 = S2
    NULL = NULL
    Keys <- MCKeys1
    Seeds <- MCSeeds1
    DefaultSeed = S1
    Hash <- MCHash1
    Iters <- MCIters1
    ExpandSizes = {8}
    RehashSteps = {1}
    MaxRehashMsRounds = 1
SPECIFICATION FairHostSpec
PROPERTY RehashCompletes
