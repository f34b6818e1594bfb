CONSTANTS
    K1 = K1
    K2 = K2
    O1 = O1
    O2 = O2
    MaxOwn = 2
    Keys <- MCKeys
    Objs <- MCObjs
    Types <- MCTypes
SPECIFICATION HostSpec
INVARIANT TypeOK
INVARIANT NoUseAfterFree
INVARIANT RefsBalanced
