CONSTANTS
    W = 10
    NULL = NULL
    Args <- AllArgs
SPECIFICATION Spec
INVARIANT CmpOrder
 
INVARIANT ReprRoundTrip
INVARIANT FromLongLongDecimal
INVARIANT CatPrintfAppends
INVARIANT MurmurOneByte
INVARIANT IntHashInvertible
